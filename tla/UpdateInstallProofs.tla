-------------------------- MODULE UpdateInstallProofs --------------------------
(***************************************************************************)
(* What is proved of the installer for every set of processes, files and   *)
(* versions, for every edition and every number of operations.             *)
(***************************************************************************)
EXTENDS UpdateInstall, TLAPS

(* The contents of a file: a version, nothing, or no file.                 *)
LEMMA Contents ==
  /\ Absent \in Label /\ Absent \notin Versions
  /\ Versions \subseteq Label /\ 1 \in Versions /\ 1 # Absent
  /\ Label \subseteq Content
  /\ Empty \in Content /\ Empty \notin Label
  /\ \A v \in Label : v = Absent \/ v \in Versions
  /\ \A v \in Content : v = Empty \/ v \in Label
BY InstallAssumption DEF Absent, Empty, Label, Content, Versions

USE InstallAssumption, Contents

LEMMA StagesAre ==
  \A s \in {"idle", "download", "extract", "copyback", "stage", "smoke",
            "discard", "mkbak", "replace", "rename", "undo", "backup",
            "backupcopy", "meta", "drop", "publish", "launch", "failed",
            "done"} : s \in Stages
BY DEF Stages

(* The locals of an operation that goes on to another stage.               *)
LEMMA OpUpdates ==
  ASSUME NEW o \in Ops, NEW s \in Stages, NEW t \in SUBSET Files,
         NEW c \in SUBSET Files, NEW d \in SUBSET Files
  PROVE  /\ [o EXCEPT !.todo = t, !.stage = s] \in Ops
         /\ [o EXCEPT !.stage = s, !.todo = t, !.cur = c, !.done = d] \in Ops
<1>2. [o EXCEPT !.todo = t, !.stage = s] \in Ops
  BY DEF Ops
<1>3. [o EXCEPT !.stage = s, !.todo = t, !.cur = c, !.done = d] \in Ops
  BY DEF Ops
<1> QED
  BY <1>2, <1>3

(* Every step of an operation leaves op a record of its type: the stage is *)
(* one of Stages, the sets are sets of files.                              *)
LEMMA OpTyped ==
  ASSUME edition \in Editions, op \in Ops, lock \in Procs \cup {Nobody},
         OpStep
  PROVE  op' \in Ops
<1>t. op.stage \in Stages /\ op.todo \subseteq Files /\ op.done \subseteq Files
  BY DEF Ops
<1> USE StagesAre DEF Goto, GotoAll, Ops
<1>1. CASE DownloadAsset
  BY <1>1 DEF DownloadAsset
<1>2. CASE Extract
  <2> DEFINE T == {f \in ProgramFiles[lock] :
                     f = Exe[lock] \/ target[f] # Absent}
  <2>1. T \subseteq Files
    BY <1>2 DEF Extract, Holding, ProgramFiles
  <2>2. CASE op' = [op EXCEPT !.stage = "stage", !.items = T, !.todo = T]
    <3> HIDE DEF T
    <3> QED
      BY <2>1, <2>2
  <2>3. CASE op' = [op EXCEPT !.stage = "failed"]
    BY <2>3
  <2> QED
    BY <1>2, <2>2, <2>3, Zenon DEF Extract
<1>3. CASE CopyBack
  <2>1. \/ op' = [op EXCEPT !.stage = "stage"]
        \/ op' = [op EXCEPT !.stage = "failed"]
    BY <1>3, Zenon DEF CopyBack
  <2> QED
    BY <2>1
<1>4. CASE SmokeTest
  BY <1>4 DEF SmokeTest
<1>5. CASE DiscardStaged
  BY <1>5 DEF DiscardStaged
<1>6. CASE MakeBackupDir
  BY <1>6 DEF MakeBackupDir
<1>7. CASE DiscardBackup
  BY <1>7 DEF DiscardBackup
<1>8. CASE WriteMeta
  BY <1>8 DEF WriteMeta
<1>9. CASE DropOldBackup
  BY <1>9 DEF DropOldBackup
<1>10. CASE PublishBackup
  BY <1>10 DEF PublishBackup, AfterBackup
<1>11. CASE BackupBeforeInstaller
  <2> DEFINE T == {f \in ProgramFiles[lock] : target[f] # Absent}
  <2>1. T \subseteq Files
    BY <1>11 DEF BackupBeforeInstaller, Holding, ProgramFiles
  <2>2. CASE op' = [op EXCEPT !.stage = "backupcopy", !.todo = T]
    <3> HIDE DEF T
    <3> QED
      BY <2>1, <2>2
  <2>3. CASE op' = [op EXCEPT !.stage = "launch"]
    BY <2>3
  <2> QED
    BY <1>11, <2>2, <2>3 DEF BackupBeforeInstaller
<1>13. CASE LaunchInstaller
  BY <1>13 DEF LaunchInstaller
<1>14. CASE Finish
  BY <1>14 DEF Finish, NoOp
<1>15. ASSUME NEW f \in Files, FileStep(f) PROVE op' \in Ops
  <2>1. CASE StageFile(f)
    <3> DEFINE next == IF op.todo = {f} THEN "smoke" ELSE "stage"
    <3>1. CASE op' = [op EXCEPT !.todo = @ \ {f}, !.stage = next]
      <4>1. next \in Stages /\ op.todo \ {f} \in SUBSET Files
        BY <1>t
      <4> HIDE DEF next, Ops
      <4> QED
        BY <3>1, <4>1, OpUpdates, Zenon
    <3>2. CASE op' = [op EXCEPT !.todo = @ \ {f}, !.stage = "discard"]
      BY <3>2
    <3> QED
      BY <2>1, <3>1, <3>2 DEF StageFile
  <2>2. CASE MoveOldToBackup(f)
    <3>1. CASE op' = [op EXCEPT !.stage = "rename", !.cur = {f}]
      BY <3>1
    <3>2. CASE op' = [op EXCEPT !.stage = "rename", !.cur = {f},
                                !.had = @ \cup {f}]
      BY <3>2
    <3>3. CASE op' = [op EXCEPT !.stage = "undo", !.todo = op.done]
      BY <3>3
    <3> QED
      BY <2>2, <3>1, <3>2, <3>3 DEF MoveOldToBackup
  <2>3. CASE RenameIntoPlace(f)
    <3> DEFINE next == IF op.todo = {f} THEN "meta" ELSE "replace"
    <3>1. CASE op' = [op EXCEPT !.stage = next, !.todo = @ \ {f},
                                !.cur = {}, !.done = @ \cup {f}]
      <4>1. /\ next \in Stages /\ op.todo \ {f} \in SUBSET Files
            /\ op.done \cup {f} \in SUBSET Files
        BY <1>t
      <4> HIDE DEF next, Ops
      <4> QED
        BY <3>1, <4>1, OpUpdates, Zenon
    <3>2. CASE op' = [op EXCEPT !.stage = "undo", !.cur = {},
                                !.todo = op.done \cup (op.cur \cap op.had)]
      BY <3>2
    <3> QED
      BY <2>3, <3>1, <3>2 DEF RenameIntoPlace
  <2>4. CASE RemoveNew(f)
    BY <2>4 DEF RemoveNew
  <2>5. CASE RestoreRemove(f)
    BY <2>5 DEF RestoreRemove
  <2>6. CASE RestoreFromBackup(f)
    BY <2>6 DEF RestoreFromBackup
  <2>7. CASE CopyToBackup(f)
    <3> DEFINE next == IF op.todo = {f} THEN "meta" ELSE op.stage
    <3>1. CASE op' = [op EXCEPT !.todo = @ \ {f}, !.stage = next]
      <4>1. next \in Stages /\ op.todo \ {f} \in SUBSET Files
        BY <1>t
      <4> HIDE DEF next, Ops
      <4> QED
        BY <3>1, <4>1, OpUpdates, Zenon
    <3>2. CASE op' = [op EXCEPT !.todo = {}, !.stage = "launch"]
      BY <3>2
    <3> QED
      BY <2>7, <3>1, <3>2 DEF CopyToBackup
  <2> QED
    BY <1>15, <2>1, <2>2, <2>3, <2>4, <2>5, <2>6, <2>7 DEF FileStep
<1> QED
  BY <1>1, <1>2, <1>3, <1>4, <1>5, <1>6, <1>7, <1>8, <1>9, <1>10, <1>11,
     <1>13, <1>14, <1>15 DEF OpStep

(* What is left of a directory by a removal is a directory.                *)
LEMMA RemainsIsDir ==
  ASSUME NEW d \in Dirs PROVE Remains(d) \subseteq Dirs
<1>1. CASE ~d.there
  BY <1>1 DEF Remains
<1>2. CASE d.there
  <2> DEFINE Left(gone, m) ==
               [there |-> TRUE, meta |-> m,
                files |-> [f \in Files |-> IF f \in gone THEN Absent
                                           ELSE d.files[f]]]
  <2>1. Remains(d) = {Left(gone, m) : gone \in SUBSET Free(d),
                                      m \in {Absent, d.meta}}
    BY <1>2 DEF Remains
  <2>2. ASSUME NEW gone \in SUBSET Free(d), NEW m \in {Absent, d.meta}
        PROVE  Left(gone, m) \in Dirs
    <3>1. [f \in Files |-> IF f \in gone THEN Absent ELSE d.files[f]]
            \in [Files -> Content]
      BY DEF Dirs
    <3>2. m \in Label
      BY DEF Dirs
    <3> QED
      BY <3>1, <3>2 DEF Dirs
  <2> HIDE DEF Left
  <2> QED
    BY <2>1, <2>2
<1> QED
  BY <1>1, <1>2

LEMMA NoDirIsDir == NoDir \in Dirs
BY DEF NoDir, NoFiles, Dirs

LEMMA RemovedIsDir ==
  ASSUME NEW d \in Dirs
  PROVE  RemoveDirAll(d) \subseteq Dirs /\ Remains(d) \subseteq Dirs
BY RemainsIsDir, NoDirIsDir DEF RemoveDirAll

(* It has some of the files of the directory, and is the directory or is   *)
(* nothing.                                                                *)
LEMMA RemovedFiles ==
  ASSUME NEW d \in Dirs
  PROVE  \A r \in RemoveDirAll(d) \cup Remains(d) :
           /\ r = NoDir \/ r.there
           /\ \A f \in Files : r.files[f] \in {Absent, d.files[f]}
           /\ FilesIn(r) \subseteq FilesIn(d)
<1>1. ASSUME NEW r \in Remains(d)
      PROVE  r.there /\ \A f \in Files : r.files[f] \in {Absent, d.files[f]}
  <2> DEFINE Left(gone, m) ==
               [there |-> TRUE, meta |-> m,
                files |-> [f \in Files |-> IF f \in gone THEN Absent
                                           ELSE d.files[f]]]
  <2>0. d.there
    BY DEF Remains
  <2>1. \A gone \in SUBSET Free(d), m \in {Absent, d.meta} :
          /\ Left(gone, m).there
          /\ \A f \in Files : Left(gone, m).files[f] \in {Absent, d.files[f]}
    OBVIOUS
  <2>2. Remains(d) = {Left(gone, m) : gone \in SUBSET Free(d),
                                      m \in {Absent, d.meta}}
    BY <2>0 DEF Remains
  <2> HIDE DEF Left
  <2> QED
    BY <2>1, <2>2
<1>2. \A f \in Files : NoDir.files[f] = Absent
  BY DEF NoDir, NoFiles
<1>3. \A r \in RemoveDirAll(d) \cup Remains(d) :
        /\ r = NoDir \/ r.there
        /\ \A f \in Files : r.files[f] \in {Absent, d.files[f]}
  BY <1>1, <1>2 DEF RemoveDirAll
<1> QED
  BY <1>3 DEF FilesIn

LEMMA DirUpdates ==
  ASSUME NEW d \in Dirs, NEW f \in Files, NEW v \in Content
  PROVE  /\ AddTo(d, f, v) \in Dirs
         /\ [d EXCEPT !.there = TRUE] \in Dirs
         /\ d.files[f] \in Content
         /\ d.meta \in Label
BY DEF AddTo, Dirs

(* Every step of an operation leaves both backup directories directories.  *)
LEMMA BackupsTyped ==
  ASSUME op.label \in Label, target \in [Files -> Content],
         bakTmp \in Dirs, bak \in Dirs, OpStep
  PROVE  bakTmp' \in Dirs /\ bak' \in Dirs
<1> USE RemovedIsDir, NoDirIsDir DEF disk
<1>1. ASSUME NEW left \in RemoveDirAll(bakTmp)
      PROVE  left \in Dirs /\ [left EXCEPT !.there = TRUE] \in Dirs
  <2>1. left \in Dirs
    OBVIOUS
  <2> QED
    BY <2>1 DEF Dirs
<1>m. CASE MakeBackupDir
  BY <1>m, <1>1 DEF MakeBackupDir
<1>b. CASE BackupBeforeInstaller
  BY <1>b, <1>1 DEF BackupBeforeInstaller
<1>2. CASE DiscardBackup
  BY <1>2 DEF DiscardBackup
<1>3. CASE WriteMeta
  <2>1. \A m \in {Absent, op.label} : [bakTmp EXCEPT !.meta = m] \in Dirs
    BY DEF Dirs
  <2> QED
    BY <1>3, <2>1 DEF WriteMeta
<1>4. CASE DropOldBackup
  BY <1>4 DEF DropOldBackup
<1>5. CASE PublishBackup
  BY <1>5 DEF PublishBackup
<1>6. ASSUME NEW f \in Files, FileStep(f) PROVE bakTmp' \in Dirs /\ bak' \in Dirs
  <2>1. \A v \in {target[f], Absent, Empty} : AddTo(bakTmp, f, v) \in Dirs
    BY DEF AddTo, Dirs
  <2>2. CASE MoveOldToBackup(f)
    BY <2>1, <2>2 DEF MoveOldToBackup
  <2>3. CASE RestoreFromBackup(f)
    BY <2>1, <2>3 DEF RestoreFromBackup
  <2>4. CASE CopyToBackup(f)
    BY <2>1, <2>4 DEF CopyToBackup
  <2> QED
    BY <1>6, <2>2, <2>3, <2>4
    DEF FileStep, StageFile, RenameIntoPlace, RemoveNew, RestoreRemove
<1> QED
  BY <1>m, <1>b, <1>2, <1>3, <1>4, <1>5, <1>6
  DEF OpStep, DownloadAsset, Extract, CopyBack, SmokeTest, DiscardStaged,
      LaunchInstaller, Finish

(* Every step keeps the links among the files, and records accidents of the *)
(* kinds there are.                                                        *)
LEMMA AccidentsTyped ==
  ASSUME linked \subseteq Files, NEW k, spoiled \subseteq k,
         {"cleaner", "crash", "restore", "backup", "leftover", "link"}
           \subseteq k
  PROVE  /\ KeepLinks => linked' \subseteq Files
         /\ \A d : spoiled \cup Kept(d) \subseteq k
<1>1. KeepLinks => linked' \subseteq Files
  BY DEF KeepLinks
<1>2. \A d : spoiled \cup Kept(d) \subseteq k
  BY DEF Kept
<1> QED
  BY <1>1, <1>2

LEMMA TypeInit == Init => TypeOK
BY DEF Init, TypeOK, NoOp, Ops, Stages, NoDir, NoFiles, Dirs

LEMMA TypeStep == TypeOK /\ [Next]_vars => TypeOK'
<1> SUFFICES ASSUME TypeOK, [Next]_vars PROVE TypeOK'
  OBVIOUS
<1> USE DEF TypeOK, disk
<1>0. op.new \in Label /\ op.label \in Label
  BY DEF Ops
<1>n. NoOp \in Ops /\ NoFiles \in [Files -> Content]
  BY StagesAre DEF NoOp, Ops, NoFiles
<1>k. /\ KeepLinks => linked' \subseteq Files
      /\ \A d : spoiled \cup Kept(d) \subseteq
                 {"cleaner", "crash", "restore", "backup", "leftover", "link"}
  BY AccidentsTyped, Zenon
<1>1. ASSUME NEW p \in Procs, Start(p) PROVE TypeOK'
  BY <1>1 DEF Start
<1>2. ASSUME NEW p \in Procs, Exit(p) PROVE TypeOK'
  BY <1>2 DEF Exit
<1>3. ASSUME NEW p \in Procs, Crash(p) PROVE TypeOK'
  BY <1>3, <1>n, RemovedIsDir DEF Crash, Abandon
<1>4. ASSUME NEW p \in Procs, NEW v \in Versions, BeginUpdate(p, v)
      PROVE TypeOK'
  <2>1. op' \in Ops
    BY <1>4, StagesAre DEF BeginUpdate, NoOp, Ops
  <2> QED
    BY <1>4, <2>1 DEF BeginUpdate
<1>5. ASSUME NEW p \in Procs, BeginRollback(p) PROVE TypeOK'
  <2>1. Saved(p) \subseteq Files /\ bak.meta \in Label
    BY DEF Saved, Dirs, ProgramFiles
  <2>2. op' = [NoOp EXCEPT !.stage = "copyback", !.kind = "rollback",
                           !.new = bak.meta, !.label = run[p],
                           !.items = Saved(p), !.todo = Saved(p)]
    BY <1>5 DEF BeginRollback
  <2>3. op' \in Ops
    BY <2>1, <2>2, StagesAre DEF NoOp, Ops
  <2> QED
    BY <1>5, <2>3 DEF BeginRollback
<1>6. CASE OpStep
  <2>1. op' \in Ops /\ bakTmp' \in Dirs /\ bak' \in Dirs
    BY <1>0, <1>6, OpTyped, BackupsTyped
  <2>2. CASE \/ DownloadAsset \/ SmokeTest \/ DiscardStaged
             \/ DiscardBackup \/ WriteMeta \/ DropOldBackup \/ PublishBackup
    BY <1>k, <2>1, <2>2
    DEF DownloadAsset, SmokeTest, DiscardStaged,
        DiscardBackup, WriteMeta, DropOldBackup, PublishBackup
  <2>m. CASE MakeBackupDir
    BY <1>k, <2>1, <2>m DEF MakeBackupDir
  <2>b. CASE BackupBeforeInstaller
    BY <1>k, <2>1, <2>b DEF BackupBeforeInstaller
  <2>3. CASE Extract
    BY <1>0, <1>n, <2>1, <2>3 DEF Extract
  <2>4. CASE CopyBack
    BY <1>n, <2>1, <2>4 DEF CopyBack, Dirs
  <2>5. CASE LaunchInstaller \/ Finish
    BY <1>0, <1>n, <2>1, <2>5 DEF LaunchInstaller, Finish
  <2>6. ASSUME NEW f \in Files, FileStep(f) PROVE TypeOK'
    <3>0. /\ bakTmp.files[f] \in Content /\ staged[f] \in Content
          /\ Absent \in Content /\ Empty \in Content
      BY DEF Dirs
    <3>1. target' \in [Files -> Content]
      BY <2>6, <3>0
      DEF FileStep, StageFile, MoveOldToBackup, RenameIntoPlace, RemoveNew,
          RestoreRemove, RestoreFromBackup, CopyToBackup
    <3>2. staged' \in [Files -> Content]
      BY <2>6
      DEF FileStep, StageFile, MoveOldToBackup, RenameIntoPlace, RemoveNew,
          RestoreRemove, RestoreFromBackup, CopyToBackup
    <3>3. linked' \subseteq Files
      BY <1>k, <2>6
      DEF FileStep, StageFile, MoveOldToBackup, RenameIntoPlace, RemoveNew,
          RestoreRemove, RestoreFromBackup, CopyToBackup
    <3> QED
      BY <2>1, <2>6, <3>1, <3>2, <3>3
      DEF FileStep, StageFile, MoveOldToBackup, RenameIntoPlace, RemoveNew,
          RestoreRemove, RestoreFromBackup, CopyToBackup
  <2> QED
    BY <1>6, <2>2, <2>m, <2>b, <2>3, <2>4, <2>5, <2>6 DEF OpStep
<1>7. CASE SetupRuns
  BY <1>7, <1>n, RemovedIsDir DEF SetupRuns, Abandon
<1>8. ASSUME NEW p \in Procs, Clean(p) PROVE TypeOK'
  <2>1. ASSUME NEW f \in Files, CleanStaged(p, f) PROVE TypeOK'
    BY <2>1 DEF CleanStaged, Interfere
  <2>2. CASE CleanBackupTmp(p)
    BY <1>k, <2>2, RemovedIsDir DEF CleanBackupTmp, Interfere
  <2>3. CASE CleanDirDone(p)
    BY <2>3 DEF CleanDirDone
  <2>4. CASE CleanCache(p)
    BY <2>4, <1>n DEF CleanCache
  <2> QED
    BY <1>8, <2>1, <2>2, <2>3, <2>4 DEF Clean
<1>9. CASE UNCHANGED vars
  BY <1>9 DEF vars
<1> QED
  BY <1>1, <1>2, <1>3, <1>4, <1>5, <1>6, <1>7, <1>8, <1>9 DEF Next

(* Every variable keeps its type.                                          *)
THEOREM TypeCorrect == Spec => []TypeOK
BY TypeInit, TypeStep, PTL DEF Spec

-----------------------------------------------------------------------------
(* The old program files are never lost on Unix, and on Windows only by an *)
(* accident.  The invariant says which files may be missing from their     *)
(* place, and that these are in the new backup directory.                  *)

(* Intact == no accident could lose a saved file so far.                   *)
Intact == spoiled \cap {"cleaner", "crash", "restore"} = {}
Undisturbed == Intact \/ ~Windows

(* The locals of install_files: one file at a time is on its way, and the  *)
(* operation knows which of the files it touched were there before.        *)
KnowsOld ==
  /\ lock = Nobody => op.stage = "idle"
  /\ op.cur # {} => op.stage = "rename"
  /\ \A f, g \in op.cur : f = g
  /\ op.stage \in {"idle", "download", "extract", "copyback", "stage",
                   "smoke", "mkbak"} => op.had = {} /\ op.done = {}
  /\ Undisturbed =>
       \A f \in InitFiles : f \in op.done \cup op.cur => f \in op.had
  /\ op.stage = "undo" => op.todo \subseteq op.done \cup op.had

(* What an undo has still to put back is in the new backup directory.      *)
BackedUp ==
  Intact /\ Replacing =>
    \A f \in op.had :
      (op.stage = "undo" => f \in op.todo) => bakTmp.files[f] # Absent

(* A missing program was just moved away or is still to be put back.       *)
MissingIsSaved ==
  Intact =>
    \A f \in InitFiles : target[f] = Absent =>
      /\ Replacing
      /\ f \in op.had
      /\ f \in op.cur \cup (IF op.stage = "undo" THEN op.todo ELSE {})

(* On Unix the name of a program is never free.                            *)
NeverMissing == ~Windows => \A f \in InitFiles : target[f] # Absent

IInv == TypeOK /\ KnowsOld /\ BackedUp /\ MissingIsSaved /\ NeverMissing

Early == {"idle", "download", "extract", "copyback", "stage", "smoke",
          "mkbak"}

LEMMA IInvInit == Init => IInv
<1> SUFFICES ASSUME Init PROVE IInv
  OBVIOUS
<1>1. /\ op = NoOp /\ NoOp.stage = "idle" /\ NoOp.cur = {} /\ NoOp.had = {}
      /\ NoOp.done = {}
  BY DEF Init, NoOp
<1>2. \A f \in InitFiles : target[f] # Absent
  BY DEF Init
<1>4. KnowsOld
  BY <1>1 DEF KnowsOld, Undisturbed, Intact
<1>5. BackedUp /\ MissingIsSaved /\ NeverMissing
  BY <1>1, <1>2 DEF BackedUp, MissingIsSaved, NeverMissing, Replacing, Intact
<1> QED
  BY <1>4, <1>5, TypeInit, Zenon DEF IInv

LEMMA SameEdition == [Next]_vars => edition' = edition
<1> HIDE Contents, InstallAssumption
<1>1. ASSUME NEW f \in Files, FileStep(f) PROVE edition' = edition
  BY <1>1, Zenon
  DEF FileStep, StageFile, MoveOldToBackup, RenameIntoPlace, RemoveNew,
      RestoreRemove, RestoreFromBackup, CopyToBackup
<1>2. OpStep => edition' = edition
  BY <1>1, Zenon
  DEF OpStep, DownloadAsset, Extract, CopyBack, SmokeTest, DiscardStaged,
      MakeBackupDir, DiscardBackup, WriteMeta, DropOldBackup, PublishBackup,
      BackupBeforeInstaller, LaunchInstaller, Finish
<1>3. ASSUME NEW p \in Procs, Clean(p) PROVE edition' = edition
  BY <1>3, Zenon
  DEF Clean, CleanStaged, CleanBackupTmp, CleanDirDone, CleanCache
<1>4. ASSUME NEW p \in Procs,
             \/ Start(p) \/ Exit(p) \/ Crash(p) \/ BeginRollback(p)
             \/ \E v \in Versions : BeginUpdate(p, v)
      PROVE  edition' = edition
  BY <1>4, Zenon DEF Start, Exit, Crash, BeginRollback, BeginUpdate
<1> QED
  BY <1>2, <1>3, <1>4, Zenon DEF Next, vars, SetupRuns

(* A step before or after the replacement that leaves the programs alone.  *)
LEMMA OutsideStep ==
  ASSUME IInv, TypeOK', ~Replacing, ~Replacing',
         edition' = edition, target' = target, spoiled \subseteq spoiled',
         lock' = Nobody => op'.stage = "idle",
         op'.cur = {},
         \/ op'.had = {} /\ op'.done = {}
         \/ /\ op'.had = op.had /\ op'.done = op.done
            /\ op'.stage \in Early => op.stage \in Early
  PROVE  IInv'
<1>1. KnowsOld'
  BY DEF IInv, KnowsOld, Replacing, Early, Undisturbed, Intact, Windows
<1>2. MissingIsSaved' /\ NeverMissing' /\ BackedUp'
  BY DEF IInv, MissingIsSaved, NeverMissing, BackedUp, Replacing, Intact,
         Windows
<1> QED
  BY <1>1, <1>2 DEF IInv

(* A step of another thread, which leaves the operation alone.             *)
LEMMA AsideStep ==
  ASSUME IInv, TypeOK', edition' = edition, op' = op, lock' = lock,
         target' = target,
         spoiled \subseteq spoiled',
         bakTmp' = bakTmp \/ ~Replacing \/ ~Intact'
  PROVE  IInv'
<1>1. KnowsOld'
  BY DEF IInv, KnowsOld, Undisturbed, Intact, Windows
<1>2. MissingIsSaved' /\ NeverMissing' /\ BackedUp'
  BY DEF IInv, MissingIsSaved, NeverMissing, BackedUp, Replacing, Intact,
         Windows
<1> QED
  BY <1>1, <1>2 DEF IInv

(* The steps of an operation before and after the replacement.             *)
LEMMA QuietOpStep ==
  ASSUME IInv, TypeOK', edition' = edition,
         \/ DownloadAsset \/ Extract \/ CopyBack \/ SmokeTest
         \/ DiscardStaged \/ WriteMeta \/ DropOldBackup \/ PublishBackup
         \/ BackupBeforeInstaller \/ LaunchInstaller
         \/ \E f \in Files : StageFile(f) \/ CopyToBackup(f)
  PROVE  IInv'
<1> DEFINE Quiet(o) == /\ o.cur = op.cur /\ o.had = op.had /\ o.done = op.done
                       /\ o.stage \notin {"replace", "rename", "undo"}
                       /\ o.stage \in Early => op.stage \in Early
<1>1. Quiet(op') /\ ~Replacing /\ lock' = lock /\ lock # Nobody
      /\ target' = target /\ spoiled \subseteq spoiled'
  <2> USE DEF Holding, Goto, Early, Replacing, disk, IInv, TypeOK, Ops
  <2>1. CASE DownloadAsset \/ SmokeTest \/ DiscardStaged
    BY <2>1 DEF DownloadAsset, SmokeTest, DiscardStaged
  <2>2. CASE Extract
    BY <2>2, ZenonT(60) DEF Extract
  <2>3. CASE CopyBack
    BY <2>3 DEF CopyBack
  <2>4. CASE WriteMeta \/ DropOldBackup
    BY <2>4 DEF WriteMeta, DropOldBackup
  <2>5. CASE PublishBackup
    BY <2>5 DEF PublishBackup, AfterBackup
  <2>6. CASE BackupBeforeInstaller
    <3> DEFINE T == {f \in ProgramFiles[lock] : target[f] # Absent}
    <3> HIDE DEF IInv, TypeOK, Ops
    <3>1. /\ \/ op' = [op EXCEPT !.stage = "backupcopy", !.todo = T]
             \/ op' = [op EXCEPT !.stage = "launch"]
          /\ op.stage = "backup" /\ lock' = lock /\ lock # Nobody
          /\ target' = target /\ spoiled \subseteq spoiled'
      BY <2>6, Zenon DEF BackupBeforeInstaller
    <3> HIDE DEF T
    <3>2. op \in Ops
      BY DEF IInv, TypeOK
    <3>3. ASSUME op' = [op EXCEPT !.stage = "backupcopy", !.todo = T]
          PROVE  Quiet(op')
      BY <3>1, <3>2, <3>3 DEF Ops
    <3>4. ASSUME op' = [op EXCEPT !.stage = "launch"]
          PROVE  Quiet(op')
      BY <3>1, <3>2, <3>4 DEF Ops
    <3> QED
      BY <3>1, <3>3, <3>4
  <2>7. CASE LaunchInstaller
    BY <2>7 DEF LaunchInstaller
  <2>8. ASSUME NEW f \in Files, StageFile(f)
        PROVE  Quiet(op') /\ ~Replacing /\ lock' = lock /\ lock # Nobody
               /\ target' = target /\ spoiled \subseteq spoiled'
    BY <2>8, ZenonT(60) DEF StageFile
  <2>9. ASSUME NEW f \in Files, CopyToBackup(f)
        PROVE  Quiet(op') /\ ~Replacing /\ lock' = lock /\ lock # Nobody
               /\ target' = target /\ spoiled \subseteq spoiled'
    <3> DEFINE next == IF op.todo = {f} THEN "meta" ELSE op.stage
    <3> HIDE DEF IInv, TypeOK, Ops
    <3>1. /\ \/ op' = [op EXCEPT !.todo = @ \ {f}, !.stage = next]
             \/ op' = [op EXCEPT !.todo = {}, !.stage = "launch"]
          /\ op.stage = "backupcopy" /\ lock' = lock /\ lock # Nobody
          /\ target' = target /\ spoiled' = spoiled
      BY <2>9, Zenon DEF CopyToBackup
    <3>2. op \in Ops /\ next \in {"meta", "backupcopy"}
      BY <3>1 DEF IInv, TypeOK
    <3> HIDE DEF next
    <3>3. ASSUME op' = [op EXCEPT !.todo = @ \ {f}, !.stage = next]
          PROVE  Quiet(op')
      BY <3>1, <3>2, <3>3 DEF Ops
    <3>4. ASSUME op' = [op EXCEPT !.todo = {}, !.stage = "launch"]
          PROVE  Quiet(op')
      BY <3>1, <3>2, <3>4 DEF Ops
    <3> QED
      BY <3>1, <3>3, <3>4
  <2> QED
    BY <2>1, <2>2, <2>3, <2>4, <2>5, <2>6, <2>7, <2>8, <2>9
<1>2. op.cur = {}
  BY <1>1 DEF IInv, KnowsOld, Replacing
<1>3. ~Replacing'
  BY <1>1 DEF Replacing
<1> QED
  BY <1>1, <1>2, <1>3, OutsideStep

(* The steps that replace files and put them back.                         *)
LEMMA ReplaceStep ==
  ASSUME IInv, TypeOK', edition' = edition, NEW f \in Files,
         \/ MoveOldToBackup(f) \/ RenameIntoPlace(f) \/ RemoveNew(f)
         \/ RestoreRemove(f) \/ RestoreFromBackup(f)
  PROVE  IInv'
<1> USE DEF Holding, IInv, KnowsOld, BackedUp, MissingIsSaved, NeverMissing,
        Replacing, Undisturbed, Intact, Windows
<1>0. op \in Ops /\ target \in [Files -> Content] /\ bakTmp \in Dirs
      /\ staged \in [Files -> Content]
  BY DEF TypeOK
<1>1. CASE MoveOldToBackup(f)
  <2>1. CASE /\ target[f] = Absent
             /\ op' = [op EXCEPT !.stage = "rename", !.cur = {f}]
             /\ UNCHANGED <<target, bakTmp>>
    BY <1>0, <1>1, <2>1 DEF MoveOldToBackup, Ops, Windows
  <2>2. CASE /\ target[f] # Absent /\ bakTmp.there
             /\ \/ /\ bakTmp' = AddTo(bakTmp, f, target[f])
                   /\ target' = IF Windows THEN [target EXCEPT ![f] = Absent]
                                ELSE target
                \/ /\ bakTmp' = AddTo(bakTmp, f, Empty)
                   /\ target' = [target EXCEPT ![f] = Empty]
             /\ op' = [op EXCEPT !.stage = "rename", !.cur = {f},
                                 !.had = @ \cup {f}]
    BY <1>0, <1>1, <2>2 DEF MoveOldToBackup, Ops, Windows, AddTo, Dirs
  <2>3. CASE /\ target[f] # Absent
             /\ op' = [op EXCEPT !.stage = "undo", !.todo = op.done]
             /\ UNCHANGED <<target, bakTmp>>
    BY <1>0, <1>1, <2>3 DEF MoveOldToBackup, Ops, Windows
  <2> QED
    BY <1>1, <2>1, <2>2, <2>3 DEF MoveOldToBackup
<1>2. CASE RenameIntoPlace(f)
  <2>0. op.cur = {f} /\ op.stage = "rename" /\ lock' = lock /\ bakTmp' = bakTmp
        /\ spoiled' = spoiled
    BY <1>2 DEF RenameIntoPlace
  <2>1. CASE /\ staged[f] # Absent
             /\ target' = [target EXCEPT ![f] = staged[f]]
             /\ op' = [op EXCEPT !.stage = IF op.todo = {f} THEN "meta"
                                           ELSE "replace",
                                 !.todo = @ \ {f}, !.cur = {},
                                 !.done = @ \cup {f}]
    <3>1. /\ op'.stage \in {"meta", "replace"} /\ op'.cur = {}
          /\ op'.done = op.done \cup {f} /\ op'.had = op.had
      BY <1>0, <2>1 DEF Ops
    <3>2. \A g \in Files : target'[g] = Absent => g # f /\ target[g] = Absent
      BY <1>0, <2>1
    <3>3. KnowsOld'
      BY <1>2, <2>0, <3>1 DEF RenameIntoPlace
    <3>4. BackedUp'
      BY <2>0, <3>1
    <3>5. MissingIsSaved' /\ NeverMissing'
      BY <2>0, <3>2
    <3> QED
      BY <3>3, <3>4, <3>5
  <2>2. CASE /\ op' = [op EXCEPT !.stage = "undo", !.cur = {},
                            !.todo = op.done \cup (op.cur \cap op.had)]
             /\ target' = target
    BY <1>0, <1>2, <2>0, <2>2 DEF RenameIntoPlace, Ops, Windows
  <2> QED
    BY <1>2, <2>1, <2>2 DEF RenameIntoPlace
<1>3. CASE RemoveNew(f)
  BY <1>0, <1>3 DEF RemoveNew, Ops, Windows
<1>4. CASE RestoreRemove(f)
  BY <1>0, <1>4 DEF RestoreRemove, Ops, Windows
<1>5. CASE RestoreFromBackup(f)
  <2>0. /\ op'.stage = "undo" /\ op'.cur = op.cur /\ op'.had = op.had
        /\ op'.done = op.done /\ op'.todo = op.todo \ {f}
        /\ op.stage = "undo" /\ lock' = lock /\ spoiled \subseteq spoiled'
        /\ f \in op.todo \cap op.had
    BY <1>0, <1>5 DEF RestoreFromBackup, Ops
  <2>1. KnowsOld'
    BY <2>0
  <2>2. CASE /\ target' = [target EXCEPT ![f] = bakTmp.files[f]]
             /\ bakTmp.files[f] # Absent
             /\ bakTmp' = IF Windows THEN AddTo(bakTmp, f, Absent) ELSE bakTmp
    <3>1. \A g \in Files : g # f => bakTmp'.files[g] = bakTmp.files[g]
      BY <1>0, <2>2 DEF AddTo, Dirs
    <3>2. \A g \in Files : target'[g] = Absent => g # f /\ target[g] = Absent
      BY <1>0, <2>2
    <3>3. \A g \in op.had : g \in Files
      BY <1>0 DEF Ops
    <3> QED
      BY <2>0, <2>1, <3>1, <3>2, <3>3
  <2>3. CASE /\ UNCHANGED <<target, bakTmp>>
             /\ spoiled' = IF bakTmp.files[f] # Absent
                           THEN spoiled \cup {"restore"} ELSE spoiled
    <3>1. CASE Intact'
      BY <2>0, <2>1, <2>3, <3>1
    <3>2. CASE ~Intact'
      BY <2>0, <2>1, <2>3, <3>2
    <3> QED
      BY <3>1, <3>2
  <2> QED
    BY <1>5, <2>2, <2>3 DEF RestoreFromBackup
<1> QED
  BY <1>1, <1>2, <1>3, <1>4, <1>5

LEMMA IInvStep == IInv /\ [Next]_vars => IInv'
<1> SUFFICES ASSUME IInv, [Next]_vars PROVE IInv'
  OBVIOUS
<1>1. TypeOK /\ TypeOK' /\ edition' = edition
  BY TypeStep, SameEdition DEF IInv
<1> USE <1>1
<1>2. op \in Ops /\ NoOp.cur = {} /\ NoOp.had = {} /\ NoOp.done = {}
      /\ NoOp.stage = "idle"
  BY DEF TypeOK, NoOp
<1>3. ASSUME NEW p \in Procs,
             Start(p) \/ Exit(p) \/ Clean(p)
      PROVE  IInv'
  <2>1. op' = op /\ lock' = lock /\ target' = target
        /\ spoiled \subseteq spoiled'
        /\ (bakTmp' = bakTmp \/ lock = Nobody \/ ~Intact')
    BY <1>3 DEF Start, Exit, Clean, CleanStaged, CleanBackupTmp, CleanDirDone,
                CleanCache, Interfere, Intact, disk
  <2>2. lock = Nobody => ~Replacing
    BY DEF IInv, KnowsOld, Replacing
  <2> QED
    BY <2>1, <2>2, AsideStep
<1>4. ASSUME NEW p \in Procs, Crash(p) PROVE IInv'
  <2>1. CASE Replacing
    <3>1. op' = NoOp /\ target' = target /\ ~Intact'
      BY <1>4, <2>1 DEF Crash, Abandon, Intact
    <3>2. ~Undisturbed' \/ ~Windows
      BY <3>1 DEF Undisturbed, Windows
    <3>3. KnowsOld' /\ BackedUp' /\ MissingIsSaved'
      BY <1>2, <3>1 DEF KnowsOld, BackedUp, MissingIsSaved
    <3>4. NeverMissing'
      BY <3>1 DEF IInv, NeverMissing, Windows
    <3> QED
      BY <3>3, <3>4 DEF IInv
  <2>2. CASE ~Replacing
    <3>1. op' = NoOp /\ target' = target /\ spoiled \subseteq spoiled'
          /\ ~Replacing'
      BY <1>4 DEF Crash, Abandon, Replacing, NoOp
    <3> QED
      BY <1>2, <2>2, <3>1, OutsideStep
  <2> QED
    BY <2>1, <2>2
<1>5. ASSUME NEW p \in Procs,
             BeginRollback(p) \/ \E v \in Versions : BeginUpdate(p, v)
      PROVE  IInv'
  <2>1. op'.cur = {} /\ op'.had = {} /\ op'.done = {}
        /\ op'.stage \in {"download", "copyback"} /\ lock' = p
        /\ target' = target /\ spoiled' = spoiled /\ lock = Nobody
    BY <1>5 DEF BeginRollback, BeginUpdate, NoOp, disk
  <2>2. ~Replacing /\ ~Replacing'
    BY <2>1 DEF IInv, KnowsOld, Replacing
  <2> QED
    BY <2>1, <2>2, OutsideStep
<1>6. CASE OpStep
  <2>1. CASE MakeBackupDir
    <3>1. /\ op.stage = "mkbak" /\ op'.stage \in {"replace", "discard"}
          /\ op'.had = op.had /\ op'.done = op.done /\ op'.cur = op.cur
          /\ lock' = lock /\ lock # Nobody /\ target' = target
          /\ spoiled \subseteq spoiled'
      BY <1>2, <2>1 DEF MakeBackupDir, Holding, Goto, GotoAll, Ops
    <3>2. op.had = {} /\ op.done = {} /\ op.cur = {}
      BY <3>1 DEF IInv, KnowsOld
    <3>3. KnowsOld' /\ BackedUp'
      BY <3>1, <3>2 DEF KnowsOld, BackedUp
    <3>4. MissingIsSaved' /\ NeverMissing'
      BY <3>1 DEF IInv, MissingIsSaved, NeverMissing, Replacing, Intact,
                  Windows
    <3> QED
      BY <3>3, <3>4 DEF IInv
  <2>2. CASE DiscardBackup
    <3>1. /\ op.stage = "undo" /\ op.todo = {} /\ op'.stage = "failed"
          /\ op'.had = op.had /\ op'.done = op.done /\ op'.cur = op.cur
          /\ lock' = lock /\ lock # Nobody /\ target' = target
          /\ spoiled' = spoiled
      BY <1>2, <2>2 DEF DiscardBackup, Holding, Goto, Ops
    <3>2. op.cur = {}
      BY <3>1 DEF IInv, KnowsOld
    <3>3. KnowsOld' /\ BackedUp'
      BY <3>1, <3>2 DEF IInv, KnowsOld, BackedUp, Replacing, Undisturbed,
                             Intact, Windows
    <3>4. MissingIsSaved' /\ NeverMissing'
      BY <3>1, <3>2 DEF IInv, MissingIsSaved, NeverMissing, Intact, Windows
    <3> QED
      BY <3>3, <3>4 DEF IInv
  <2>3. CASE Finish
    <3>1. op' = NoOp /\ target' = target /\ spoiled' = spoiled
          /\ ~Replacing /\ ~Replacing'
      BY <2>3 DEF Finish, Replacing, NoOp
    <3> QED
      BY <1>2, <3>1, OutsideStep
  <2> QED
    BY <1>6, <2>1, <2>2, <2>3, QuietOpStep, ReplaceStep DEF OpStep, FileStep
<1>7. CASE SetupRuns
  <2>1. op' = NoOp /\ \A f \in InitFiles : target'[f] # Absent
    BY <1>7 DEF SetupRuns, Abandon
  <2>2. KnowsOld' /\ BackedUp' /\ MissingIsSaved' /\ NeverMissing'
    BY <1>2, <2>1 DEF KnowsOld, BackedUp, MissingIsSaved, NeverMissing,
                      Replacing
  <2> QED
    BY <2>2 DEF IInv
<1>8. CASE UNCHANGED vars
  <2>1. op' = op /\ lock' = lock /\ target' = target /\ spoiled' = spoiled
        /\ bakTmp' = bakTmp
    BY <1>8 DEF vars
  <2> QED
    BY <2>1, AsideStep
<1> QED
  BY <1>3, <1>4, <1>5, <1>6, <1>7, <1>8 DEF Next

LEMMA Inductive == Spec => []IInv
BY IInvInit, IInvStep, PTL DEF Spec

(* No hard link to a program in place survives its replacement, so nothing *)
(* is truncated, unless the new backup directory kept one from before.     *)
Links ==
  "link" \notin spoiled =>
    /\ op.stage \in {"replace", "rename"} => linked \subseteq op.cur
    /\ \A f \in Files : Empty \notin {target[f], staged[f], bakTmp.files[f],
                                      bak.files[f], work[f]}

EInv == IInv /\ Links

LEMMA LinksInit == Init => Links
BY DEF Init, Links, NoOp, NoDir, NoFiles

(* A step that makes no link and changes files only to what is elsewhere.  *)
Contained(f) == Label \cup {target[f], staged[f], bakTmp.files[f],
                            bak.files[f], work[f]}
NothingNew == \A f \in Files :
  /\ target'[f] \in Contained(f) /\ staged'[f] \in Contained(f)
  /\ bakTmp'.files[f] \in Contained(f) /\ bak'.files[f] \in Contained(f)
  /\ work'[f] \in Contained(f)

LEMMA LinksKept ==
  ASSUME Links, spoiled \subseteq spoiled', NothingNew,
         \/ op'.stage \notin {"replace", "rename"}
         \/ op' = op /\ linked' \subseteq linked
         \/ linked' = {}
         \/ "link" \in spoiled'
  PROVE  Links'
<1>1. CASE "link" \in spoiled'
  BY <1>1 DEF Links
<1>2. CASE "link" \notin spoiled'
  <2>1. op'.stage \in {"replace", "rename"} => linked' \subseteq op'.cur
    BY <1>2 DEF Links
  <2>2. \A f \in Files : Empty \notin Contained(f)
    BY <1>2 DEF Links, Contained
  <2>3. \A f \in Files : Empty \notin {target'[f], staged'[f], bakTmp'.files[f],
                                      bak'.files[f], work'[f]}
    BY <2>2 DEF NothingNew
  <2> QED
    BY <2>1, <2>3 DEF Links
<1> QED
  BY <1>1, <1>2

(* The steps of an operation.                                              *)
LEMMA LinksOpStep ==
  ASSUME EInv, OpStep PROVE Links'
<1> USE DEF Holding, Goto, GotoAll, disk
<1>0. /\ op \in Ops /\ bakTmp \in Dirs /\ bak \in Dirs /\ work \in [Files -> Content]
      /\ target \in [Files -> Content] /\ staged \in [Files -> Content]
      /\ Links /\ KnowsOld
  BY DEF EInv, IInv, TypeOK
<1>a. /\ op.new \in Label /\ op.label \in Label /\ Absent \in Label
      /\ bakTmp.files \in [Files -> Content] /\ bak.files \in [Files -> Content]
  BY <1>0 DEF Ops, Dirs
<1>b. \A f \in Files : NoFiles[f] = Absent /\ NoDir.files[f] = Absent
  BY DEF NoFiles, NoDir
<1>1. CASE \/ DownloadAsset \/ CopyBack \/ SmokeTest \/ DiscardStaged
           \/ LaunchInstaller \/ Finish \/ Extract
  <2>1. NothingNew
    BY <1>0, <1>1, <1>a, <1>b
    DEF DownloadAsset, CopyBack, SmokeTest, DiscardStaged, LaunchInstaller,
        Finish, Extract, NothingNew, Contained
  <2>2. op'.stage \notin {"replace", "rename"} /\ spoiled' = spoiled
    <3>1. \A st \in Stages : [op EXCEPT !.stage = st].stage = st
      BY <1>0 DEF Ops
    <3>2. NoOp.stage = "idle"
      BY DEF NoOp
    <3>3. CASE Extract
      <4> DEFINE T == {f \in ProgramFiles[lock] : f = Exe[lock] \/ target[f] # Absent}
      <4>1. \/ op' = [op EXCEPT !.stage = "stage", !.items = T, !.todo = T]
            \/ op' = [op EXCEPT !.stage = "failed"]
        BY <3>3 DEF Extract
      <4> HIDE DEF T
      <4> QED
        BY <1>0, <3>3, <4>1 DEF Ops, Extract
    <3> QED
      BY <1>1, <3>1, <3>2, <3>3, StagesAre
      DEF DownloadAsset, CopyBack, SmokeTest, DiscardStaged,
          LaunchInstaller, Finish
  <2> QED
    BY <1>0, <2>1, <2>2, LinksKept
<1>r. \A r \in RemoveDirAll(bakTmp), f \in Files :
        r.files[f] \in {Absent, bakTmp.files[f]}
  BY <1>0, RemovedFiles
<1>2. CASE MakeBackupDir
  <2>1. PICK left \in RemoveDirAll(bakTmp) :
          \/ /\ bakTmp' = [left EXCEPT !.there = TRUE]
             /\ spoiled' = spoiled \cup Kept(left)
             /\ op' = [op EXCEPT !.stage = "replace", !.todo = op.items]
          \/ /\ bakTmp' = left
             /\ op' = [op EXCEPT !.stage = "discard"]
             /\ spoiled' = spoiled
    BY <1>2 DEF MakeBackupDir
  <2>2. left \in Dirs
    BY <1>0, RemovedIsDir
  <2>3. \A f \in Files : bakTmp'.files[f] \in {Absent, bakTmp.files[f]}
    BY <1>r, <2>1, <2>2 DEF Dirs
  <2>4. NothingNew
    BY <1>2, <1>a, <2>3 DEF MakeBackupDir, NothingNew, Contained
  <2>5. CASE op' = [op EXCEPT !.stage = "discard"] /\ spoiled' = spoiled
    <3>1. op'.stage = "discard"
      BY <1>0, <2>5 DEF Ops
    <3> QED
      BY <1>0, <2>4, <2>5, <3>1, LinksKept
  <2>6. CASE /\ bakTmp' = [left EXCEPT !.there = TRUE]
             /\ spoiled' = spoiled \cup Kept(left)
    <3>1. FilesIn(bakTmp') = FilesIn(left)
      BY <2>2, <2>6 DEF FilesIn, Dirs
    <3>2. linked' = linked \cap FilesIn(left)
      BY <1>2, <3>1 DEF MakeBackupDir, KeepLinks
    <3>3. linked' = {} \/ "link" \in spoiled'
      BY <2>6, <3>2 DEF Kept
    <3> QED
      BY <1>0, <2>4, <2>6, <3>3, LinksKept
  <2> QED
    BY <2>1, <2>5, <2>6
<1>3. CASE BackupBeforeInstaller
  <2>1. PICK left \in RemoveDirAll(bakTmp) :
          /\ bakTmp' = left \/ bakTmp' = [left EXCEPT !.there = TRUE]
          /\ spoiled \subseteq spoiled'
    BY <1>3, Zenon DEF BackupBeforeInstaller
  <2>2. left \in Dirs
    BY <1>0, RemovedIsDir
  <2>3. \A f \in Files : bakTmp'.files[f] \in {Absent, bakTmp.files[f]}
    BY <1>r, <2>1, <2>2 DEF Dirs
  <2>4. NothingNew
    BY <1>3, <1>a, <2>3 DEF BackupBeforeInstaller, NothingNew, Contained
  <2>5. op'.stage \in {"backupcopy", "launch"}
    <3> DEFINE T == {f \in ProgramFiles[lock] : target[f] # Absent}
    <3>1. \/ op' = [op EXCEPT !.stage = "backupcopy", !.todo = T]
          \/ op' = [op EXCEPT !.stage = "launch"]
      BY <1>3 DEF BackupBeforeInstaller
    <3> HIDE DEF T
    <3> QED
      BY <1>0, <3>1 DEF Ops
  <2> QED
    BY <1>0, <2>1, <2>4, <2>5, LinksKept
<1>4. CASE DiscardBackup
  <2>1. NothingNew
    BY <1>4, <1>0, <1>a, <1>r DEF DiscardBackup, NothingNew, Contained
  <2>2. op'.stage = "failed" /\ spoiled' = spoiled
    BY <1>4, <1>0 DEF DiscardBackup, Ops
  <2> QED
    BY <1>0, <2>1, <2>2, LinksKept
<1>5. CASE WriteMeta
  <2>1. bakTmp'.files = bakTmp.files
    BY <1>5, <1>0 DEF WriteMeta, Dirs
  <2>2. NothingNew
    BY <1>5, <1>a, <2>1 DEF WriteMeta, NothingNew, Contained
  <2>3. op'.stage = "drop" /\ spoiled' = spoiled
    BY <1>5, <1>0 DEF WriteMeta, Ops
  <2> QED
    BY <1>0, <2>2, <2>3, LinksKept
<1>6. CASE DropOldBackup
  <2>1. \A f \in Files : bak'.files[f] \in {Absent, bak.files[f]}
    BY <1>6, <1>0, <1>b, RemovedFiles DEF DropOldBackup
  <2>2. NothingNew
    BY <1>6, <1>a, <2>1 DEF DropOldBackup, NothingNew, Contained
  <2>3. op'.stage = "publish" /\ spoiled \subseteq spoiled'
    BY <1>6, <1>0 DEF DropOldBackup, Ops
  <2> QED
    BY <1>0, <2>2, <2>3, LinksKept
<1>7. CASE PublishBackup
  <2>1. NothingNew
    BY <1>7, <1>a, <1>b DEF PublishBackup, NothingNew, Contained
  <2>2. op'.stage \in {"launch", "done"} /\ spoiled' = spoiled
    BY <1>7, <1>0 DEF PublishBackup, AfterBackup, Ops
  <2> QED
    BY <1>0, <2>1, <2>2, LinksKept
<1>8. ASSUME NEW f \in Files, FileStep(f) PROVE Links'
  <2>1. CASE StageFile(f)
    <3>1. NothingNew
      BY <2>1, <1>0, <1>a DEF StageFile, NothingNew, Contained
    <3>2. op'.stage \in {"smoke", "stage", "discard"} /\ spoiled' = spoiled
      BY <2>1, <1>0, ZenonT(30) DEF StageFile, Ops
    <3> QED
      BY <1>0, <3>1, <3>2, LinksKept
  <2>2. CASE MoveOldToBackup(f)
    <3>0. op.stage = "replace" /\ spoiled' = spoiled
      BY <2>2 DEF MoveOldToBackup
    <3>1. "link" \notin spoiled => linked = {}
      BY <1>0, <3>0 DEF Links, KnowsOld
    <3>2. op'.stage = "undo" \/ (op'.stage = "rename" /\ op'.cur = {f})
      BY <2>2, <1>0 DEF MoveOldToBackup, Ops
    <3>3. CASE "link" \in spoiled
      BY <3>0, <3>3 DEF Links
    <3>4. CASE "link" \notin spoiled
      <4>1. NothingNew
        <5>1. /\ \A g \in Files : target'[g] \in {target[g], Absent}
              /\ \A g \in Files : bakTmp'.files[g] \in {target[g], bakTmp.files[g]}
          BY <2>2, <1>0, <3>1, <3>4 DEF MoveOldToBackup, AddTo, Dirs
        <5> QED
          BY <2>2, <1>a, <5>1 DEF MoveOldToBackup, NothingNew, Contained
      <4>2. linked' \subseteq {f}
        BY <2>2, <3>1, <3>4 DEF MoveOldToBackup
      <4>3. \A g \in Files : Empty \notin Contained(g)
        BY <1>0, <3>4 DEF Links, Contained
      <4> QED
        BY <3>2, <4>1, <4>2, <4>3 DEF Links, NothingNew
    <3> QED
      BY <3>3, <3>4
  <2>3. CASE RenameIntoPlace(f)
    <3>0. /\ op.stage = "rename" /\ f \in op.cur /\ op.cur \subseteq {f}
          /\ spoiled' = spoiled
      BY <2>3, <1>0 DEF RenameIntoPlace, KnowsOld
    <3>1. NothingNew
      BY <2>3, <1>0, <1>a DEF RenameIntoPlace, NothingNew, Contained
    <3>2. op'.stage = "undo" \/ linked' = linked \ {f}
      BY <2>3, <1>0 DEF RenameIntoPlace, Ops
    <3>3. "link" \in spoiled \/ linked \subseteq {f}
      BY <1>0, <3>0 DEF Links
    <3> QED
      BY <1>0, <3>0, <3>1, <3>2, <3>3, LinksKept
  <2>4. CASE RemoveNew(f) \/ RestoreRemove(f)
    <3>1. NothingNew
      BY <2>4, <1>0, <1>a DEF RemoveNew, RestoreRemove, NothingNew, Contained
    <3>2. op'.stage = "undo" /\ spoiled \subseteq spoiled'
      BY <2>4, <1>0 DEF RemoveNew, RestoreRemove, Ops
    <3> QED
      BY <1>0, <3>1, <3>2, LinksKept
  <2>5. CASE RestoreFromBackup(f)
    <3>1. /\ \A g \in Files : target'[g] \in {target[g], bakTmp.files[g]}
          /\ \A g \in Files : bakTmp'.files[g] \in {Absent, bakTmp.files[g]}
      BY <2>5, <1>0 DEF RestoreFromBackup, AddTo, Dirs
    <3>2. NothingNew
      BY <2>5, <1>a, <3>1 DEF RestoreFromBackup, NothingNew, Contained
    <3>3. op'.stage = "undo" /\ spoiled \subseteq spoiled'
      BY <2>5, <1>0 DEF RestoreFromBackup, Ops
    <3> QED
      BY <1>0, <3>2, <3>3, LinksKept
  <2>6. CASE CopyToBackup(f)
    <3>1. \A g \in Files : bakTmp'.files[g] \in {Absent, target[g], bakTmp.files[g]}
      BY <2>6, <1>0, <1>r DEF CopyToBackup, AddTo, Dirs
    <3>2. NothingNew
      BY <2>6, <1>a, <3>1 DEF CopyToBackup, NothingNew, Contained
    <3>3. op'.stage \in {"meta", "backupcopy", "launch"} /\ spoiled' = spoiled
      BY <2>6, <1>0, ZenonT(30) DEF CopyToBackup, Ops
    <3> QED
      BY <1>0, <3>2, <3>3, LinksKept
  <2> QED
    BY <1>8, <2>1, <2>2, <2>3, <2>4, <2>5, <2>6 DEF FileStep
<1> QED
  BY <1>1, <1>2, <1>3, <1>4, <1>5, <1>6, <1>7, <1>8 DEF OpStep

LEMMA LinksStep == EInv /\ [Next]_vars => Links'
<1> SUFFICES ASSUME EInv, [Next]_vars PROVE Links'
  OBVIOUS
<1> USE DEF disk
<1>0. /\ op \in Ops /\ bakTmp \in Dirs /\ bak \in Dirs /\ work \in [Files -> Content]
      /\ target \in [Files -> Content] /\ staged \in [Files -> Content]
      /\ setup \in Label /\ Links
  BY DEF EInv, IInv, TypeOK
<1>a. /\ bakTmp.files \in [Files -> Content] /\ bak.files \in [Files -> Content]
      /\ NoOp.stage = "idle" /\ Absent \in Label
      /\ \A f \in Files : NoFiles[f] = Absent
  BY <1>0 DEF Dirs, NoOp, NoFiles
<1>b. ASSUME bak' \in {bak} \cup Remains(bak)
      PROVE  \A f \in Files : bak'.files[f] \in {Absent, bak.files[f]}
  BY <1>0, <1>b, RemovedFiles
<1>1. CASE OpStep
  BY <1>1, LinksOpStep
<1>2. ASSUME NEW p \in Procs, Start(p) \/ Exit(p) PROVE Links'
  BY <1>0, <1>2 DEF Start, Exit, Links
<1>3. ASSUME NEW p \in Procs, Crash(p) PROVE Links'
  <2>1. NothingNew
    BY <1>3, <1>a, <1>b DEF Crash, Abandon, NothingNew, Contained
  <2>2. op'.stage = "idle" /\ spoiled \subseteq spoiled'
    BY <1>3, <1>a DEF Crash, Abandon
  <2> QED
    BY <1>0, <2>1, <2>2, LinksKept
<1>4. CASE SetupRuns
  <2>1. NothingNew
    BY <1>4, <1>0, <1>a, <1>b DEF SetupRuns, Abandon, NothingNew, Contained
  <2>2. op'.stage = "idle" /\ spoiled \subseteq spoiled'
    BY <1>4, <1>a DEF SetupRuns, Abandon
  <2> QED
    BY <1>0, <2>1, <2>2, LinksKept
<1>5. ASSUME NEW p \in Procs,
             BeginRollback(p) \/ \E v \in Versions : BeginUpdate(p, v)
      PROVE  Links'
  <2>1. op'.stage \in {"download", "copyback"} /\ UNCHANGED <<disk, spoiled>>
    BY <1>5 DEF BeginRollback, BeginUpdate, NoOp
  <2> QED
    BY <1>0, <2>1 DEF Links
<1>6. ASSUME NEW p \in Procs, Clean(p) PROVE Links'
  <2>1. op' = op /\ linked' \subseteq linked /\ spoiled \subseteq spoiled'
    BY <1>6 DEF Clean, CleanStaged, CleanBackupTmp, CleanDirDone, CleanCache,
                Interfere, KeepLinks
  <2>2. \A f \in Files : bakTmp'.files[f] \in {Absent, bakTmp.files[f]}
    BY <1>0, <1>6, RemovedFiles
    DEF Clean, CleanStaged, CleanBackupTmp, CleanDirDone, CleanCache
  <2>3. \A f \in Files : staged'[f] \in {Absent, staged[f]} /\ work'[f] \in {Absent, work[f]}
    BY <1>0, <1>a, <1>6
    DEF Clean, CleanStaged, CleanBackupTmp, CleanDirDone, CleanCache
  <2>4. UNCHANGED <<target, bak>>
    BY <1>6 DEF Clean, CleanStaged, CleanBackupTmp, CleanDirDone, CleanCache
  <2>5. NothingNew
    BY <1>a, <2>2, <2>3, <2>4 DEF NothingNew, Contained
  <2> QED
    BY <1>0, <2>1, <2>5, LinksKept
<1>7. CASE UNCHANGED vars
  BY <1>0, <1>7 DEF vars, Links
<1> QED
  BY <1>1, <1>2, <1>3, <1>4, <1>5, <1>6, <1>7 DEF Next

LEMMA EInductive == Spec => []EInv
<1>1. Init => EInv
  BY IInvInit, LinksInit DEF EInv
<1>2. EInv /\ [Next]_vars => EInv'
  BY IInvStep, LinksStep DEF EInv
<1> QED
  BY <1>1, <1>2, PTL DEF Spec

(* On Unix a program of the directory is never missing and never empty,    *)
(* as long as no new backup directory kept a hard link to one.             *)
THEOREM ProgramsStay == Spec => []NoProgramLost
<1>1. EInv => NoProgramLost
  BY DEF EInv, IInv, TypeOK, NeverMissing, Links, NoProgramLost, Windows
<1> QED
  BY EInductive, <1>1, PTL

(* On Windows only an accident makes a program disappear; until then it is *)
(* in its place or in the new backup directory.                            *)
THEOREM ProgramsSaved == Spec => []LostOnlyBySpoiling
<1>1. IInv => LostOnlyBySpoiling
  BY DEF IInv, MissingIsSaved, BackedUp, LostOnlyBySpoiling, KnowsOld,
         Replacing, Intact
<1> QED
  BY Inductive, <1>1, PTL

-----------------------------------------------------------------------------
(* An operation that fails restores what it found, and an update that      *)
(* succeeds has installed the new version.  The invariant says of every    *)
(* file whether it is as it was, saved, or new.                            *)

BySetup == op.kind = "update" /\ edition = "installer"
Committed == {"meta", "drop", "publish", "done"}
Before == {"download", "extract", "copyback", "stage", "smoke", "discard",
           "mkbak", "backup", "backupcopy", "launch"}
Finalizing == {"meta", "drop", "publish"}

(* The files an operation goes over, and those it has gone over.           *)
Locals ==
  /\ op.stage \in {"replace", "rename"} =>
       /\ op.items = op.done \cup op.todo /\ op.done \cap op.todo = {}
       /\ op.cur \subseteq op.todo /\ op.had \subseteq op.done \cup op.cur
  /\ op.stage \in Committed => op.done = {} \/ op.done = op.items
  /\ op.stage \in {"backup", "backupcopy", "launch"} =>
       op.done = {} /\ op.had = {}
  /\ op.stage = "stage" => op.todo \subseteq op.items
  /\ op.stage = "copyback" => op.kind = "rollback" /\ op.todo = op.items
  /\ op.stage \in {"download", "extract"} => op.kind = "update"
  /\ BySetup => /\ op.done = {} /\ op.had = {}
                /\ op.stage \notin {"smoke", "mkbak", "replace", "rename",
                                   "undo", "extract", "stage"}

(* Calm == nobody has disturbed the new backup so far.                     *)
(* Undone == and no undo has failed.                                       *)
Calm == lock # Nobody /\ spoiled \cap {"cleaner", "link"} = {}
Undone == Calm /\ "restore" \notin spoiled

AsItWas ==
  /\ Calm =>
       /\ op.stage \in Before \/ (op.stage \in Committed /\ op.done = {}) =>
            target = base
       /\ op.stage \in {"replace", "rename"} =>
            \A f \in Files \ (op.done \cup op.cur) : target[f] = base[f]
       /\ op.stage = "rename" =>
            \A f \in op.cur \ op.had : target[f] = base[f] /\ base[f] = Absent
  /\ Undone =>
       /\ op.stage = "undo" => \A f \in Files \ op.todo : target[f] = base[f]
       /\ op.stage = "failed" => target = base

(* What was replaced is saved, until it is put back.                       *)
SavedOrNew ==
  Calm /\ (Replacing \/ op.stage \in Finalizing) =>
    /\ \A f \in op.had :
         /\ base[f] # Absent
         /\ \/ op.stage = "undo" /\ f \notin op.todo
            \/ bakTmp.files[f] = base[f]
    /\ \A f \in (IF op.stage = "undo" THEN op.todo ELSE op.done) \ op.had :
         base[f] = Absent

(* What a setup program will replace is saved or is about to be.           *)
SavedBySetup ==
  Calm /\ BySetup =>
    \A f \in ProgramFiles[lock] : base[f] # Absent =>
      /\ op.stage = "backupcopy" => f \in op.todo \/ bakTmp.files[f] = base[f]
      /\ op.stage \in Finalizing => bakTmp.files[f] = base[f]

JInv == EInv /\ Locals /\ AsItWas /\ SavedOrNew /\ SavedBySetup

LEMMA JInvInit == Init => JInv
<1> SUFFICES ASSUME Init PROVE JInv
  OBVIOUS
<1>1. EInv
  BY IInvInit, LinksInit DEF EInv
<1>2. /\ lock = Nobody /\ op.stage = "idle" /\ op.kind = "none"
  BY DEF Init, NoOp
<1> QED
  BY <1>1, <1>2
  DEF JInv, Locals, AsItWas, Undone, SavedOrNew, SavedBySetup, Calm, BySetup,
      Committed

(* The end of an operation, whatever the directory looks like.             *)
LEMMA IdleJ ==
  ASSUME EInv', op' = NoOp, lock' = Nobody
  PROVE  JInv'
<1>1. op'.stage = "idle" /\ op'.kind = "none"
  BY DEF NoOp
<1> QED
  BY <1>1
  DEF JInv, Locals, AsItWas, Undone, SavedOrNew, SavedBySetup, Calm, BySetup,
      Committed

(* A step beside the operation.  The cleanup may empty the cached copy.    *)
LEMMA AsideJ ==
  ASSUME JInv, EInv', edition' = edition, op' = op, lock' = lock,
         target' = target, base' = base, spoiled \subseteq spoiled',
         work' \in {work, NoFiles},
         Calm' => bakTmp' = bakTmp /\ staged' = staged
  PROVE  JInv'
<1>1. Calm' => Calm
  BY DEF Calm
<1>2. Locals'
  BY DEF JInv, Locals, BySetup, Committed
<1>3. AsItWas' /\ SavedOrNew' /\ SavedBySetup'
  BY <1>1 DEF JInv, AsItWas, Undone, SavedOrNew, SavedBySetup, Replacing,
              Finalizing, BySetup, ProgramFiles
<1> QED
  BY <1>2, <1>3 DEF JInv

(* The steps that only lead from one stage before the replacement to       *)
(* another, or to a failure.                                               *)
LEMMA EarlyJ ==
  ASSUME JInv, EInv', TypeOK, edition' = edition,
         \/ DownloadAsset \/ Extract \/ CopyBack \/ SmokeTest \/ DiscardStaged
  PROVE  JInv'
<1> USE DEF Holding, Goto, disk
<1>0. op \in Ops
  BY DEF TypeOK
<1>1. CASE DownloadAsset
  <2>1. /\ op.stage = "download" /\ op'.stage \in {"backup", "extract", "failed"}
        /\ op'.done = op.done /\ op'.had = op.had
        /\ op'.kind = op.kind
        /\ op'.stage = "extract" => edition # "installer"
        /\ UNCHANGED <<lock, target, base, spoiled>>
    BY <1>0, <1>1 DEF DownloadAsset, Ops
  <2>2. op.done = {} /\ op.had = {}
    BY <2>1 DEF JInv, EInv, IInv, KnowsOld
  <2>3. Locals' /\ AsItWas'
    BY <2>1, <2>2 DEF JInv, Locals, AsItWas, Undone, Calm, BySetup, Committed, Before
  <2>4. SavedOrNew' /\ SavedBySetup'
    BY <2>1 DEF SavedOrNew, SavedBySetup, Replacing, Finalizing, Committed
  <2> QED
    BY <2>3, <2>4 DEF JInv
<1>2. CASE Extract
  <2>1. /\ op.stage = "extract" /\ op'.stage \in {"stage", "failed"}
        /\ op'.done = op.done /\ op'.had = op.had
        /\ op'.kind = op.kind /\ op'.new = op.new
        /\ op'.stage = "stage" =>
             /\ op'.todo = op'.items
             /\ \A f \in Files : work'[f] \in {op.new, Absent}
        /\ UNCHANGED <<lock, target, base, spoiled>>
    <3> DEFINE T == {f \in ProgramFiles[lock] : f = Exe[lock] \/ target[f] # Absent}
    <3>1. /\ op.stage = "extract"
          /\ UNCHANGED <<lock, target, base, spoiled>>
          /\ \/ /\ work' = [f \in Files |-> IF f \in T THEN op.new ELSE Absent]
                /\ op' = [op EXCEPT !.stage = "stage", !.items = T, !.todo = T]
             \/ op' = [op EXCEPT !.stage = "failed"]
      BY <1>2 DEF Extract
    <3> HIDE DEF T
    <3>2. CASE op' = [op EXCEPT !.stage = "failed"]
      BY <1>0, <3>1, <3>2 DEF Ops
    <3>3. CASE /\ work' = [f \in Files |-> IF f \in T THEN op.new ELSE Absent]
               /\ op' = [op EXCEPT !.stage = "stage", !.items = T, !.todo = T]
      <4>1. \A f \in Files : work'[f] \in {op.new, Absent}
        BY <3>3
      <4>2. /\ op'.stage = "stage" /\ op'.done = op.done /\ op'.had = op.had
        /\ op'.kind = op.kind
            /\ op'.new = op.new /\ op'.todo = op'.items
        BY <1>0, <3>3 DEF Ops
      <4> QED
        BY <3>1, <4>1, <4>2
    <3> QED
      BY <3>1, <3>2, <3>3
  <2>2. op.done = {} /\ op.had = {}
    BY <2>1 DEF JInv, EInv, IInv, KnowsOld
  <2>3. Locals' /\ AsItWas'
    BY <2>1, <2>2 DEF JInv, Locals, AsItWas, Undone, Calm, BySetup, Committed, Before
  <2>4. SavedOrNew' /\ SavedBySetup'
    BY <2>1 DEF SavedOrNew, SavedBySetup, Replacing, Finalizing, Committed
  <2> QED
    BY <2>3, <2>4 DEF JInv
<1>3. CASE CopyBack
  <2>1. /\ op.stage = "copyback" /\ op'.stage \in {"stage", "failed"}
        /\ op'.done = op.done /\ op'.had = op.had
        /\ op'.kind = op.kind
        /\ op'.todo = op.todo /\ op'.items = op.items
        /\ UNCHANGED <<lock, target, base, spoiled>>
    BY <1>0, <1>3 DEF CopyBack, Ops
  <2>2. op.done = {} /\ op.had = {}
    BY <2>1 DEF JInv, EInv, IInv, KnowsOld
  <2>3. op.kind = "rollback" /\ op.todo \subseteq op.items
    BY <2>1 DEF JInv, Locals
  <2>4. Locals' /\ AsItWas'
    BY <2>1, <2>2, <2>3 DEF JInv, Locals, AsItWas, Undone, Calm, BySetup, Committed, Before
  <2>5. SavedOrNew' /\ SavedBySetup'
    BY <2>1, <2>3 DEF SavedOrNew, SavedBySetup, Replacing, Finalizing, Committed
  <2> QED
    BY <2>4, <2>5 DEF JInv
<1>4. CASE SmokeTest
  <2>1. /\ op.stage = "smoke" /\ op'.stage \in {"mkbak", "discard"}
        /\ op'.done = op.done /\ op'.had = op.had
        /\ op'.kind = op.kind /\ op'.new = op.new
        /\ op'.items = op.items
        /\ UNCHANGED <<lock, target, base, spoiled, staged>>
    BY <1>0, <1>4 DEF SmokeTest, Ops
  <2>2. Locals' /\ AsItWas'
    BY <2>1 DEF JInv, Locals, AsItWas, Undone, Calm, BySetup, Committed, Before
  <2>3. SavedOrNew' /\ SavedBySetup'
    BY <2>1 DEF SavedOrNew, SavedBySetup, Replacing, Finalizing
  <2> QED
    BY <2>2, <2>3 DEF JInv
<1>5. CASE DiscardStaged
  <2>1. /\ op.stage = "discard" /\ op'.stage = "failed"
        /\ op'.done = op.done /\ op'.had = op.had
        /\ op'.kind = op.kind
        /\ UNCHANGED <<lock, target, base, spoiled>>
    BY <1>0, <1>5 DEF DiscardStaged, Ops
  <2>2. Locals' /\ AsItWas' /\ SavedOrNew' /\ SavedBySetup'
    BY <2>1 DEF JInv, Locals, AsItWas, Undone, Calm, BySetup, Committed, Before,
                SavedOrNew, SavedBySetup, Replacing, Finalizing
  <2> QED
    BY <2>2 DEF JInv
<1> QED
  BY <1>1, <1>2, <1>3, <1>4, <1>5

LEMMA StageJ ==
  ASSUME JInv, EInv', TypeOK, edition' = edition, NEW f \in Files, StageFile(f)
  PROVE  JInv'
<1>1. /\ op \in Ops /\ staged \in [Files -> Content]
      /\ op.stage = "stage" /\ f \in op.todo
      /\ UNCHANGED <<lock, target, base, spoiled, work>>
  BY DEF TypeOK, StageFile, Holding
<1>2. /\ op'.done = op.done /\ op'.had = op.had
        /\ op'.kind = op.kind /\ op'.new = op.new
      /\ op'.items = op.items /\ op'.todo = op.todo \ {f}
      /\ op'.stage \in {"stage", "smoke", "discard"}
      /\ op'.stage = "smoke" => op.todo = {f}
      /\ op'.stage \in {"stage", "smoke"} =>
           work[f] # Absent /\ staged' = [staged EXCEPT ![f] = work[f]]
  BY <1>1 DEF StageFile, Ops
<1>3. ~BySetup /\ ~BySetup'
  BY <1>1, <1>2 DEF JInv, Locals, BySetup
<1>4. Locals'
  BY <1>1, <1>2, <1>3 DEF JInv, Locals, Committed
<1>5. AsItWas' /\ SavedOrNew' /\ SavedBySetup'
  BY <1>1, <1>2
  DEF JInv, AsItWas, Undone, SavedOrNew, SavedBySetup, Calm, Before, Committed,
      Replacing, Finalizing
<1> QED
  BY <1>4, <1>5 DEF JInv

LEMMA MakeBackupJ ==
  ASSUME JInv, EInv', TypeOK, edition' = edition, MakeBackupDir
  PROVE  JInv'
<1>1. /\ op \in Ops /\ op.stage = "mkbak"
      /\ UNCHANGED <<lock, target, base, staged>> /\ spoiled \subseteq spoiled'
      /\ op'.done = op.done /\ op'.kind = op.kind /\ op'.new = op.new
      /\ op'.items = op.items /\ op'.had = op.had /\ op'.cur = op.cur
      /\ op'.stage \in {"replace", "discard"}
      /\ op'.stage = "replace" => op'.todo = op.items
  BY DEF TypeOK, MakeBackupDir, Holding, Goto, GotoAll, Ops
<1>2. op.done = {} /\ op.had = {} /\ op.cur = {} /\ ~BySetup /\ ~BySetup'
  BY <1>1 DEF JInv, EInv, IInv, KnowsOld, Locals, BySetup
<1>3. Locals'
  BY <1>1, <1>2 DEF Locals, Committed
<1>4. Calm' => Calm
  BY <1>1 DEF Calm
<1>5. AsItWas' /\ SavedOrNew'
  BY <1>1, <1>2, <1>4
  DEF JInv, AsItWas, Undone, SavedOrNew, Before, Committed, Replacing, Finalizing
<1>6. SavedBySetup'
  BY <1>2 DEF SavedBySetup
<1> QED
  BY <1>3, <1>5, <1>6 DEF JInv

LEMMA MoveJ ==
  ASSUME JInv, EInv', TypeOK, edition' = edition, NEW f \in Files,
         MoveOldToBackup(f)
  PROVE  JInv'
<1>1. /\ op \in Ops /\ target \in [Files -> Content] /\ bakTmp \in Dirs
      /\ op.stage = "replace" /\ f \in op.todo /\ op.cur = {}
      /\ UNCHANGED <<lock, base, spoiled, staged>>
  BY DEF TypeOK, MoveOldToBackup, Holding, JInv, EInv, IInv, KnowsOld
<1>2. /\ op.items = op.done \cup op.todo /\ f \notin op.done
      /\ op.done \cap op.todo = {} /\ op.had \subseteq op.done /\ ~BySetup
  BY <1>1 DEF JInv, Locals
<1>3. op.had \subseteq Files /\ op.done \subseteq Files /\ op.items \subseteq Files
  BY <1>1 DEF Ops
<1>4. Calm => target[f] = base[f]
  BY <1>1, <1>2 DEF JInv, AsItWas
<1>s. op'.kind = op.kind => SavedBySetup'
  BY <1>2 DEF SavedBySetup, BySetup
<1>5. CASE /\ target[f] = Absent
           /\ op' = [op EXCEPT !.stage = "rename", !.cur = {f}]
           /\ UNCHANGED <<target, bakTmp>>
  <2>1. /\ op'.stage = "rename" /\ op'.cur = {f} /\ op'.done = op.done
        /\ op'.had = op.had /\ op'.todo = op.todo /\ op'.items = op.items
        /\ op'.kind = op.kind /\ op'.new = op.new
    BY <1>1, <1>5 DEF Ops
  <2>2. Locals'
    BY <1>1, <1>2, <2>1 DEF Locals, BySetup, Committed
  <2>3. AsItWas' /\ SavedOrNew'
    BY <1>1, <1>2, <1>4, <1>5, <2>1
       DEF JInv, AsItWas, Undone, SavedOrNew, Finalizing, Calm, Before, Committed, Replacing
  <2> QED
    BY <1>s, <2>1, <2>2, <2>3 DEF JInv
<1>6. CASE /\ target[f] # Absent
           /\ bakTmp' = AddTo(bakTmp, f, target[f])
           /\ target' = IF Windows THEN [target EXCEPT ![f] = Absent] ELSE target
           /\ op' = [op EXCEPT !.stage = "rename", !.cur = {f}, !.had = @ \cup {f}]
  <2>1. /\ op'.stage = "rename" /\ op'.cur = {f} /\ op'.done = op.done
        /\ op'.had = op.had \cup {f} /\ op'.todo = op.todo /\ op'.items = op.items
        /\ op'.kind = op.kind /\ op'.new = op.new
    BY <1>1, <1>6 DEF Ops
  <2>2. /\ bakTmp'.files[f] = target[f]
        /\ \A g \in Files \ {f} :
             bakTmp'.files[g] = bakTmp.files[g] /\ target'[g] = target[g]
    BY <1>1, <1>6 DEF AddTo, Dirs
  <2>3. Locals'
    BY <1>1, <1>2, <2>1 DEF Locals, BySetup, Committed
  <2>4. AsItWas'
    BY <1>1, <1>2, <1>3, <2>1, <2>2 DEF JInv, AsItWas, Undone, Calm, Before, Committed
  <2>5. SavedOrNew'
    BY <1>1, <1>2, <1>3, <1>4, <1>6, <2>1, <2>2
       DEF JInv, SavedOrNew, Finalizing, Calm, Replacing
  <2> QED
    BY <1>s, <2>1, <2>3, <2>4, <2>5 DEF JInv
<1>l. CASE /\ f \in linked
           /\ op' = [op EXCEPT !.stage = "rename", !.cur = {f}, !.had = @ \cup {f}]
  <2>1. /\ op'.stage = "rename" /\ op'.cur = {f} /\ op'.done = op.done
        /\ op'.had = op.had \cup {f} /\ op'.todo = op.todo /\ op'.items = op.items
        /\ op'.kind = op.kind /\ op'.new = op.new
    BY <1>1, <1>l DEF Ops
  <2>2. Locals'
    BY <1>1, <1>2, <2>1 DEF Locals, BySetup, Committed
  <2>3. "link" \in spoiled
    BY <1>1, <1>l DEF JInv, EInv, Links
  <2>4. ~Calm'
    BY <1>1, <2>3 DEF Calm
  <2> QED
    BY <1>s, <2>1, <2>2, <2>4 DEF JInv, AsItWas, Undone, SavedOrNew
<1>7. CASE /\ op' = [op EXCEPT !.stage = "undo", !.todo = op.done]
           /\ UNCHANGED <<target, bakTmp>>
  <2>1. /\ op'.stage = "undo" /\ op'.cur = {} /\ op'.done = op.done
        /\ op'.had = op.had /\ op'.todo = op.done /\ op'.kind = op.kind
    BY <1>1, <1>7 DEF Ops
  <2>2. Locals'
    BY <1>1, <1>2, <2>1 DEF Locals, BySetup, Committed
  <2>3. AsItWas' /\ SavedOrNew'
    BY <1>1, <1>2, <1>7, <2>1
       DEF JInv, AsItWas, Undone, SavedOrNew, Finalizing, Calm, Before, Committed, Replacing
  <2> QED
    BY <1>s, <2>1, <2>2, <2>3 DEF JInv
<1> QED
  BY <1>5, <1>6, <1>7, <1>l DEF MoveOldToBackup

LEMMA RenameJ ==
  ASSUME JInv, EInv', TypeOK, edition' = edition, NEW f \in Files,
         RenameIntoPlace(f)
  PROVE  JInv'
<1>1. /\ op \in Ops /\ target \in [Files -> Content] /\ staged \in [Files -> Content]
      /\ op.stage = "rename" /\ op.cur = {f}
      /\ UNCHANGED <<lock, base, spoiled, bakTmp>>
  BY DEF TypeOK, RenameIntoPlace, Holding, JInv, EInv, IInv, KnowsOld
<1>2. /\ op.items = op.done \cup op.todo /\ f \notin op.done /\ f \in op.todo
      /\ op.done \cap op.todo = {} /\ op.had \subseteq op.done \cup {f} /\ ~BySetup
  BY <1>1 DEF JInv, Locals
<1>3. /\ op.had \subseteq Files /\ op.done \subseteq Files /\ op.items \subseteq Files
      /\ op.todo \subseteq Files
  BY <1>1 DEF Ops
<1>4. Calm => /\ \A g \in Files \ (op.done \cup {f}) : target[g] = base[g]
              /\ f \notin op.had => target[f] = base[f]
              /\ \A g \in op.had : base[g] # Absent /\ bakTmp.files[g] = base[g]
              /\ \A g \in op.done \ op.had : base[g] = Absent
  BY <1>1, <1>2 DEF JInv, AsItWas, Undone, SavedOrNew, Finalizing, Replacing
<1>s. op'.kind = op.kind => SavedBySetup'
  BY <1>2 DEF SavedBySetup, BySetup
<1>5. CASE /\ staged[f] # Absent
           /\ target' = [target EXCEPT ![f] = staged[f]]
           /\ staged' = [staged EXCEPT ![f] = Absent]
           /\ op' = [op EXCEPT !.stage = IF op.todo = {f} THEN "meta" ELSE "replace",
                               !.todo = @ \ {f}, !.cur = {}, !.done = @ \cup {f}]
  <2>1. /\ op'.stage = IF op.todo = {f} THEN "meta" ELSE "replace"
        /\ op'.cur = {} /\ op'.done = op.done \cup {f}
        /\ op'.had = op.had /\ op'.todo = op.todo \ {f} /\ op'.items = op.items
        /\ op'.kind = op.kind /\ op'.new = op.new
    BY <1>1, <1>5 DEF Ops
  <2>2. /\ target'[f] = staged[f]
        /\ \A g \in Files \ {f} : target'[g] = target[g] /\ staged'[g] = staged[g]
    BY <1>1, <1>5
  <2>3. Locals'
    BY <1>1, <1>2, <2>1 DEF Locals, BySetup, Committed
  <2>4. AsItWas'
    BY <1>1, <1>2, <1>3, <1>4, <2>1, <2>2 DEF AsItWas, Undone, Calm, Before, Committed
  <2>5. SavedOrNew'
    <3>1. CASE f \in op.had
      BY <1>1, <1>2, <1>4, <2>1, <3>1 DEF SavedOrNew, Finalizing, Calm, Replacing
    <3>2. CASE f \notin op.had
      <4>1. Calm => base[f] = Absent
        BY <1>1, <3>2 DEF JInv, AsItWas
      <4> QED
        BY <1>1, <1>2, <1>4, <2>1, <3>2, <4>1 DEF SavedOrNew, Finalizing, Calm, Replacing
    <3> QED
      BY <3>1, <3>2
  <2> QED
    BY <1>s, <2>1, <2>3, <2>4, <2>5 DEF JInv
<1>6. CASE /\ op' = [op EXCEPT !.stage = "undo", !.cur = {},
                               !.todo = op.done \cup (op.cur \cap op.had)]
           /\ target' = target
  <2>1. /\ op'.stage = "undo" /\ op'.cur = {} /\ op'.done = op.done
        /\ op'.had = op.had /\ op'.todo = op.done \cup ({f} \cap op.had)
        /\ op'.kind = op.kind
    BY <1>1, <1>6 DEF Ops
  <2>2. Locals'
    BY <1>1, <1>2, <2>1 DEF Locals, BySetup, Committed
  <2>3. AsItWas' /\ SavedOrNew'
    BY <1>1, <1>2, <1>4, <1>6, <2>1
       DEF AsItWas, Undone, SavedOrNew, Finalizing, Calm, Before, Committed, Replacing
  <2> QED
    BY <1>s, <2>1, <2>2, <2>3 DEF JInv
<1> QED
  BY <1>5, <1>6 DEF RenameIntoPlace

LEMMA UndoJ ==
  ASSUME JInv, EInv', TypeOK, edition' = edition, NEW f \in Files,
         RemoveNew(f) \/ RestoreRemove(f) \/ RestoreFromBackup(f)
  PROVE  JInv'
<1>1. /\ op \in Ops /\ target \in [Files -> Content] /\ bakTmp \in Dirs
      /\ op.stage = "undo" /\ f \in op.todo /\ lock # Nobody
      /\ UNCHANGED <<lock, base>> /\ spoiled \subseteq spoiled'
  BY DEF TypeOK, RemoveNew, RestoreRemove, RestoreFromBackup, Holding
<1>2. /\ op'.stage = "undo" /\ op'.done = op.done /\ op'.had = op.had
      /\ op'.kind = op.kind /\ op'.todo \in {op.todo, op.todo \ {f}}
  BY <1>1 DEF RemoveNew, RestoreRemove, RestoreFromBackup, Ops
<1>3. (Calm' => Calm) /\ (Undone' => Undone /\ Calm' /\ Calm)
  BY <1>1 DEF Calm, Undone
<1>4. /\ Undone => \A g \in Files \ op.todo : target[g] = base[g]
      /\ Calm => /\ \A g \in op.had :
                     base[g] # Absent
                     /\ (g \in op.todo => bakTmp.files[g] = base[g])
                 /\ \A g \in op.todo \ op.had : base[g] = Absent
  BY <1>1 DEF JInv, AsItWas, SavedOrNew, Replacing
<1>5. Locals'
  BY <1>1, <1>2 DEF JInv, Locals, BySetup, Committed
<1>6. op.had \subseteq Files /\ op.todo \subseteq Files
  BY <1>1 DEF Ops
<1>7. \A g \in op.had \cap op'.todo : bakTmp'.files[g] = bakTmp.files[g]
  <2>1. CASE RemoveNew(f) \/ RestoreRemove(f)
    BY <2>1 DEF RemoveNew, RestoreRemove
  <2>2. CASE RestoreFromBackup(f)
    <3>1. f \in op.todo \cap op.had /\ op'.todo = op.todo \ {f}
      BY <1>1, <2>2 DEF RestoreFromBackup, Ops
    <3>2. \A g \in Files \ {f} : bakTmp'.files[g] = bakTmp.files[g]
      BY <1>1, <2>2 DEF RestoreFromBackup, AddTo, Dirs
    <3> QED
      BY <1>6, <3>1, <3>2
  <2> QED
    BY <2>1, <2>2
<1>8. ASSUME Undone'
      PROVE  \A g \in Files \ op'.todo : target'[g] = base[g]
  <2>0. "restore" \notin spoiled'
    BY <1>8 DEF Undone
  <2>1. CASE RemoveNew(f)
    <3>1. /\ f \in op.todo \ op.had /\ op'.todo = op.todo \ {f}
          /\ target' = [target EXCEPT ![f] = Absent]
      BY <1>1, <2>0, <2>1 DEF RemoveNew, Ops
    <3> QED
      BY <1>1, <1>3, <1>4, <1>8, <3>1
  <2>2. CASE RestoreRemove(f)
    <3>1. target' = [target EXCEPT ![f] = Absent] /\ op' = op
      BY <2>2 DEF RestoreRemove
    <3> QED
      BY <1>1, <1>3, <1>4, <1>8, <3>1
  <2>3. CASE RestoreFromBackup(f)
    <3>1. f \in op.todo \cap op.had /\ op'.todo = op.todo \ {f}
      BY <1>1, <2>3 DEF RestoreFromBackup, Ops
    <3>2. bakTmp.files[f] = base[f] /\ base[f] # Absent
      BY <1>3, <1>4, <1>8, <3>1
    <3>3. target' = [target EXCEPT ![f] = bakTmp.files[f]]
      BY <2>0, <2>3, <3>2 DEF RestoreFromBackup
    <3> QED
      BY <1>1, <1>3, <1>4, <1>8, <3>1, <3>2, <3>3
  <2> QED
    BY <2>1, <2>2, <2>3
<1>9. AsItWas'
  BY <1>1, <1>2, <1>8 DEF AsItWas, Before, Committed
<1>10. SavedOrNew'
  BY <1>1, <1>2, <1>3, <1>4, <1>7 DEF SavedOrNew, Replacing, Finalizing
<1>11. SavedBySetup'
  BY <1>2 DEF SavedBySetup, Finalizing
<1> QED
  BY <1>5, <1>9, <1>10, <1>11 DEF JInv

(* The steps after the replacement, or after the undoing, and those of the *)
(* setup program's backup: the programs stay as they are.                  *)
LEMMA LateJ ==
  ASSUME JInv, EInv', TypeOK, edition' = edition,
         \/ DiscardBackup \/ WriteMeta \/ DropOldBackup \/ PublishBackup
         \/ BackupBeforeInstaller \/ LaunchInstaller
         \/ \E f \in Files : CopyToBackup(f)
  PROVE  JInv'
<1> DEFINE After == Committed \cup {"backup", "backupcopy", "launch"}
<1>1. /\ op \in Ops /\ UNCHANGED <<lock, base, target>> /\ spoiled \subseteq spoiled'
      /\ lock # Nobody
  BY DEF TypeOK, DiscardBackup, WriteMeta, DropOldBackup, PublishBackup,
         BackupBeforeInstaller, LaunchInstaller, CopyToBackup, Holding, disk
<1>2. (Calm' => Calm) /\ (Undone' => Undone /\ Calm)
  BY <1>1 DEF Calm, Undone
<1>3. CASE DiscardBackup
  <2>1. /\ op.stage = "undo" /\ op.todo = {} /\ op'.stage = "failed"
        /\ op'.kind = op.kind /\ op'.done = op.done /\ op'.had = op.had
    BY <1>1, <1>3 DEF DiscardBackup, Holding, Goto, Ops
  <2>2. target \in [Files -> Content] /\ base \in [Files -> Content]
    BY DEF TypeOK
  <2>3. Undone => target = base
    BY <2>1, <2>2 DEF JInv, AsItWas
  <2>4. AsItWas'
    BY <1>1, <1>2, <2>1, <2>3 DEF AsItWas, Before, Committed
  <2>5. Locals' /\ SavedOrNew' /\ SavedBySetup'
    BY <2>1 DEF JInv, Locals, SavedOrNew, SavedBySetup, BySetup, Committed,
                Replacing, Finalizing
  <2> QED
    BY <2>4, <2>5 DEF JInv
<1>4. ASSUME op.stage \in After, op'.stage \in After \cup {"failed"},
             op'.done = op.done, op'.had = op.had, op'.items = op.items,
             op'.kind = op.kind, op'.new = op.new,
             op'.stage \in {"backup", "backupcopy", "failed", "launch"} =>
               op.done = {} /\ op.had = {},
             op'.stage = "meta" => op.stage = "backupcopy",
             op'.stage \in {"drop", "publish"} =>
               op.stage \in {"meta", "drop"} /\ bakTmp'.files = bakTmp.files,
             op'.stage \in {"backupcopy", "meta"} => SavedBySetup'
      PROVE  JInv'
  <2>1. Locals'
    BY <1>4 DEF JInv, Locals, BySetup, Committed
  <2>2. AsItWas'
    BY <1>1, <1>2, <1>4 DEF JInv, Locals, AsItWas, Before, Committed
  <2>3. SavedOrNew'
    <3>1. CASE op'.stage = "meta"
      <4>1. op'.done = {} /\ op'.had = {}
        BY <1>4, <3>1 DEF JInv, Locals
      <4> QED
        BY <3>1, <4>1 DEF SavedOrNew, Replacing
    <3>2. CASE op'.stage \in {"drop", "publish"}
      <4>1. Calm => /\ \A f \in op.had : base[f] # Absent
                                      /\ bakTmp.files[f] = base[f]
                    /\ \A f \in op.done \ op.had : base[f] = Absent
        BY <1>4, <3>2 DEF JInv, SavedOrNew, Finalizing
      <4> QED
        BY <1>1, <1>2, <1>4, <3>2, <4>1 DEF SavedOrNew, Replacing
    <3> QED
      BY <1>4, <3>1, <3>2 DEF SavedOrNew, Replacing, Finalizing, Committed
  <2>4. SavedBySetup'
    <3>1. CASE op'.stage \in {"drop", "publish"}
      <4>1. op.stage \in Finalizing /\ bakTmp'.files = bakTmp.files
        BY <1>4, <3>1 DEF Finalizing
      <4> QED
        BY <1>1, <1>2, <1>4, <3>1, <4>1
        DEF JInv, SavedBySetup, BySetup, ProgramFiles
    <3> QED
      BY <1>4, <3>1 DEF SavedBySetup, Finalizing, Committed
  <2> QED
    BY <2>1, <2>2, <2>3, <2>4 DEF JInv
<1>5. CASE WriteMeta \/ DropOldBackup
  <2>1. /\ op.stage \in {"meta", "drop"} /\ op'.stage \in {"drop", "publish"}
        /\ op'.done = op.done /\ op'.had = op.had /\ op'.items = op.items
        /\ op'.kind = op.kind /\ op'.new = op.new
    BY <1>1, <1>5 DEF WriteMeta, DropOldBackup, Holding, Goto, Ops
  <2>2. bakTmp'.files = bakTmp.files
    BY <1>1, <1>5 DEF WriteMeta, DropOldBackup, TypeOK, Dirs
  <2> QED
    BY <1>4, <2>1, <2>2 DEF Committed
<1>6. CASE PublishBackup
  <2>1. /\ op.stage = "publish" /\ op'.stage = AfterBackup
        /\ op'.done = op.done /\ op'.had = op.had /\ op'.items = op.items
        /\ op'.kind = op.kind /\ op'.new = op.new
    BY <1>1, <1>6 DEF PublishBackup, Holding, Goto, Ops
  <2>2. AfterBackup = "launch" => op.done = {} /\ op.had = {}
    BY DEF AfterBackup, JInv, Locals, BySetup
  <2>3. AfterBackup \in {"launch", "done"}
    BY DEF AfterBackup
  <2> QED
    BY <1>4, <2>1, <2>2, <2>3 DEF Committed
<1>7. CASE BackupBeforeInstaller
  <2> DEFINE T == {g \in ProgramFiles[lock] : target[g] # Absent}
  <2>1. /\ op.stage = "backup"
        /\ \/ op' = [op EXCEPT !.stage = "backupcopy", !.todo = T]
           \/ op' = [op EXCEPT !.stage = "launch"]
    BY <1>7 DEF BackupBeforeInstaller, Holding, Goto
  <2>t. \A g \in ProgramFiles[lock] : target[g] # Absent => g \in T
    OBVIOUS
  <2> HIDE DEF T
  <2>2. /\ op'.stage \in {"backupcopy", "launch"}
        /\ op'.done = op.done /\ op'.had = op.had /\ op'.items = op.items
        /\ op'.kind = op.kind /\ op'.new = op.new
        /\ op'.stage = "backupcopy" => op'.todo = T
    BY <1>1, <2>1 DEF Ops
  <2>3. op.done = {} /\ op.had = {}
    BY <2>1 DEF JInv, Locals
  <2>4. Calm => target = base
    BY <2>1 DEF JInv, AsItWas, Before
  <2>5. SavedBySetup'
    BY <1>1, <1>2, <2>t, <2>2, <2>4 DEF SavedBySetup, Finalizing, ProgramFiles
  <2> QED
    BY <1>4, <2>1, <2>2, <2>3, <2>5
<1>8. CASE LaunchInstaller
  <2>1. /\ op.stage = "launch" /\ op'.stage \in {"done", "failed"}
        /\ op'.done = op.done /\ op'.had = op.had /\ op'.items = op.items
        /\ op'.kind = op.kind /\ op'.new = op.new
    BY <1>1, <1>8 DEF LaunchInstaller, Holding, Goto, Ops
  <2>2. op.done = {} /\ op.had = {}
    BY <2>1 DEF JInv, Locals
  <2> QED
    BY <1>4, <2>1, <2>2 DEF Committed
<1>9. ASSUME NEW f \in Files, CopyToBackup(f) PROVE JInv'
  <2>1. /\ op.stage = "backupcopy"
        /\ \/ /\ op' = [op EXCEPT !.todo = @ \ {f},
                                  !.stage = IF op.todo = {f} THEN "meta" ELSE @]
              /\ bakTmp' = AddTo(bakTmp, f, target[f])
           \/ op' = [op EXCEPT !.todo = {}, !.stage = "launch"]
    BY <1>9 DEF CopyToBackup, Holding
  <2>2. /\ op'.stage \in {"backupcopy", "meta", "launch"}
        /\ op'.done = op.done /\ op'.had = op.had /\ op'.items = op.items
        /\ op'.kind = op.kind /\ op'.new = op.new
    BY <1>1, <2>1 DEF Ops
  <2>3. op.done = {} /\ op.had = {}
    BY <2>1 DEF JInv, Locals
  <2>4. Calm => target = base
    BY <2>1 DEF JInv, AsItWas, Before
  <2>5. op'.stage \in {"backupcopy", "meta"} => SavedBySetup'
    <3> SUFFICES ASSUME op'.stage \in {"backupcopy", "meta"}, Calm', BySetup'
                 PROVE  \A g \in ProgramFiles[lock] : base[g] # Absent =>
                          /\ op'.stage = "backupcopy" =>
                               g \in op'.todo \/ bakTmp'.files[g] = base[g]
                          /\ op'.stage = "meta" => bakTmp'.files[g] = base[g]
      BY <1>1 DEF SavedBySetup, Finalizing, ProgramFiles
    <3>1. BySetup /\ target = base
      BY <1>2, <2>2, <2>4 DEF BySetup
    <3>2. /\ bakTmp' = AddTo(bakTmp, f, target[f])
          /\ op'.todo = op.todo \ {f}
          /\ op'.stage = "meta" => op.todo \subseteq {f}
      BY <1>1, <2>1 DEF Ops
    <3>3. /\ bakTmp'.files[f] = target[f]
          /\ \A g \in Files \ {f} : bakTmp'.files[g] = bakTmp.files[g]
      BY <3>2 DEF AddTo, TypeOK, Dirs
    <3>4. \A g \in ProgramFiles[lock] : base[g] # Absent =>
            g \in op.todo \/ bakTmp.files[g] = base[g]
      BY <1>2, <2>1, <3>1 DEF JInv, SavedBySetup
    <3>5. ProgramFiles[lock] \subseteq Files
      BY <1>1 DEF TypeOK, ProgramFiles
    <3> QED
      BY <3>1, <3>2, <3>3, <3>4, <3>5
  <2> QED
    BY <1>4, <2>1, <2>2, <2>3, <2>5 DEF Committed
<1> QED
  BY <1>3, <1>5, <1>6, <1>7, <1>8, <1>9

LEMMA JInvStep == JInv /\ [Next]_vars => JInv'
<1> SUFFICES ASSUME JInv, [Next]_vars PROVE JInv'
  OBVIOUS
<1>1. EInv' /\ TypeOK /\ edition' = edition
  BY IInvStep, LinksStep, SameEdition DEF JInv, EInv, IInv
<1>2. op \in Ops
  BY <1>1 DEF TypeOK
<1>3. ASSUME NEW p \in Procs, Start(p) \/ Exit(p) \/ Clean(p)
      PROVE  JInv'
  <2>1. op' = op /\ lock' = lock /\ target' = target /\ base' = base
        /\ spoiled \subseteq spoiled'
    BY <1>3 DEF Start, Exit, Clean, CleanStaged, CleanBackupTmp, CleanDirDone,
                CleanCache, Interfere, disk
  <2>2. work' \in {work, NoFiles}
    BY <1>3 DEF Start, Exit, Clean, CleanStaged, CleanBackupTmp, CleanDirDone,
                CleanCache, disk
  <2>3. Calm' => bakTmp' = bakTmp /\ staged' = staged
    BY <1>3, <2>1 DEF Start, Exit, Clean, CleanStaged, CleanBackupTmp, CleanDirDone,
                CleanCache, Interfere, Calm, disk
  <2> QED
    BY <1>1, <2>1, <2>2, <2>3, AsideJ
<1>4. ASSUME \/ SetupRuns \/ Finish \/ \E p \in Procs : Crash(p)
      PROVE  JInv'
  BY <1>1, <1>4, IdleJ DEF SetupRuns, Finish, Crash, Abandon
<1>5. ASSUME NEW p \in Procs, BeginRollback(p) PROVE JInv'
  <2>1. /\ op'.kind = "rollback" /\ op'.stage = "copyback" /\ op'.done = {}
        /\ op'.todo = op'.items /\ base' = target /\ target' = target
    BY <1>5 DEF BeginRollback, NoOp, disk
  <2>2. Locals'
    BY <2>1 DEF Locals, BySetup, Committed
  <2>3. AsItWas'
    BY <2>1 DEF AsItWas
  <2>4. SavedOrNew' /\ SavedBySetup'
    BY <2>1 DEF SavedOrNew, SavedBySetup, Replacing, Finalizing
  <2> QED
    BY <1>1, <2>2, <2>3, <2>4 DEF JInv
<1>6. ASSUME NEW p \in Procs, NEW v \in Versions, BeginUpdate(p, v) PROVE JInv'
  <2>1. /\ op'.stage = "download" /\ op'.kind = "update" /\ op'.done = {}
        /\ op'.had = {} /\ base' = target /\ target' = target
    BY <1>6 DEF BeginUpdate, NoOp, disk
  <2>2. Locals'
    BY <2>1 DEF Locals, Committed
  <2>3. AsItWas'
    BY <2>1 DEF AsItWas
  <2>4. SavedOrNew' /\ SavedBySetup'
    BY <2>1 DEF SavedOrNew, SavedBySetup, Replacing, Finalizing
  <2> QED
    BY <1>1, <2>2, <2>3, <2>4 DEF JInv
<1>7. ASSUME NEW f \in Files, FileStep(f) PROVE JInv'
  BY <1>1, <1>7, StageJ, MoveJ, RenameJ, UndoJ, LateJ DEF FileStep
<1>8. CASE OpStep
  BY <1>1, <1>4, <1>7, <1>8, EarlyJ, MakeBackupJ, LateJ DEF OpStep
<1>9. CASE UNCHANGED vars
  <2>1. op' = op /\ lock' = lock /\ target' = target /\ base' = base
        /\ spoiled' = spoiled /\ bakTmp' = bakTmp /\ staged' = staged
        /\ work' = work
    BY <1>9 DEF vars, disk
  <2> QED
    BY <1>1, <2>1, AsideJ
<1> QED
  BY <1>3, <1>4, <1>5, <1>6, <1>8, <1>9 DEF Next

LEMMA JInductive == Spec => []JInv
BY JInvInit, JInvStep, PTL DEF Spec

(* "Any failing step puts back the files already replaced": an operation   *)
(* that returns an error leaves every program file as it found it, for any *)
(* set of files, whichever step fails, after any accident but a cleanup    *)
(* beside it, an undo that failed too, or a backup that kept a hard link.  *)
THEOREM FailuresRestore == Spec => []FailureRestores
<1>1. JInv => FailureRestores
  <2> SUFFICES ASSUME JInv, op.stage = "failed",
                      spoiled \cap {"cleaner", "restore", "link"} = {}
               PROVE  target = base
    BY DEF FailureRestores
  <2>1. lock # Nobody
    BY DEF JInv, EInv, IInv, KnowsOld
  <2>2. Undone
    BY <2>1 DEF Undone, Calm
  <2> QED
    BY <2>2 DEF JInv, AsItWas
<1> QED
  BY JInductive, <1>1, PTL

-----------------------------------------------------------------------------
(* The programs of a package are always of one version, in their place and *)
(* in the backup.  The invariant follows the contents: from the package or *)
(* the backup to the cache, to the staged files, to their places, and from *)
(* there to the new backup.                                                *)

(* Clear == nothing has interfered so far.                                 *)
Clear == lock # Nobody /\ spoiled = {}

(* The programs of each package have one version, perhaps Absent.          *)
OneSet(F) ==
  /\ \A p \in Procs : \E v \in Label : \A f \in Programs(p) : F[f] = v
  /\ \A f \in Files \ InitFiles : F[f] = Absent

Whole ==
  spoiled = {} =>
    /\ ~Replacing => OneSet(target)
    /\ OneSet(bak.files)
    /\ lock # Nobody =>
         OneSet(base) /\ \A f \in InitFiles : base[f] # Absent

(* A backup may be left of an earlier operation, of programs.              *)
Leftover ==
  spoiled = {} => \A f \in Files \ InitFiles : bakTmp.files[f] = Absent

(* An operation that goes over files goes over all of its package; it is   *)
(* about a version.                                                        *)
Ours ==
  /\ Clear => op.items \in {{}, Programs(lock)}
  /\ lock # Nobody => op.new # Absent

(* What file f is replaced with.                                           *)
Source(f) == IF op.kind = "update" THEN op.new ELSE bak.files[f]

(* Has the smoke test, or the way it came, told the version of f ?         *)
Tested(f) == f \notin Scripts \/ op.kind = "update" \/ spoiled = {}

Fresh ==
  /\ op.stage = "stage" =>
       /\ \A f \in Files : work[f] \in {Source(f), Absent}
       /\ \A f \in op.items \ op.todo : staged[f] \in {Source(f), Absent}
  /\ op.stage = "smoke" => \A f \in op.items : staged[f] \in {Source(f), Absent}
  /\ op.stage = "mkbak" =>
       \A f \in op.items : Tested(f) => staged[f] \in {op.new, Absent}
  /\ op.stage \in {"replace", "rename"} =>
       /\ \A f \in op.todo : Tested(f) => staged[f] \in {op.new, Absent}
       /\ \A f \in op.done : Tested(f) => target[f] = op.new
  /\ op.stage \in Committed =>
       \A f \in op.done : Tested(f) => target[f] = op.new

(* The new backup holds the old programs, all of them when it is published.*)
Saving ==
  Clear =>
    /\ op.stage \in {"replace", "rename", "backupcopy", "meta", "drop",
                     "publish"} =>
         \A f \in Files \ Programs(lock) : bakTmp.files[f] = Absent
    /\ op.stage = "backupcopy" =>
         /\ op.todo \subseteq Programs(lock)
         /\ \A f \in Programs(lock) \ op.todo : bakTmp.files[f] = base[f]
    /\ op.stage \in {"meta", "drop", "publish"} =>
         \A f \in Programs(lock) : bakTmp.files[f] = base[f]

KInv == JInv /\ Whole /\ Leftover /\ Ours /\ Fresh /\ Saving

LEMMA ClearIs == Clear => Calm /\ Undone
BY DEF Clear, Calm, Undone

LEMMA ProgramsAre ==
  ASSUME edition \in Editions, NEW p \in Procs
  PROVE  /\ Programs(p) \subseteq InitFiles /\ Programs(p) \subseteq ProgramFiles[p]
         /\ Programs(p) \subseteq Files /\ ProgramFiles[p] \subseteq Files
         /\ Exe[p] \in Programs(p) \ Scripts
         /\ \A q \in Procs :
              \/ Programs(q) = Programs(p)
              \/ ~Windows /\ Programs(q) \cap Programs(p) = {}
<1>1. /\ ProgramFiles[p] \in SUBSET Files
      /\ Exe[p] \in ProgramFiles[p] \ Scripts /\ Exe[p] \in InitFiles
  BY PackagesAssumption DEF ProgramFiles
<1>2. \A q \in Procs :
        \/ ProgramFiles[q] = ProgramFiles[p]
        \/ ~Windows /\ ProgramFiles[q] \cap ProgramFiles[p] = {}
  BY PackagesAssumption DEF ProgramFiles, Windows
<1> QED
  BY <1>1, <1>2 DEF Programs

LEMMA EmptyIsOneSet == OneSet(NoFiles)
<1>1. \A f \in Files : NoFiles[f] = Absent
  BY DEF NoFiles
<1>2. \A p \in Procs : Programs(p) \subseteq Files
  BY DEF Programs
<1> QED
  BY <1>1, <1>2 DEF OneSet

LEMMA KInvInit == Init => KInv
<1> SUFFICES ASSUME Init PROVE KInv
  OBVIOUS
<1>1. OneSet(target)
  <2>1. /\ \A f \in InitFiles : target[f] = 1
        /\ \A f \in Files \ InitFiles : target[f] = Absent
    BY DEF Init
  <2>2. 1 \in Label
    BY InstallAssumption DEF Label, Versions
  <2> QED
    BY <2>1, <2>2 DEF OneSet, Programs
<1>2. bak.files = NoFiles /\ \A f \in Files : bakTmp.files[f] = Absent
  BY DEF Init, NoDir, NoFiles
<1>3. lock = Nobody /\ op.stage = "idle"
  BY DEF Init, NoOp
<1> QED
  BY <1>1, <1>2, <1>3, JInvInit, EmptyIsOneSet
  DEF KInv, Whole, Leftover, Ours, Fresh, Saving, Clear, Committed

(* A step beside the operation.                                            *)
LEMMA AsideK ==
  ASSUME KInv, JInv', edition' = edition, op' = op, lock' = lock,
         target' = target, base' = base, bak' = bak, spoiled \subseteq spoiled',
         work' \in {work, NoFiles}, Clear' => bakTmp' = bakTmp,
         \A f \in Files : staged'[f] \in {Absent, staged[f]},
         \A f \in Files : bakTmp'.files[f] \in {Absent, bakTmp.files[f]}
  PROVE  KInv'
<1>1. (Clear' => Clear) /\ (spoiled' = {} => spoiled = {})
  BY DEF Clear
<1>2. Whole'
  BY <1>1 DEF KInv, Whole, Replacing, OneSet, Programs, ProgramFiles
<1>3. Leftover'
  BY <1>1 DEF KInv, Leftover, Windows, Programs, ProgramFiles
<1>4. Ours'
  BY <1>1 DEF KInv, Ours, Programs, ProgramFiles
<1>5. Fresh'
  <2>1. \A f : Source(f)' = Source(f) /\ (Tested(f)' => Tested(f))
    BY <1>1 DEF Source, Tested
  <2>2. /\ op.items \subseteq Files /\ op.todo \subseteq Files
        /\ \A f \in Files : NoFiles[f] = Absent
    BY DEF KInv, JInv, EInv, IInv, TypeOK, Ops, NoFiles
  <2> QED
    BY <2>1, <2>2 DEF KInv, Fresh
<1>6. Saving'
  BY <1>1 DEF KInv, Saving, Programs, ProgramFiles
<1> QED
  BY <1>2, <1>3, <1>4, <1>5, <1>6 DEF KInv

(* The end of an operation.                                                *)
LEMMA IdleK ==
  ASSUME KInv, JInv', \/ SetupRuns \/ Finish \/ \E p \in Procs : Crash(p)
  PROVE  KInv'
<1>1. /\ lock' = Nobody /\ op' = NoOp /\ bakTmp' = bakTmp /\ edition' = edition
      /\ spoiled \subseteq spoiled'
  BY DEF SetupRuns, Finish, Crash, Abandon
<1>2. spoiled' = {} => spoiled = {} /\ bak' = bak /\ ~Replacing
  BY DEF SetupRuns, Finish, Crash, Abandon, Replacing
<1>3. spoiled' = {} => OneSet(target')
  <2> SUFFICES ASSUME spoiled' = {} PROVE OneSet(target')
    OBVIOUS
  <2>1. OneSet(target)
    BY <1>2 DEF KInv, Whole
  <2>2. CASE target' = target
    BY <2>1, <2>2
  <2>3. CASE SetupRuns
    <3>1. /\ \A f \in InitFiles : target'[f] = setup
          /\ \A f \in Files \ InitFiles : target'[f] = target[f]
      BY <2>3 DEF SetupRuns
    <3>2. setup \in Label
      BY DEF KInv, JInv, EInv, IInv, TypeOK
    <3> QED
      BY <2>1, <3>1, <3>2 DEF OneSet, Programs
  <2> QED
    BY <2>2, <2>3 DEF Finish, Crash
<1>5. Whole'
  BY <1>1, <1>2, <1>3 DEF KInv, Whole, OneSet, Programs, ProgramFiles
<1>6. Leftover'
  BY <1>1 DEF KInv, Leftover, Windows, Programs, ProgramFiles
<1>7. Ours' /\ Saving'
  BY <1>1 DEF Ours, Saving, Clear
<1>8. Fresh'
  BY <1>1 DEF Fresh, NoOp, Committed
<1> QED
  BY <1>5, <1>6, <1>7, <1>8 DEF KInv

(* Without an operation the programs are all there, and of one version.    *)
LEMMA AtRest ==
  ASSUME KInv, spoiled = {}, ~Replacing
  PROVE  /\ OneSet(target)
         /\ \A f \in Files : target[f] # Absent <=> f \in InitFiles
<1>1. OneSet(target)
  BY DEF KInv, Whole
<1>2. \A f \in InitFiles : target[f] # Absent
  BY DEF KInv, JInv, EInv, IInv, MissingIsSaved, Intact
<1> QED
  BY <1>1, <1>2 DEF OneSet

LEMMA BeginK ==
  ASSUME KInv, JInv', NEW p \in Procs,
         BeginRollback(p) \/ \E v \in Versions : BeginUpdate(p, v)
  PROVE  KInv'
<1>1. /\ lock = Nobody /\ lock' = p /\ base' = target /\ spoiled' = spoiled
      /\ UNCHANGED <<target, bak, bakTmp, edition>>
      /\ op'.stage \in {"download", "copyback"}
  BY DEF BeginRollback, BeginUpdate, NoOp, disk
<1>2. ~Replacing /\ edition \in Editions /\ bak \in Dirs
  BY <1>1 DEF KInv, JInv, EInv, IInv, KnowsOld, Replacing, TypeOK
<1>3. Whole'
  <2>1. spoiled = {} => OneSet(target) /\ \A f \in InitFiles : target[f] # Absent
    BY <1>2, AtRest
  <2> QED
    BY <1>1, <2>1 DEF KInv, Whole, OneSet, Programs, ProgramFiles
<1>4. Leftover'
  BY <1>1 DEF KInv, Leftover, Windows, Programs, ProgramFiles
<1>5. Fresh' /\ Saving'
  BY <1>1 DEF Fresh, Saving, Committed
<1>6. Ours'
  <2>1. CASE \E v \in Versions : BeginUpdate(p, v)
    <3>0. \A v \in Versions : v # Absent
      BY InstallAssumption DEF Versions, Absent
    <3>1. op'.items = {} /\ op'.new # Absent
      BY <2>1, <3>0 DEF BeginUpdate, NoOp
    <3> QED
      BY <3>1 DEF Ours
  <2>2. CASE BeginRollback(p)
    <3>1. op'.items = Saved(p) /\ op'.new # Absent
      BY <2>2 DEF BeginRollback, NoOp
    <3>2. ASSUME spoiled = {} PROVE Saved(p) = Programs(p)
      <4>1. OneSet(bak.files)
        BY <3>2 DEF KInv, Whole
      <4>2. PICK v \in Label : \A f \in Programs(p) : bak.files[f] = v
        BY <4>1 DEF OneSet
      <4>3. Saved(p) \subseteq Programs(p)
        BY <1>2, <4>1, ProgramsAre DEF OneSet, Saved, Programs
      <4>4. PICK g \in Saved(p) : bak.files[g] # Absent
        BY <2>2 DEF BeginRollback, Saved
      <4>5. v # Absent
        BY <4>2, <4>3, <4>4
      <4> QED
        BY <4>2, <4>3, <4>5 DEF Saved, Programs
    <3>3. Clear' => spoiled = {} /\ lock' = p
      BY <1>1 DEF Clear
    <3>4. Programs(p)' = Programs(p)
      BY <1>1 DEF Programs, ProgramFiles
    <3>5. Clear' => op'.items = Programs(lock)'
      BY <1>1, <3>1, <3>2, <3>3 DEF Programs, ProgramFiles
    <3> QED
      BY <3>1, <3>5 DEF Ours
  <2> QED
    BY <2>1, <2>2
<1> QED
  BY <1>3, <1>4, <1>5, <1>6 DEF KInv

(* What every step of the operation under way leaves alone.                *)
LEMMA OpKeeps ==
  ASSUME TypeOK, OpStep
  PROVE  /\ lock # Nobody /\ lock \in Procs
         /\ Finish \/ UNCHANGED <<lock, base>>
         /\ spoiled \subseteq spoiled'
<1>1. ASSUME NEW f \in Files, FileStep(f)
      PROVE  lock # Nobody /\ UNCHANGED <<lock, base>> /\ spoiled \subseteq spoiled'
  BY <1>1 DEF FileStep, StageFile, MoveOldToBackup, RenameIntoPlace, RemoveNew,
              RestoreRemove, RestoreFromBackup, CopyToBackup, Holding
<1>2. ASSUME \/ DownloadAsset \/ Extract \/ CopyBack \/ SmokeTest \/ DiscardStaged
             \/ MakeBackupDir \/ DiscardBackup \/ WriteMeta \/ DropOldBackup
             \/ PublishBackup \/ BackupBeforeInstaller \/ LaunchInstaller
      PROVE  lock # Nobody /\ UNCHANGED <<lock, base>> /\ spoiled \subseteq spoiled'
  BY <1>2 DEF DownloadAsset, Extract, CopyBack, SmokeTest, DiscardStaged,
              MakeBackupDir, DiscardBackup, WriteMeta, DropOldBackup,
              PublishBackup, BackupBeforeInstaller, LaunchInstaller, Holding
<1>3. CASE Finish
  BY <1>3 DEF Finish, TypeOK
<1> QED
  BY <1>1, <1>2, <1>3 DEF OpStep, TypeOK

(* Only the extraction chooses the files.                                  *)
LEMMA OursStep ==
  ASSUME KInv, OpStep, ~Finish, edition' = edition
  PROVE  Ours'
<1>1. /\ TypeOK /\ op \in Ops /\ edition \in Editions
      /\ lock # Nobody /\ lock \in Procs /\ lock' = lock
      /\ spoiled \subseteq spoiled'
  BY OpKeeps DEF KInv, JInv, EInv, IInv, TypeOK
<1>2. Clear' => Clear
  BY <1>1 DEF Clear
<1>3. ASSUME op'.items = op.items, op'.new = op.new PROVE Ours'
  BY <1>1, <1>2, <1>3 DEF KInv, Ours, Programs, ProgramFiles
<1>4. CASE Extract
  <2> DEFINE T == {f \in ProgramFiles[lock] : f = Exe[lock] \/ target[f] # Absent}
  <2>1. /\ op.stage = "extract"
        /\ \/ op' = [op EXCEPT !.stage = "stage", !.items = T, !.todo = T]
           \/ op' = [op EXCEPT !.stage = "failed"]
    BY <1>4 DEF Extract, Holding, Goto
  <2>2. ASSUME spoiled = {} PROVE T = Programs(lock)
    <3>1. \A f \in Files : target[f] # Absent <=> f \in InitFiles
      BY <2>1, <2>2, AtRest DEF Replacing
    <3> QED
      BY <1>1, <3>1, ProgramsAre DEF Programs
  <2> HIDE DEF T
  <2>3. op'.items \in {T, op.items} /\ op'.new = op.new
    BY <1>1, <2>1 DEF Ops
  <2>4. Clear' => op'.items \in {op.items, Programs(lock)}
    BY <1>2, <2>2, <2>3 DEF Clear
  <2> QED
    BY <1>1, <1>2, <2>3, <2>4 DEF KInv, Ours, Programs, ProgramFiles
<1>5. CASE BackupBeforeInstaller
  <2> DEFINE T == {f \in ProgramFiles[lock] : target[f] # Absent}
  <2>1. \/ op' = [op EXCEPT !.stage = "backupcopy", !.todo = T]
        \/ op' = [op EXCEPT !.stage = "launch"]
    BY <1>5 DEF BackupBeforeInstaller, Goto
  <2> HIDE DEF T
  <2>2. op'.items = op.items /\ op'.new = op.new
    BY <1>1, <2>1 DEF Ops
  <2> QED
    BY <1>3, <2>2
<1>6. CASE \/ DownloadAsset \/ CopyBack \/ SmokeTest \/ DiscardStaged
           \/ MakeBackupDir \/ DiscardBackup \/ WriteMeta \/ DropOldBackup
           \/ PublishBackup \/ LaunchInstaller
  <2>1. op'.items = op.items /\ op'.new = op.new
    BY <1>1, <1>6
    DEF Ops, Goto, GotoAll, DownloadAsset, CopyBack, SmokeTest, DiscardStaged,
        MakeBackupDir, DiscardBackup, WriteMeta, DropOldBackup,
        PublishBackup, LaunchInstaller
  <2> QED
    BY <1>3, <2>1
<1>7. ASSUME NEW f \in Files, FileStep(f) PROVE Ours'
  <2>1. op'.items = op.items /\ op'.new = op.new
    BY <1>1, <1>7
    DEF Ops, FileStep, StageFile, MoveOldToBackup, RenameIntoPlace, RemoveNew,
        RestoreRemove, RestoreFromBackup, CopyToBackup
  <2> QED
    BY <1>3, <2>1
<1> QED
  BY <1>4, <1>5, <1>6, <1>7 DEF OpStep

(* The smoke test: the program that was started has the announced version, *)
(* and the files of a backup are of one version.                           *)
LEMMA SmokeK ==
  ASSUME KInv, SmokeTest, op'.stage = "mkbak"
  PROVE  \A f \in op.items : Tested(f) => staged[f] \in {op.new, Absent}
<1>1. /\ TypeOK /\ edition \in Editions /\ lock \in Procs /\ op.stage = "smoke"
      /\ op \in Ops /\ lock # Nobody
  BY DEF KInv, JInv, EInv, IInv, TypeOK, SmokeTest, Holding
<1>2. \A f \in op.items \ Scripts : staged[f] = op.new
  BY <1>1 DEF SmokeTest, Goto, Ops
<1>3. \A f \in op.items : staged[f] \in {Source(f), Absent}
  BY <1>1 DEF KInv, Fresh
<1>4. CASE op.kind = "update"
  BY <1>3, <1>4 DEF Source
<1>5. CASE op.kind # "update" /\ spoiled = {} /\ op.items # {}
  <2>1. Clear
    BY <1>1, <1>5 DEF Clear
  <2>2. op.items = Programs(lock)
    BY <1>5, <2>1 DEF KInv, Ours
  <2>3. PICK v \in Label : \A f \in Programs(lock) : bak.files[f] = v
    BY <1>1, <1>5 DEF KInv, Whole, OneSet
  <2>4. Exe[lock] \in Programs(lock) \ Scripts
    BY <1>1, ProgramsAre
  <2>5. op.new = v
    <3>1. op.new # Absent
      BY <1>1 DEF KInv, Ours
    <3> QED
      BY <1>2, <1>3, <1>5, <2>2, <2>3, <2>4, <3>1 DEF Source
  <2> QED
    BY <1>2, <1>3, <1>5, <2>2, <2>3, <2>5 DEF Source
<1>6. CASE op.kind # "update" /\ spoiled # {}
  BY <1>2, <1>6 DEF Tested
<1> QED
  BY <1>4, <1>5, <1>6

(* The contents reach the next place.                                      *)
LEMMA FreshStep ==
  ASSUME KInv, OpStep, ~Finish, edition' = edition
  PROVE  Fresh'
<1>1. /\ TypeOK /\ op \in Ops /\ edition \in Editions
      /\ lock # Nobody /\ lock \in Procs /\ lock' = lock
      /\ spoiled \subseteq spoiled'
  BY OpKeeps DEF KInv, JInv, EInv, IInv, TypeOK
<1>2. \A f : op'.kind = op.kind => (Tested(f)' => Tested(f))
  BY <1>1 DEF Tested
<1>t. /\ staged \in [Files -> Content] /\ target \in [Files -> Content]
      /\ op.items \subseteq Files /\ op.todo \subseteq Files
      /\ op.done \subseteq Files
  BY <1>1 DEF TypeOK, Ops
<1>3. ASSUME op'.stage \notin Committed \cup {"stage", "smoke", "mkbak",
                                              "replace", "rename"}
      PROVE  Fresh'
  BY <1>3 DEF Fresh, Committed
<1>4. ASSUME op'.stage \in Committed, op.done = {} \/ op.stage \in Committed,
             op'.done = op.done, op'.new = op.new, op'.kind = op.kind,
             target' = target
      PROVE  Fresh'
  BY <1>2, <1>4 DEF KInv, Fresh, Committed
<1>5. CASE DownloadAsset \/ DiscardStaged \/ DiscardBackup
  <2>1. op'.stage \in {"backup", "extract", "failed"}
    BY <1>1, <1>5 DEF DownloadAsset, DiscardStaged, DiscardBackup, Goto, Ops
  <2> QED
    BY <1>3, <2>1 DEF Committed
<1>6. CASE WriteMeta \/ DropOldBackup \/ PublishBackup \/ LaunchInstaller
  <2>1. /\ op'.stage \in {"drop", "publish", "done", "launch", "failed"}
        /\ op.stage \in Committed \cup {"launch"}
        /\ op'.done = op.done /\ op'.new = op.new /\ target' = target
        /\ op'.kind = op.kind
    BY <1>1, <1>6
    DEF WriteMeta, DropOldBackup, PublishBackup, LaunchInstaller, Goto, Ops,
        AfterBackup, Holding, Committed, disk
  <2>2. op.done = {} \/ op.stage \in Committed
    BY <2>1 DEF KInv, JInv, Locals
  <2>3. CASE op'.stage \in Committed
    BY <1>4, <2>1, <2>2, <2>3
  <2>4. CASE op'.stage \in {"launch", "failed"}
    BY <1>3, <2>4 DEF Committed
  <2> QED
    BY <2>1, <2>3, <2>4 DEF Committed
<1>7. CASE BackupBeforeInstaller
  <2> DEFINE T == {f \in ProgramFiles[lock] : target[f] # Absent}
  <2>1. \/ op' = [op EXCEPT !.stage = "backupcopy", !.todo = T]
        \/ op' = [op EXCEPT !.stage = "launch"]
    BY <1>7 DEF BackupBeforeInstaller, Goto
  <2> HIDE DEF T
  <2>2. op'.stage \in {"backupcopy", "launch"}
    BY <1>1, <2>1 DEF Ops
  <2> QED
    BY <1>3, <2>2 DEF Committed
<1>8. CASE Extract
  <2> DEFINE T == {f \in ProgramFiles[lock] : f = Exe[lock] \/ target[f] # Absent}
  <2>1. /\ op.stage = "extract"
        /\ \/ /\ work' = [f \in Files |-> IF f \in T THEN op.new ELSE Absent]
              /\ op' = [op EXCEPT !.stage = "stage", !.items = T, !.todo = T]
           \/ op' = [op EXCEPT !.stage = "failed"]
    BY <1>8 DEF Extract, Holding, Goto
  <2> HIDE DEF T
  <2>2. CASE op' = [op EXCEPT !.stage = "failed"]
    <3>1. op'.stage = "failed"
      BY <1>1, <2>2 DEF Ops
    <3> QED
      BY <1>3, <3>1 DEF Committed
  <2>3. CASE /\ work' = [f \in Files |-> IF f \in T THEN op.new ELSE Absent]
             /\ op' = [op EXCEPT !.stage = "stage", !.items = T, !.todo = T]
    <3>1. /\ op'.stage = "stage" /\ op'.items = op'.todo
          /\ op'.kind = op.kind /\ op'.new = op.new
      BY <1>1, <2>3 DEF Ops
    <3>2. op.kind = "update"
      BY <2>1 DEF KInv, JInv, Locals
    <3>3. \A f \in Files : work'[f] \in {op.new, Absent}
      BY <2>3
    <3> QED
      BY <3>1, <3>2, <3>3 DEF Fresh, Source, Committed
  <2> QED
    BY <2>1, <2>2, <2>3
<1>9. CASE CopyBack
  <2>1. /\ op.stage = "copyback" /\ op'.kind = op.kind /\ bak' = bak
        /\ op'.todo = op.todo /\ op'.items = op.items
        /\ \/ op'.stage = "failed"
           \/ /\ op'.stage = "stage"
              /\ work' = [f \in Files |-> IF f \in op.items THEN bak.files[f]
                                          ELSE Absent]
    BY <1>1, <1>9 DEF CopyBack, Holding, Goto, Ops
  <2>2. op.kind = "rollback" /\ op.todo = op.items
    BY <2>1 DEF KInv, JInv, Locals
  <2> QED
    BY <2>1, <2>2 DEF Fresh, Source, Committed
<1>10. CASE SmokeTest
  <2>1. /\ op'.stage \in {"mkbak", "discard"} /\ staged' = staged
        /\ op'.items = op.items /\ op'.new = op.new /\ op'.kind = op.kind
    BY <1>1, <1>10 DEF SmokeTest, Goto, Ops, disk
  <2>2. op'.stage = "mkbak" =>
          \A f \in op.items : Tested(f) => staged[f] \in {op.new, Absent}
    BY <1>10, SmokeK
  <2> QED
    BY <1>2, <2>1, <2>2 DEF Fresh, Committed
<1>11. CASE MakeBackupDir
  <2>1. /\ op.stage = "mkbak" /\ op'.stage \in {"replace", "discard"}
        /\ op'.stage = "replace" => op'.todo = op.items
        /\ op'.new = op.new /\ op'.done = op.done /\ staged' = staged
        /\ op'.items = op.items /\ op'.kind = op.kind
    BY <1>1, <1>11 DEF MakeBackupDir, Holding, Goto, GotoAll, Ops
  <2>2. op.done = {}
    BY <2>1 DEF KInv, JInv, EInv, IInv, KnowsOld
  <2> QED
    BY <1>2, <2>1, <2>2 DEF KInv, Fresh, Committed
<1>12. ASSUME NEW f \in Files, StageFile(f) PROVE Fresh'
  <2>1. /\ op.stage = "stage" /\ bak' = bak /\ work' = work
        /\ op'.kind = op.kind /\ op'.new = op.new
        /\ op'.items = op.items /\ op'.todo = op.todo \ {f}
        /\ op'.stage \in {"stage", "smoke", "discard"}
        /\ op'.stage = "smoke" => op.todo = {f}
        /\ op'.stage \in {"stage", "smoke"} =>
             work[f] # Absent /\ staged' = [staged EXCEPT ![f] = work[f]]
    BY <1>1, <1>12 DEF StageFile, Holding, Ops
  <2>2. \A g : Source(g)' = Source(g)
    BY <2>1 DEF Source
  <2>3. ASSUME op'.stage \in {"stage", "smoke"}
        PROVE  \A g \in op.items \ op'.todo : staged'[g] \in {Source(g), Absent}
    <3>1. work[f] = Source(f)
      BY <2>1, <2>3 DEF KInv, Fresh
    <3>2. \A g \in op.items \ op.todo : staged[g] \in {Source(g), Absent}
      BY <2>1, <2>3 DEF KInv, Fresh
    <3> QED
      BY <1>t, <2>1, <2>3, <3>1, <3>2
  <2>4. CASE op'.stage = "stage"
    BY <1>2, <2>1, <2>2, <2>3, <2>4 DEF KInv, Fresh, Committed
  <2>5. CASE op'.stage = "smoke"
    BY <1>2, <2>1, <2>2, <2>3, <2>5 DEF Fresh, Committed
  <2> QED
    BY <1>3, <2>1, <2>4, <2>5 DEF Committed
<1>13. ASSUME NEW f \in Files, MoveOldToBackup(f) PROVE Fresh'
  <2>1. /\ op.stage = "replace" /\ f \in op.todo /\ staged' = staged
        /\ \A g \in Files \ {f} : target'[g] = target[g]
        /\ \/ op'.stage = "undo"
           \/ /\ op'.stage = "rename" /\ op'.todo = op.todo
              /\ op'.done = op.done /\ op'.new = op.new /\ op'.kind = op.kind
    <3>1. op.stage = "replace" /\ f \in op.todo /\ staged' = staged
      BY <1>13, Zenon DEF MoveOldToBackup, Holding
    <3>2. \/ target' = target
          \/ target' = [target EXCEPT ![f] = Absent]
          \/ target' = [target EXCEPT ![f] = Empty]
      BY <1>13, Zenon DEF MoveOldToBackup
    <3>3. \/ op' = [op EXCEPT !.stage = "rename", !.cur = {f}]
          \/ op' = [op EXCEPT !.stage = "rename", !.cur = {f},
                              !.had = @ \cup {f}]
          \/ op' = [op EXCEPT !.stage = "undo", !.todo = op.done]
      BY <1>13, Zenon DEF MoveOldToBackup
    <3>4. \A g \in Files \ {f} : target'[g] = target[g]
      BY <1>t, <3>2
    <3>5. \/ op'.stage = "undo"
          \/ /\ op'.stage = "rename" /\ op'.todo = op.todo
             /\ op'.done = op.done /\ op'.new = op.new /\ op'.kind = op.kind
      BY <1>1, <3>3 DEF Ops
    <3> QED
      BY <3>1, <3>4, <3>5
  <2>2. f \notin op.done
    BY <2>1 DEF KInv, JInv, Locals
  <2> QED
    BY <1>2, <1>t, <2>1, <2>2 DEF KInv, Fresh, Committed
<1>14. ASSUME NEW f \in Files, RenameIntoPlace(f) PROVE Fresh'
  <2>1. op.stage = "rename" /\ op.cur = {f}
    BY <1>14 DEF RenameIntoPlace, Holding, KInv, JInv, EInv, IInv, KnowsOld
  <2>2. f \in op.todo /\ f \notin op.done
    BY <2>1 DEF KInv, JInv, Locals
  <2>3. CASE /\ target' = [target EXCEPT ![f] = staged[f]] /\ staged[f] # Absent
             /\ staged' = [staged EXCEPT ![f] = Absent]
             /\ op' = [op EXCEPT !.stage = IF op.todo = {f} THEN "meta"
                                           ELSE "replace",
                                 !.todo = @ \ {f}, !.cur = {}, !.done = @ \cup {f}]
    <3>1. /\ op'.stage \in {"meta", "replace"} /\ op'.new = op.new
          /\ op'.kind = op.kind
          /\ op'.todo = op.todo \ {f} /\ op'.done = op.done \cup {f}
      BY <1>1, <2>3 DEF Ops
    <3>2. /\ target'[f] = staged[f]
          /\ \A g \in Files \ {f} : target'[g] = target[g] /\ staged'[g] = staged[g]
      BY <1>t, <2>3
    <3>3. /\ Tested(f) => staged[f] = op.new
          /\ \A g \in op.todo : Tested(g) => staged[g] \in {op.new, Absent}
          /\ \A g \in op.done : Tested(g) => target[g] = op.new
      BY <2>1, <2>2, <2>3 DEF KInv, Fresh
    <3> QED
      BY <1>2, <1>t, <2>2, <3>1, <3>2, <3>3 DEF Fresh, Committed
  <2>4. CASE op' = [op EXCEPT !.stage = "undo", !.cur = {},
                              !.todo = op.done \cup (op.cur \cap op.had)]
    <3>1. op'.stage = "undo"
      BY <1>1, <2>4 DEF Ops
    <3> QED
      BY <1>3, <3>1 DEF Committed
  <2> QED
    BY <1>14, <2>3, <2>4 DEF RenameIntoPlace
<1>15. ASSUME NEW f \in Files, CopyToBackup(f) PROVE Fresh'
  <2>1. /\ op.stage = "backupcopy" /\ target' = target
        /\ \/ op' = [op EXCEPT !.todo = @ \ {f},
                               !.stage = IF op.todo = {f} THEN "meta" ELSE @]
           \/ op' = [op EXCEPT !.todo = {}, !.stage = "launch"]
    BY <1>15 DEF CopyToBackup, Holding
  <2>2. /\ op'.stage \in {"backupcopy", "meta", "launch"}
        /\ op'.done = op.done /\ op'.new = op.new /\ op'.kind = op.kind
    BY <1>1, <2>1 DEF Ops
  <2>3. op.done = {}
    BY <2>1 DEF KInv, JInv, Locals
  <2> QED
    BY <1>3, <1>4, <2>1, <2>2, <2>3 DEF Committed
<1>16. ASSUME NEW f \in Files, RemoveNew(f) \/ RestoreRemove(f) \/ RestoreFromBackup(f)
       PROVE  Fresh'
  <2>1. op'.stage = "undo"
    BY <1>1, <1>16 DEF RemoveNew, RestoreRemove, RestoreFromBackup, Holding, Ops
  <2> QED
    BY <1>3, <2>1 DEF Committed
<1> QED
  BY <1>5, <1>6, <1>7, <1>8, <1>9, <1>10, <1>11, <1>12, <1>13, <1>14, <1>15,
     <1>16 DEF OpStep, FileStep

(* The files of the new backup: how each step changes them.                *)
LEMMA BackupFiles ==
  ASSUME KInv, OpStep, ~Finish, edition' = edition, spoiled = {}
  PROVE  \A f \in Files :
           \/ bakTmp'.files[f] \in {Absent, bakTmp.files[f]}
           \/ f \in Programs(lock) /\ bakTmp'.files[f] = target[f]
<1>1. /\ TypeOK /\ op \in Ops /\ edition \in Editions /\ bakTmp \in Dirs
      /\ lock # Nobody /\ lock \in Procs /\ target \in [Files -> Content]
  BY OpKeeps DEF KInv, JInv, EInv, IInv, TypeOK
<1>2. Clear /\ op.items \in {{}, Programs(lock)}
  BY <1>1 DEF KInv, Ours, Clear
<1>3. ASSUME NEW f \in Files, NEW v \in Content
      PROVE  \A g \in Files :
               AddTo(bakTmp, f, v).files[g] = IF g = f THEN v ELSE bakTmp.files[g]
  BY <1>1 DEF AddTo, Dirs
<1>4. CASE bakTmp' = bakTmp
  BY <1>4
<1>5. CASE MakeBackupDir \/ BackupBeforeInstaller
  <2>1. PICK left \in RemoveDirAll(bakTmp) :
          bakTmp' = left \/ bakTmp' = [left EXCEPT !.there = TRUE]
    BY <1>5, Zenon DEF MakeBackupDir, BackupBeforeInstaller
  <2>2. left \in Dirs
    BY <1>1, <2>1, RemovedIsDir
  <2>3. bakTmp'.files = left.files
    BY <2>1, <2>2 DEF Dirs
  <2> QED
    BY <1>1, <2>1, <2>3, RemovedFiles
<1>6. CASE DiscardBackup
  BY <1>1, <1>6, RemovedFiles DEF DiscardBackup
<1>7. CASE WriteMeta
  <2>1. bakTmp'.files = bakTmp.files
    BY <1>1, <1>7 DEF WriteMeta, Dirs
  <2> QED
    BY <2>1
<1>8. CASE PublishBackup
  BY <1>8 DEF PublishBackup, NoDir, NoFiles
<1>9. ASSUME NEW f \in Files, MoveOldToBackup(f), bakTmp' # bakTmp
      PROVE  \A g \in Files :
               \/ bakTmp'.files[g] \in {Absent, bakTmp.files[g]}
               \/ g \in Programs(lock) /\ bakTmp'.files[g] = target[g]
  <2>2. f \in op.todo /\ op.stage = "replace"
    BY <1>9 DEF MoveOldToBackup, Holding
  <2>5. f \notin linked
    BY <2>2 DEF KInv, JInv, EInv, IInv, KnowsOld, Links
  <2>1. bakTmp' = AddTo(bakTmp, f, target[f])
    BY <1>9, <2>5, Zenon DEF MoveOldToBackup
  <2>3. f \in Programs(lock)
    BY <1>2, <2>2 DEF KInv, JInv, Locals
  <2>4. target[f] \in Content
    BY <1>1
  <2> QED
    BY <1>3, <2>1, <2>3, <2>4
<1>10. ASSUME NEW f \in Files, RestoreFromBackup(f), bakTmp' # bakTmp
       PROVE  \A g \in Files : bakTmp'.files[g] \in {Absent, bakTmp.files[g]}
  <2>1. bakTmp' = AddTo(bakTmp, f, Absent)
    BY <1>10 DEF RestoreFromBackup
  <2> QED
    BY <1>3, <2>1
<1>11. ASSUME NEW f \in Files, CopyToBackup(f)
       PROVE  \A g \in Files :
                \/ bakTmp'.files[g] \in {Absent, bakTmp.files[g]}
                \/ g \in Programs(lock) /\ bakTmp'.files[g] = target[g]
  <2>1. op.stage = "backupcopy" /\ f \in op.todo
    BY <1>11 DEF CopyToBackup, Holding
  <2>2. f \in Programs(lock)
    BY <1>2, <2>1 DEF KInv, Saving
  <2>3. \/ bakTmp' = AddTo(bakTmp, f, target[f])
        \/ bakTmp' \in RemoveDirAll(bakTmp)
    BY <1>11 DEF CopyToBackup
  <2>4. target[f] \in Content
    BY <1>1
  <2> QED
    BY <1>1, <1>3, <2>2, <2>3, <2>4, RemovedFiles
<1>12. ASSUME \/ DownloadAsset \/ Extract \/ CopyBack \/ SmokeTest
              \/ DiscardStaged \/ DropOldBackup \/ LaunchInstaller
              \/ \E f \in Files : \/ StageFile(f) \/ RenameIntoPlace(f)
                                  \/ RemoveNew(f) \/ RestoreRemove(f)
       PROVE  bakTmp' = bakTmp
  BY <1>12 DEF DownloadAsset, Extract, CopyBack, SmokeTest, DiscardStaged,
               DropOldBackup, LaunchInstaller, StageFile, RenameIntoPlace,
               RemoveNew, RestoreRemove, disk
<1> QED
  BY <1>4, <1>5, <1>6, <1>7, <1>8, <1>9, <1>10, <1>11, <1>12
  DEF OpStep, FileStep

LEMMA LeftoverStep ==
  ASSUME KInv, OpStep, ~Finish, edition' = edition
  PROVE  Leftover'
<1> SUFFICES ASSUME spoiled' = {}, NEW f \in Files \ InitFiles
             PROVE  bakTmp'.files[f] = Absent
  BY DEF Leftover
<1>1. /\ TypeOK /\ lock \in Procs /\ spoiled = {}
  BY OpKeeps DEF KInv, JInv, EInv, IInv, TypeOK
<1>2. bakTmp.files[f] = Absent /\ f \notin Programs(lock)
  BY <1>1 DEF KInv, Leftover, Programs
<1> QED
  BY <1>1, <1>2, BackupFiles

(* Where no accident is noticed, a new backup directory has nothing but    *)
(* programs of the package.                                                *)
LEMMA NewDirIsOurs ==
  ASSUME KInv, spoiled' = {}, lock \in Procs,
         NEW left \in RemoveDirAll(bakTmp), spoiled' = spoiled \cup Kept(left)
  PROVE  \A f \in Files \ Programs(lock) : left.files[f] = Absent
<1>1. bakTmp \in Dirs /\ spoiled = {}
  BY DEF KInv, JInv, EInv, IInv, TypeOK
<1>2. FilesIn(left) \subseteq ProgramFiles[lock]
  <2>1. Kept(left) = {}
    OBVIOUS
  <2> QED
    BY <2>1 DEF Kept
<1>3. \A f \in Files : left.files[f] \in {Absent, bakTmp.files[f]}
  BY <1>1, RemovedFiles
<1>4. \A f \in Files \ InitFiles : left.files[f] = Absent
  BY <1>1, <1>3 DEF KInv, Leftover
<1> QED
  BY <1>2, <1>4 DEF FilesIn, Programs

(* When the last file is in its place, all files are in the backup.        *)
LEMMA AllSaved ==
  ASSUME KInv, Clear, NEW f \in Files, RenameIntoPlace(f), op'.stage = "meta"
  PROVE  /\ \A g \in Programs(lock) : bakTmp.files[g] = base[g]
         /\ op.items = Programs(lock) /\ op'.done = op.items
<1>1. /\ op \in Ops /\ op.stage = "rename" /\ op.cur = {f}
      /\ edition \in Editions /\ lock \in Procs
  BY DEF RenameIntoPlace, Holding, KInv, JInv, EInv, IInv, KnowsOld, TypeOK, Clear
<1>2. /\ op.items = op.done \cup op.todo /\ f \in op.todo
      /\ op.had \subseteq op.done \cup op.cur
  BY <1>1 DEF KInv, JInv, Locals
<1>3. op.items = Programs(lock)
  BY <1>2 DEF KInv, Ours
<1>4. op.todo = {f} /\ op'.done = op.done \cup {f}
  BY <1>1 DEF RenameIntoPlace, Ops
<1>5. \A g \in Programs(lock) : g \in op.had
  BY <1>1, <1>2, <1>3, <1>4, ProgramsAre
  DEF KInv, JInv, EInv, IInv, KnowsOld, Undisturbed, Intact, Clear
<1>6. \A g \in op.had : bakTmp.files[g] = base[g]
  BY <1>1, ClearIs DEF KInv, JInv, SavedOrNew, Replacing
<1> QED
  BY <1>2, <1>3, <1>4, <1>5, <1>6

LEMMA SavingStep ==
  ASSUME KInv, OpStep, ~Finish, edition' = edition
  PROVE  Saving'
<1>1. /\ TypeOK /\ op \in Ops /\ lock \in Procs /\ lock # Nobody /\ edition \in Editions
      /\ target \in [Files -> Content] /\ bakTmp \in Dirs
      /\ UNCHANGED <<lock, base>> /\ spoiled \subseteq spoiled'
  BY OpKeeps DEF KInv, JInv, EInv, IInv, TypeOK
<1>2. Programs(lock)' = Programs(lock) /\ Programs(lock) \subseteq Files
  BY <1>1 DEF Programs, ProgramFiles
<1>3. SUFFICES ASSUME Clear' PROVE Saving'
  BY DEF Saving
<1>4. Clear /\ spoiled = {}
  BY <1>1, <1>3 DEF Clear
<1>5. ASSUME op.stage \in {"replace", "rename", "backupcopy", "meta", "drop",
                           "publish"}
      PROVE  \A f \in Files \ Programs(lock) : bakTmp'.files[f] = Absent
  <2>1. \A f \in Files \ Programs(lock) : bakTmp.files[f] = Absent
    BY <1>4, <1>5 DEF KInv, Saving
  <2> QED
    BY <1>4, <2>1, BackupFiles
<1>6. ASSUME op'.stage \in {"idle", "download", "extract", "copyback", "stage",
                            "smoke", "discard", "mkbak", "undo", "backup",
                            "launch", "failed", "done"}
      PROVE  Saving'
  BY <1>6 DEF Saving
<1>b. ASSUME NEW left \in RemoveDirAll(bakTmp),
             bakTmp' = [left EXCEPT !.there = TRUE],
             spoiled' = spoiled \cup Kept(left)
      PROVE  \A f \in Files \ Programs(lock) : bakTmp'.files[f] = Absent
  <2>1. left \in Dirs
    BY <1>1, RemovedIsDir
  <2>2. bakTmp'.files = left.files
    BY <1>b, <2>1 DEF Dirs
  <2>3. \A f \in Files \ Programs(lock) : left.files[f] = Absent
    BY <1>1, <1>3, <1>b, NewDirIsOurs DEF Clear
  <2> QED
    BY <2>2, <2>3
<1>7. CASE MakeBackupDir
  <2>1. CASE op' = [op EXCEPT !.stage = "discard"]
    <3>1. op'.stage = "discard"
      BY <1>1, <2>1 DEF Ops
    <3> QED
      BY <1>6, <3>1
  <2>2. CASE /\ op' = [op EXCEPT !.stage = "replace", !.todo = op.items]
             /\ \E left \in RemoveDirAll(bakTmp) :
                  /\ bakTmp' = [left EXCEPT !.there = TRUE]
                  /\ spoiled' = spoiled \cup Kept(left)
    <3>1. op'.stage = "replace"
      BY <1>1, <2>2 DEF Ops
    <3>2. \A f \in Files \ Programs(lock) : bakTmp'.files[f] = Absent
      BY <1>b, <2>2
    <3> QED
      BY <1>1, <1>2, <3>1, <3>2 DEF Saving
  <2> QED
    BY <1>7, <2>1, <2>2, Zenon DEF MakeBackupDir, Goto, GotoAll
<1>8. CASE BackupBeforeInstaller
  <2> DEFINE T == {f \in ProgramFiles[lock] : target[f] # Absent}
  <2>1. /\ op.stage = "backup"
        /\ \/ /\ op' = [op EXCEPT !.stage = "backupcopy", !.todo = T]
              /\ \E left \in RemoveDirAll(bakTmp) :
                   /\ bakTmp' = [left EXCEPT !.there = TRUE]
                   /\ spoiled' = spoiled \cup Kept(left)
           \/ op' = [op EXCEPT !.stage = "launch"]
    BY <1>8, Zenon DEF BackupBeforeInstaller, Holding, Goto
  <2>2. T = Programs(lock)
    <3>1. \A f \in Files : target[f] # Absent <=> f \in InitFiles
      BY <1>4, <2>1, AtRest DEF Replacing
    <3> QED
      BY <1>1, <3>1, ProgramsAre DEF Programs
  <2> HIDE DEF T
  <2>3. CASE op' = [op EXCEPT !.stage = "launch"]
    <3>1. op'.stage = "launch"
      BY <1>1, <2>3 DEF Ops
    <3> QED
      BY <1>6, <3>1
  <2>4. CASE /\ op' = [op EXCEPT !.stage = "backupcopy", !.todo = T]
             /\ \E left \in RemoveDirAll(bakTmp) :
                  /\ bakTmp' = [left EXCEPT !.there = TRUE]
                  /\ spoiled' = spoiled \cup Kept(left)
    <3>1. op'.stage = "backupcopy" /\ op'.todo = Programs(lock)
      BY <1>1, <2>2, <2>4 DEF Ops
    <3>2. \A f \in Files \ Programs(lock) : bakTmp'.files[f] = Absent
      BY <1>b, <2>4
    <3> QED
      BY <1>1, <1>2, <3>1, <3>2 DEF Saving
  <2> QED
    BY <2>1, <2>3, <2>4
<1>9. ASSUME NEW f \in Files, CopyToBackup(f) PROVE Saving'
  <2>1. op.stage = "backupcopy" /\ f \in op.todo
    BY <1>9 DEF CopyToBackup, Holding
  <2>2. CASE op' = [op EXCEPT !.todo = {}, !.stage = "launch"]
    <3>1. op'.stage = "launch"
      BY <1>1, <2>2 DEF Ops
    <3> QED
      BY <1>6, <3>1
  <2>3. CASE /\ bakTmp' = AddTo(bakTmp, f, target[f])
             /\ op' = [op EXCEPT !.todo = @ \ {f},
                                 !.stage = IF op.todo = {f} THEN "meta" ELSE @]
    <3>1. /\ op'.todo = op.todo \ {f}
          /\ op'.stage = IF op.todo = {f} THEN "meta" ELSE "backupcopy"
      BY <1>1, <2>1, <2>3 DEF Ops
    <3>2. \A g \in Files : bakTmp'.files[g] = IF g = f THEN target[f] ELSE bakTmp.files[g]
      BY <1>1, <2>3 DEF AddTo, Dirs
    <3>3. target = base
      BY <1>4, <2>1, ClearIs DEF KInv, JInv, AsItWas, Before
    <3>4. /\ op.todo \subseteq Programs(lock)
          /\ \A g \in Programs(lock) \ op.todo : bakTmp.files[g] = base[g]
      BY <1>4, <2>1 DEF KInv, Saving
    <3>5. \A g \in Programs(lock) \ op'.todo : bakTmp'.files[g] = base[g]
      BY <1>2, <3>1, <3>2, <3>3, <3>4
    <3> QED
      BY <1>1, <1>2, <1>5, <2>1, <3>1, <3>4, <3>5 DEF Saving
  <2> QED
    BY <1>9, <2>2, <2>3 DEF CopyToBackup
<1>10. CASE WriteMeta \/ DropOldBackup
  <2>1. op.stage \in {"meta", "drop"} /\ op'.stage \in {"drop", "publish"}
    BY <1>1, <1>10 DEF WriteMeta, DropOldBackup, Holding, Goto, Ops
  <2>2. bakTmp'.files = bakTmp.files
    BY <1>1, <1>10 DEF WriteMeta, DropOldBackup, Dirs
  <2>3. \A f \in Programs(lock) : bakTmp.files[f] = base[f]
    BY <1>4, <2>1 DEF KInv, Saving
  <2> QED
    BY <1>1, <1>2, <1>5, <2>1, <2>2, <2>3 DEF Saving
<1>11. ASSUME NEW f \in Files, RenameIntoPlace(f) PROVE Saving'
  <2>1. /\ op.stage = "rename" /\ bakTmp' = bakTmp
        /\ op'.stage \in {"meta", "replace", "undo"}
    BY <1>1, <1>11 DEF RenameIntoPlace, Holding, Ops
  <2>2. op'.stage = "meta" => \A g \in Programs(lock) : bakTmp.files[g] = base[g]
    BY <1>4, <1>11, AllSaved
  <2> QED
    BY <1>1, <1>2, <1>5, <2>1, <2>2 DEF Saving
<1>12. ASSUME NEW f \in Files, MoveOldToBackup(f) PROVE Saving'
  <2>1. op.stage = "replace" /\ op'.stage \in {"rename", "undo"}
    BY <1>1, <1>12 DEF MoveOldToBackup, Holding, Ops
  <2> QED
    BY <1>1, <1>2, <1>5, <2>1 DEF Saving
<1>13. ASSUME \/ DownloadAsset \/ Extract \/ CopyBack \/ SmokeTest \/ DiscardStaged
              \/ DiscardBackup \/ PublishBackup \/ LaunchInstaller
              \/ \E f \in Files : \/ StageFile(f) \/ RemoveNew(f)
                                  \/ RestoreRemove(f) \/ RestoreFromBackup(f)
       PROVE  Saving'
  <2>1. CASE Extract
    <3> DEFINE T == {f \in ProgramFiles[lock] : f = Exe[lock] \/ target[f] # Absent}
    <3>1. \/ op' = [op EXCEPT !.stage = "stage", !.items = T, !.todo = T]
          \/ op' = [op EXCEPT !.stage = "failed"]
      BY <2>1 DEF Extract, Goto
    <3> HIDE DEF T
    <3>2. op'.stage \in {"stage", "failed"}
      BY <1>1, <3>1 DEF Ops
    <3> QED
      BY <1>6, <3>2
  <2>2. CASE \/ DownloadAsset \/ CopyBack \/ SmokeTest \/ DiscardStaged
             \/ DiscardBackup \/ PublishBackup \/ LaunchInstaller
    <3>1. op'.stage \in {"extract", "backup", "failed", "stage", "mkbak",
                         "discard", "launch", "done"}
      BY <1>1, <2>2
      DEF DownloadAsset, CopyBack, SmokeTest, DiscardStaged, DiscardBackup,
          PublishBackup, LaunchInstaller, AfterBackup, Goto, Ops
    <3> QED
      BY <1>6, <3>1
  <2>3. ASSUME NEW f \in Files, \/ StageFile(f) \/ RemoveNew(f)
                                \/ RestoreRemove(f) \/ RestoreFromBackup(f)
        PROVE  Saving'
    <3>1. op'.stage \in {"stage", "smoke", "discard", "undo"}
      BY <1>1, <2>3
      DEF StageFile, RemoveNew, RestoreRemove, RestoreFromBackup, Holding, Ops
    <3> QED
      BY <1>6, <3>1
  <2> QED
    BY <1>13, <2>1, <2>2, <2>3
<1> QED
  BY <1>7, <1>8, <1>9, <1>10, <1>11, <1>12, <1>13 DEF OpStep, FileStep

(* What the operation changes in the programs and the backup is whole.     *)
LEMMA WholeStep ==
  ASSUME KInv, JInv', Fresh', OpStep, ~Finish, edition' = edition
  PROVE  Whole'
<1>1. /\ TypeOK /\ op \in Ops /\ lock \in Procs /\ lock # Nobody /\ edition \in Editions
      /\ target \in [Files -> Content] /\ staged \in [Files -> Content]
      /\ UNCHANGED <<lock, base>> /\ spoiled \subseteq spoiled'
  BY OpKeeps DEF KInv, JInv, EInv, IInv, TypeOK
<1>2. SUFFICES ASSUME spoiled' = {}
               PROVE  (~Replacing' => OneSet(target')) /\ OneSet(bak'.files)
  <2>1. spoiled' = {} => OneSet(base) /\ \A f \in InitFiles : base[f] # Absent
    BY <1>1 DEF KInv, Whole
  <2> QED
    BY <1>1, <2>1 DEF Whole, OneSet, Programs, ProgramFiles
<1>3. /\ spoiled = {} /\ Clear /\ Clear' /\ OneSet(bak.files) /\ OneSet(base)
      /\ ~Replacing => OneSet(target)
  BY <1>1, <1>2 DEF KInv, Whole, Clear
<1>c. /\ Calm /\ Undone /\ Calm' /\ Undone'
  BY <1>3 DEF Clear, Calm, Undone
<1>4. OneSet(bak'.files)
  <2>1. CASE DropOldBackup
    <3>1. bak' = NoDir
      <4>1. ~bak'.there
        BY <1>2, <2>1 DEF DropOldBackup
      <4>2. bak \in Dirs
        BY <1>1 DEF TypeOK
      <4>3. bak' \in {NoDir} \cup Remains(bak)
        BY <2>1 DEF DropOldBackup
      <4> QED
        BY <4>1, <4>2, <4>3, RemovedFiles
    <3> QED
      BY <3>1, EmptyIsOneSet DEF NoDir
  <2>2. CASE PublishBackup /\ bak' = bakTmp
    <3>1. op.stage = "publish"
      BY <2>2 DEF PublishBackup, Holding
    <3>2. /\ \A f \in Files \ Programs(lock) : bakTmp.files[f] = Absent
          /\ \A f \in Programs(lock) : bakTmp.files[f] = base[f]
      BY <1>3, <3>1 DEF KInv, Saving
    <3>3. \A p \in Procs : \/ Programs(p) = Programs(lock)
                           \/ Programs(p) \cap Programs(lock) = {}
      BY <1>1, ProgramsAre
    <3>4. \A p \in Procs : Programs(p) \subseteq Files
      BY <1>1, ProgramsAre
    <3>5. \A f \in Files \ InitFiles : bakTmp.files[f] = Absent
      BY <3>2 DEF Programs
    <3>6. ASSUME NEW p \in Procs
          PROVE  \E v \in Label : \A f \in Programs(p) : bakTmp.files[f] = v
      BY <1>1, <1>3, <3>2, <3>3, <3>4 DEF OneSet
    <3> QED
      BY <2>2, <3>5, <3>6 DEF OneSet
  <2>3. ASSUME \/ DownloadAsset \/ Extract \/ CopyBack \/ SmokeTest
               \/ DiscardStaged \/ MakeBackupDir \/ DiscardBackup \/ WriteMeta
               \/ BackupBeforeInstaller \/ LaunchInstaller
               \/ \E f \in Files : FileStep(f)
        PROVE  bak' = bak
    BY <2>3 DEF DownloadAsset, Extract, CopyBack, SmokeTest, DiscardStaged,
                MakeBackupDir, DiscardBackup, WriteMeta, BackupBeforeInstaller,
                LaunchInstaller, FileStep, StageFile, MoveOldToBackup,
                RenameIntoPlace, RemoveNew, RestoreRemove, RestoreFromBackup,
                CopyToBackup, disk
  <2> QED
    BY <1>3, <2>1, <2>2, <2>3 DEF OpStep, PublishBackup
<1>5. ASSUME ~Replacing' PROVE OneSet(target')
  <2>1. CASE DiscardBackup
    <3>1. op.stage = "undo" /\ op'.stage = "failed"
      BY <1>1, <2>1 DEF DiscardBackup, Holding, Goto, Ops
    <3>2. target' = base
      BY <1>1, <1>c, <3>1 DEF JInv, AsItWas
    <3> QED
      BY <1>3, <3>2
  <2>2. ASSUME NEW f \in Files, RenameIntoPlace(f) PROVE OneSet(target')
    <3>0. op.stage = "rename" /\ op.cur = {f}
      BY <2>2 DEF RenameIntoPlace, Holding, KInv, JInv, EInv, IInv, KnowsOld
    <3>1. /\ op.stage = "rename" /\ op.cur = {f} /\ op'.stage = "meta"
          /\ op'.new = op.new /\ target' = [target EXCEPT ![f] = staged[f]]
      <4>1. op'.stage # "undo"
        BY <1>5 DEF Replacing
      <4>2. \/ op' = [op EXCEPT !.stage = "undo", !.cur = {},
                                !.todo = op.done \cup (op.cur \cap op.had)]
            \/ /\ target' = [target EXCEPT ![f] = staged[f]]
               /\ op' = [op EXCEPT !.stage = IF op.todo = {f} THEN "meta"
                                             ELSE "replace",
                                   !.todo = @ \ {f}, !.cur = {},
                                   !.done = @ \cup {f}]
        BY <2>2 DEF RenameIntoPlace
      <4>3. target' = [target EXCEPT ![f] = staged[f]]
            /\ op'.stage \in {"meta", "replace"} /\ op'.new = op.new
        BY <1>1, <4>1, <4>2 DEF Ops
      <4> QED
        BY <1>5, <3>0, <4>3 DEF Replacing
    <3>2. op.items = Programs(lock) /\ op'.done = op.items
      BY <1>3, <2>2, <3>1, AllSaved
    <3>3. \A g \in Programs(lock) : target'[g] = op.new
      BY <1>2, <3>1, <3>2 DEF Fresh, Committed, Tested
    <3>4. \A g \in Files \ Programs(lock) : target'[g] = base[g]
      <4>1. /\ op.items = op.done \cup op.todo /\ op.cur \subseteq op.todo
        BY <3>1 DEF KInv, JInv, Locals
      <4>2. \A g \in Files \ (op.done \cup op.cur) : target[g] = base[g]
        BY <1>c, <3>1 DEF KInv, JInv, AsItWas
      <4> QED
        BY <1>1, <3>1, <3>2, <4>1, <4>2
    <3>5. op.new \in Label
      BY <1>1 DEF Ops
    <3>6. \A p \in Procs : /\ Programs(p) \subseteq Files
                           /\ \/ Programs(p) = Programs(lock)
                              \/ Programs(p) \cap Programs(lock) = {}
      BY <1>1, ProgramsAre
    <3>7. \A g \in Files \ InitFiles : target'[g] = Absent
      BY <1>3, <3>4 DEF OneSet, Programs
    <3>8. ASSUME NEW p \in Procs
          PROVE  \E v \in Label : \A g \in Programs(p) : target'[g] = v
      BY <1>3, <3>3, <3>4, <3>5, <3>6 DEF OneSet
    <3> QED
      BY <3>7, <3>8 DEF OneSet
  <2>3. ASSUME NEW f \in Files,
               \/ MoveOldToBackup(f) \/ RemoveNew(f) \/ RestoreRemove(f)
               \/ RestoreFromBackup(f)
        PROVE  FALSE
    BY <1>1, <1>5, <2>3 DEF MoveOldToBackup, RemoveNew, RestoreRemove,
       RestoreFromBackup, Holding, Ops, Replacing
  <2>4. ASSUME \/ DownloadAsset \/ Extract \/ CopyBack \/ SmokeTest
               \/ DiscardStaged \/ MakeBackupDir \/ WriteMeta \/ DropOldBackup
               \/ PublishBackup \/ BackupBeforeInstaller \/ LaunchInstaller
               \/ \E f \in Files : StageFile(f) \/ CopyToBackup(f)
        PROVE  target' = target /\ ~Replacing
    BY <2>4 DEF DownloadAsset, Extract, CopyBack, SmokeTest, DiscardStaged,
       MakeBackupDir, WriteMeta, DropOldBackup, PublishBackup,
       BackupBeforeInstaller, LaunchInstaller, StageFile, CopyToBackup,
       Holding, Replacing, disk
  <2> QED
    BY <1>3, <2>1, <2>2, <2>3, <2>4 DEF OpStep, FileStep
<1> QED
  BY <1>4, <1>5

LEMMA KInvStep == KInv /\ [Next]_vars => KInv'
<1> SUFFICES ASSUME KInv, [Next]_vars PROVE KInv'
  OBVIOUS
<1>1. JInv' /\ TypeOK /\ bakTmp \in Dirs /\ edition' = edition
  BY JInvStep, SameEdition DEF KInv, JInv, EInv, IInv, TypeOK
<1>2. ASSUME \/ \E p \in Procs : Start(p) \/ Exit(p) \/ Clean(p)
             \/ UNCHANGED vars
      PROVE  KInv'
  <2>1. /\ UNCHANGED <<op, lock, target, base, bak>> /\ spoiled \subseteq spoiled'
        /\ work' \in {work, NoFiles}
    BY <1>2 DEF Start, Exit, Clean, CleanStaged, CleanBackupTmp, CleanDirDone,
                CleanCache, Interfere, disk, vars
  <2>2. Clear' => bakTmp' = bakTmp
    BY <1>2, <2>1
    DEF Start, Exit, Clean, CleanStaged, CleanBackupTmp, CleanDirDone,
        CleanCache, Interfere, Clear, disk, vars
  <2>3. bakTmp' = bakTmp \/ bakTmp' \in RemoveDirAll(bakTmp)
    BY <1>2 DEF Start, Exit, Clean, CleanStaged, CleanBackupTmp, CleanDirDone,
                CleanCache, disk, vars
  <2>4. \A f \in Files : bakTmp'.files[f] \in {Absent, bakTmp.files[f]}
    BY <1>1, <2>3, RemovedFiles
  <2>5. \A f \in Files : staged'[f] \in {Absent, staged[f]}
    BY <1>1, <1>2 DEF TypeOK, Start, Exit, Clean, CleanStaged, CleanBackupTmp,
       CleanDirDone, CleanCache, disk, vars
  <2> QED
    BY <1>1, <2>1, <2>2, <2>4, <2>5, AsideK
<1>3. CASE SetupRuns \/ Finish \/ \E p \in Procs : Crash(p)
  BY <1>1, <1>3, IdleK
<1>4. ASSUME NEW p \in Procs,
             BeginRollback(p) \/ \E v \in Versions : BeginUpdate(p, v)
      PROVE  KInv'
  BY <1>1, <1>4, BeginK
<1>5. CASE OpStep /\ ~Finish
  BY <1>1, <1>5, OursStep, FreshStep, LeftoverStep, SavingStep, WholeStep DEF KInv
<1> QED
  BY <1>2, <1>3, <1>4, <1>5 DEF Next

LEMMA KInductive == Spec => []KInv
BY KInvInit, KInvStep, PTL DEF Spec

(* An update or a rollback that returns Ok has installed the version it    *)
(* announced in every file it went over, whatever accidents happened: the  *)
(* smoke test looks at the programs, a package has one version, and so     *)
(* have the files of a backup that no accident mixed.                      *)
THEOREM OperationsInstall == Spec => []SuccessInstalls
<1>1. KInv => SuccessInstalls
  <2> SUFFICES ASSUME KInv, op.stage = "done", op.done # {}, NEW f \in op.items,
                      f \notin Scripts \/ op.kind = "update" \/ spoiled = {}
               PROVE  target[f] = op.new
    BY DEF SuccessInstalls
  <2>1. op.done = op.items
    BY DEF KInv, JInv, Locals, Committed
  <2> QED
    BY <2>1 DEF KInv, Fresh, Committed, Tested
<1> QED
  BY KInductive, <1>1, PTL

(* Only the publication, and an end that comes in the middle of removing   *)
(* it, changes the backup at that stage.                                   *)
LEMMA OnlyPublished ==
  ASSUME [Next]_vars, op.stage = "publish", bak' # bak
  PROVE  PublishBackup /\ bak' = bakTmp
<1>1. CASE OpStep
  BY <1>1 DEF OpStep, DownloadAsset, Extract, CopyBack, SmokeTest,
     DiscardStaged, MakeBackupDir, DiscardBackup, WriteMeta, DropOldBackup,
     PublishBackup, BackupBeforeInstaller, LaunchInstaller, Finish, FileStep,
     StageFile, MoveOldToBackup, RenameIntoPlace, RemoveNew, RestoreRemove,
     RestoreFromBackup, CopyToBackup, Holding, disk
<1>2. CASE SetupRuns \/ \E p \in Procs : Crash(p)
  BY <1>2 DEF SetupRuns, Crash, Abandon
<1>3. ASSUME NEW p \in Procs,
             \/ Start(p) \/ Exit(p) \/ Clean(p) \/ BeginRollback(p)
             \/ \E v \in Versions : BeginUpdate(p, v)
      PROVE  FALSE
  BY <1>3 DEF Start, Exit, Clean, CleanStaged, CleanBackupTmp, CleanDirDone,
              CleanCache, BeginRollback, BeginUpdate, disk
<1> QED
  BY <1>1, <1>2, <1>3 DEF Next, vars

(* What finalize_backup publishes holds every program the operation        *)
(* replaced, or that was there before a setup program ran, as it was when  *)
(* the operation began, whatever the new directory had kept; and nothing   *)
(* of another version until there was an accident.                         *)
THEOREM BackupsArePrevious == Spec => BackupIsPrevious
<1> DEFINE Prev == op.stage = "publish" /\ bak' # bak =>
                     /\ spoiled \cap {"cleaner", "link"} = {} =>
                          \A f \in ToSave : bak'.files[f] = base[f]
                     /\ spoiled = {} =>
                          \A f \in Files : bak'.files[f] \in {Absent, base[f]}
<1>1. ASSUME KInv, [Next]_vars PROVE Prev
  <2> SUFFICES ASSUME op.stage = "publish", bak' # bak
               PROVE  /\ spoiled \cap {"cleaner", "link"} = {} =>
                           \A f \in ToSave : bak'.files[f] = base[f]
                      /\ spoiled = {} =>
                           \A f \in Files : bak'.files[f] \in {Absent, base[f]}
    OBVIOUS
  <2>1. lock # Nobody /\ lock \in Procs /\ edition \in Editions
    BY <1>1 DEF KInv, JInv, EInv, IInv, KnowsOld, TypeOK
  <2>2. bak' = bakTmp
    BY <1>1, OnlyPublished
  <2>3. ASSUME spoiled \cap {"cleaner", "link"} = {}, NEW f \in ToSave
        PROVE  bakTmp.files[f] = base[f]
    <3>1. Calm
      BY <2>1, <2>3 DEF Calm
    <3>2. CASE edition = "installer" /\ op.kind = "update"
      BY <1>1, <2>3, <3>1, <3>2
      DEF ToSave, KInv, JInv, SavedBySetup, BySetup, Finalizing
    <3>3. CASE ~(edition = "installer" /\ op.kind = "update")
      <4>1. f \in op.done /\ base[f] # Absent
        BY <2>3, <3>3 DEF ToSave
      <4> QED
        BY <1>1, <3>1, <4>1 DEF KInv, JInv, SavedOrNew, Finalizing
    <3> QED
      BY <3>2, <3>3
  <2>4. ASSUME spoiled = {}, NEW f \in Files
        PROVE  bakTmp.files[f] \in {Absent, base[f]}
    <3>1. Clear
      BY <2>1, <2>4 DEF Clear
    <3> QED
      BY <1>1, <3>1 DEF KInv, Saving
  <2> QED
    BY <2>2, <2>3, <2>4
<1> QED
  BY KInductive, <1>1, PTL DEF Spec, BackupIsPrevious

-----------------------------------------------------------------------------
(* The installer implements ProgramSet, for each package.                  *)

(* The set counts as the version of the program a process is started from. *)
OneVersion ==
  \A p \in Procs :
    /\ spoiled # {} => SetVersion(p) = Absent
    /\ spoiled = {} => /\ SetVersion(p) = Current[Exe[p]]
                       /\ Current[Exe[p]] \in Versions

LEMMA VersionIs == KInv => OneVersion
<1> SUFFICES ASSUME KInv, NEW p \in Procs
             PROVE  /\ spoiled # {} => SetVersion(p) = Absent
                    /\ spoiled = {} => /\ SetVersion(p) = Current[Exe[p]]
                                       /\ Current[Exe[p]] \in Versions
  BY DEF OneVersion
<1>1. CASE spoiled # {}
  BY <1>1 DEF SetVersion
<1>2. CASE spoiled = {}
  <2>1. /\ Exe[p] \in Programs(p) /\ Programs(p) \subseteq InitFiles
        /\ Programs(p) \subseteq Files
    BY ProgramsAre DEF KInv, JInv, EInv, IInv, TypeOK
  <2>2. OneSet(Current) /\ \A f \in InitFiles : Current[f] # Absent
    <3>1. CASE Replacing
      BY <1>2, <3>1 DEF KInv, Whole, JInv, EInv, IInv, KnowsOld, Replacing, Current
    <3>2. CASE ~Replacing
      BY <1>2, <2>1, <3>2, AtRest DEF Current
    <3> QED
      BY <3>1, <3>2
  <2>3. PICK v \in Label : \A f \in Programs(p) : Current[f] = v
    BY <2>2 DEF OneSet
  <2>4. v \in Versions /\ Current[Exe[p]] = v
    BY <2>1, <2>2, <2>3 DEF Label
  <2>5. Common(p) = {v}
    BY <2>1, <2>3, <2>4 DEF Common
  <2> QED
    BY <1>2, <2>4, <2>5 DEF SetVersion
<1> QED
  BY <1>1, <1>2

(* The steps of an operation, but the last file in place, change nothing.  *)
LEMMA WorkIsPrivate ==
  ASSUME KInv, JInv', OpStep, ~Finish, spoiled' = {}, edition' = edition,
         ~ \E f \in Files : RenameIntoPlace(f) /\ op'.stage = "meta"
  PROVE  /\ \A p \in Procs : Current'[Exe[p]] = Current[Exe[p]]
         /\ SetPhase' = SetPhase
<1>1. /\ TypeOK /\ op \in Ops /\ lock \in Procs /\ lock # Nobody
      /\ UNCHANGED <<lock, base>> /\ spoiled \subseteq spoiled'
  BY OpKeeps DEF KInv, JInv, EInv, IInv, TypeOK
<1>2. Calm /\ Undone'
  BY <1>1 DEF Calm, Undone
<1>3. CASE \/ DownloadAsset \/ Extract \/ CopyBack \/ SmokeTest \/ DiscardStaged
           \/ BackupBeforeInstaller \/ \E f \in Files : StageFile(f)
  <2>1. /\ target' = target
        /\ op.stage \in {"download", "extract", "copyback", "smoke", "discard",
                         "backup", "stage"}
        /\ op'.stage \in {"extract", "backup", "failed", "stage", "mkbak",
                          "discard", "backupcopy", "launch", "smoke"}
    BY <1>1, <1>3 DEF DownloadAsset, Extract, CopyBack, SmokeTest, DiscardStaged,
       BackupBeforeInstaller, StageFile, Holding, Goto, disk, Ops
  <2> QED
    BY <1>1, <2>1 DEF Current, Replacing, SetPhase
<1>4. CASE MakeBackupDir
  <2>1. /\ target' = target /\ op.stage = "mkbak"
        /\ op'.stage \in {"replace", "discard"}
    BY <1>1, <1>4 DEF MakeBackupDir, Holding, Goto, GotoAll, Ops
  <2>2. target = base
    BY <1>2, <2>1 DEF KInv, JInv, AsItWas, Before
  <2> QED
    BY <1>1, <2>1, <2>2 DEF Current, Replacing, SetPhase
<1>5. CASE DiscardBackup
  <2>1. op.stage = "undo" /\ op'.stage = "failed"
    BY <1>1, <1>5 DEF DiscardBackup, Holding, Goto, Ops
  <2>2. target' = base
    BY <1>1, <1>2, <2>1 DEF JInv, AsItWas
  <2> QED
    BY <1>1, <2>1, <2>2 DEF Current, Replacing, SetPhase
<1>6. CASE WriteMeta \/ DropOldBackup \/ PublishBackup
  <2>1. /\ target' = target /\ op.stage \in {"meta", "drop", "publish"}
        /\ op'.done = op.done
        /\ op'.stage \in {"drop", "publish", "launch", "done"}
        /\ op'.stage = "launch" => BySetup
    BY <1>1, <1>6 DEF WriteMeta, DropOldBackup, PublishBackup, Holding, Goto,
       AfterBackup, BySetup, Ops
  <2>2. BySetup => op.done = {}
    BY DEF KInv, JInv, Locals
  <2> QED
    BY <1>1, <2>1, <2>2 DEF Current, Replacing, SetPhase
<1>7. CASE LaunchInstaller \/ \E f \in Files : CopyToBackup(f)
  <2>1. /\ target' = target /\ op.stage \in {"launch", "backupcopy"}
        /\ op'.done = op.done
        /\ op'.stage \in {"done", "failed", "meta", "launch", "backupcopy"}
    BY <1>1, <1>7 DEF LaunchInstaller, CopyToBackup, Holding, Goto, disk, Ops
  <2>2. op.done = {}
    BY <2>1 DEF KInv, JInv, Locals
  <2> QED
    BY <1>1, <2>1, <2>2 DEF Current, Replacing, SetPhase
<1>8. ASSUME NEW f \in Files,
             \/ MoveOldToBackup(f) \/ RenameIntoPlace(f) \/ RemoveNew(f)
             \/ RestoreRemove(f) \/ RestoreFromBackup(f)
      PROVE  /\ \A p \in Procs : Current'[Exe[p]] = Current[Exe[p]]
             /\ SetPhase' = SetPhase
  <2>1. /\ op.stage \in {"replace", "rename", "undo"}
        /\ op'.stage \in {"replace", "rename", "undo", "meta"}
        /\ op'.stage = "meta" => RenameIntoPlace(f)
    BY <1>1, <1>8 DEF MoveOldToBackup, RenameIntoPlace, RemoveNew, RestoreRemove,
       RestoreFromBackup, Holding, Ops
  <2>2. op'.stage \in {"replace", "rename", "undo"}
    BY <2>1
  <2> QED
    BY <1>1, <2>1, <2>2 DEF Current, Replacing, SetPhase
<1> QED
  BY <1>3, <1>4, <1>5, <1>6, <1>7, <1>8 DEF OpStep, FileStep

(* The phase is one of the three, and idle exactly when the lock is free.  *)
PhaseAgrees ==
  /\ SetPhase \in {"idle", "working", "committed"}
  /\ SetPhase = "idle" <=> lock = Nobody
  /\ op.stage \notin Committed \/ op.done = {} => SetPhase # "committed"
  /\ lock # Nobody /\ op.stage = "meta" /\ op.done # {} => SetPhase = "committed"

LEMMA PhaseIs == KInv => PhaseAgrees
<1> SUFFICES ASSUME KInv PROVE PhaseAgrees
  OBVIOUS
<1>1. CASE lock = Nobody
  <2>1. op.stage = "idle"
    BY <1>1 DEF KInv, JInv, EInv, IInv, KnowsOld
  <2> QED
    BY <1>1, <2>1 DEF PhaseAgrees, SetPhase
<1>2. CASE lock # Nobody
  BY <1>2 DEF PhaseAgrees, SetPhase, Committed
<1> QED
  BY <1>1, <1>2

LEMMA AgreesNext == KInv' => OneVersion' /\ PhaseAgrees'
BY VersionIs, PhaseIs, PTL

(* The update lock makes an operation one step: the version of a package   *)
(* changes as a whole when the last of its files is in place, or when the  *)
(* setup program has run, and never otherwise unless an accident happened. *)
THEOREM InstallIsOneStep == Spec => ImplementsProgramSet
<1>1. ASSUME Init, NEW p \in Procs PROVE Abstract(p)!SetInit
  <2>1. KInv /\ OneVersion /\ PhaseAgrees
    BY <1>1, KInvInit, VersionIs, PhaseIs
  <2>2. Current[Exe[p]] = 1 /\ spoiled = {} /\ lock = Nobody
    BY <1>1, PackagesAssumption, InstallAssumption
    DEF Init, Current, Replacing, NoOp
  <2> QED
    BY <2>1, <2>2 DEF OneVersion, PhaseAgrees, Abstract!SetInit
<1>2. ASSUME KInv, [Next]_vars, NEW p \in Procs PROVE Abstract(p)!SetStep
  <2>1. /\ KInv' /\ JInv' /\ JInv /\ OneVersion /\ OneVersion'
        /\ PhaseAgrees /\ PhaseAgrees' /\ edition' = edition
    BY <1>2, KInvStep, VersionIs, PhaseIs, AgreesNext, SameEdition DEF KInv
  <2>2. spoiled \subseteq spoiled' /\ TypeOK
    <3>1. OpStep => spoiled \subseteq spoiled'
      BY OpKeeps, <2>1 DEF JInv, EInv, IInv
    <3>2. \A q \in Procs : Clean(q) => spoiled \subseteq spoiled'
      BY DEF Clean, CleanStaged, CleanBackupTmp, CleanDirDone, CleanCache,
             Interfere
    <3> QED
      BY <1>2, <2>1, <3>1, <3>2 DEF Next, Start, Exit, Crash, SetupRuns, Abandon,
         BeginRollback, BeginUpdate, vars, JInv, EInv, IInv
  <2>3. CASE spoiled' # {}
    <3>1. SetVersion(p)' = 0 /\ SetPhase' \in {"idle", "working", "committed"}
      BY <2>1, <2>3 DEF OneVersion, PhaseAgrees, Absent
    <3> QED
      BY <3>1 DEF Abstract!SetStep, Abstract!SetNext, Abstract!Tear, Abstract!Torn
  <2>4. CASE spoiled' = {}
    <3>1. /\ SetVersion(p) = Current[Exe[p]] /\ Current[Exe[p]] \in Versions
          /\ SetVersion(p)' = Current'[Exe[p]] /\ Current'[Exe[p]] \in Versions
          /\ SetPhase = "idle" <=> lock = Nobody
          /\ SetPhase' = "idle" <=> lock' = Nobody
          /\ SetPhase \in {"idle", "working", "committed"}
          /\ SetPhase' \in {"idle", "working", "committed"}
          /\ SetVersion(p) # 0
      <4>1. 0 \notin Versions
        BY InstallAssumption DEF Versions
      <4> QED
        BY <2>1, <2>2, <2>4, <4>1 DEF OneVersion, PhaseAgrees
    <3>2. CASE UNCHANGED vars
                 \/ \E q \in Procs : Start(q) \/ Exit(q) \/ Clean(q)
      <4>1. Current' = Current /\ SetPhase' = SetPhase
        BY <3>2 DEF Start, Exit, Clean, CleanStaged, CleanBackupTmp,
           CleanDirDone, CleanCache, disk, vars, Current, Replacing, SetPhase
      <4> QED
        BY <3>1, <4>1 DEF Abstract!SetStep, Abstract!setVars
    <3>3. ASSUME NEW q \in Procs,
                 BeginRollback(q) \/ \E v \in Versions : BeginUpdate(q, v)
          PROVE  Abstract(p)!SetStep
      <4>1. /\ lock = Nobody /\ lock' = q /\ target' = target /\ q # Nobody
            /\ op'.stage \in {"download", "copyback"}
        BY <3>3, InstallAssumption DEF BeginRollback, BeginUpdate, NoOp, disk
      <4>2. op.stage = "idle"
        BY <2>1, <4>1 DEF JInv, EInv, IInv, KnowsOld
      <4>3. Current' = Current
        BY <4>1, <4>2 DEF Current, Replacing
      <4>4. SetPhase = "idle" /\ SetPhase' = "working"
        BY <2>1, <3>1, <4>1 DEF PhaseAgrees, Committed
      <4> QED
        BY <3>1, <4>3, <4>4
        DEF Abstract!SetStep, Abstract!SetNext, Abstract!Begin
    <3>4. CASE Finish \/ \E q \in Procs : Crash(q)
      <4>1. /\ lock # Nobody /\ lock' = Nobody /\ target' = target
            /\ ~Replacing /\ ~Replacing'
        <5>1. /\ lock # Nobody /\ lock' = Nobody /\ target' = target /\ op' = NoOp
          BY <3>4, InstallAssumption DEF Finish, Crash, Abandon
        <5>2. ~Replacing
          BY <2>4, <3>4 DEF Finish, Crash, Abandon, Replacing
        <5>3. ~Replacing'
          BY <5>1 DEF Replacing, NoOp
        <5> QED
          BY <5>1, <5>2, <5>3
      <4>2. SetVersion(p)' = SetVersion(p) /\ SetPhase # "idle" /\ SetPhase' = "idle"
        BY <3>1, <4>1 DEF Current
      <4> QED
        BY <4>2 DEF Abstract!SetStep, Abstract!SetNext, Abstract!End
    <3>5. CASE SetupRuns
      <4>1. lock' = Nobody
        BY <3>5 DEF SetupRuns, Abandon
      <4> QED
        BY <3>1, <4>1
        DEF Abstract!SetStep, Abstract!SetNext, Abstract!Setup, Abstract!Torn,
            Versions
    <3>6. ASSUME NEW f \in Files, RenameIntoPlace(f), op'.stage = "meta"
          PROVE  Abstract(p)!SetStep
      <4>1. /\ lock # Nobody /\ lock' = lock /\ op.stage = "rename"
            /\ op'.done # {}
        <5>1. op.stage = "rename" /\ lock # Nobody /\ lock' = lock /\ op \in Ops
          BY <2>2, <3>6 DEF RenameIntoPlace, Holding, TypeOK
        <5>2. \/ op'.stage = "undo"
              \/ op'.done = op.done \cup {f}
          BY <3>6, <5>1 DEF RenameIntoPlace, Ops
        <5>3. f \in op'.done
          BY <3>6, <5>2
        <5> QED
          BY <5>1, <5>3
      <4>2. SetPhase = "working" /\ SetPhase' = "committed"
        BY <2>1, <3>1, <3>6, <4>1 DEF PhaseAgrees, Committed
      <4> QED
        BY <3>1, <4>2
        DEF Abstract!SetStep, Abstract!SetNext, Abstract!Commit, Abstract!Torn,
            Versions
    <3>7. CASE OpStep /\ ~Finish /\ ~ \E f \in Files : RenameIntoPlace(f)
                                                     /\ op'.stage = "meta"
      <4>1. Current'[Exe[p]] = Current[Exe[p]] /\ SetPhase' = SetPhase
        BY <1>2, <2>1, <2>4, <3>7, WorkIsPrivate
      <4> QED
        BY <3>1, <4>1 DEF Abstract!SetStep, Abstract!setVars
    <3> QED
      BY <1>2, <3>2, <3>3, <3>4, <3>5, <3>6, <3>7 DEF Next
  <2> QED
    BY <2>3, <2>4
<1>3. Init => \A p \in Procs : Abstract(p)!SetInit
  BY <1>1
<1>4. KInv /\ [Next]_vars => \A p \in Procs : Abstract(p)!SetStep
  BY <1>2
<1> QED
  BY KInductive, <1>3, <1>4, PTL DEF Spec, ImplementsProgramSet
=============================================================================
