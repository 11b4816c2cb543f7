---------------------------- MODULE UpdateInstall ----------------------------
(***************************************************************************)
(* The installer of the updater (src/src/core/updater/apply.rs): how one   *)
(* process replaces the program files of an installation directory with    *)
(* another version, what it leaves there when a file operation fails or    *)
(* the process dies, how `rollback' returns to the saved version, and what *)
(* `cleanup_after_start' of a GUI window deletes meanwhile.                *)
(*                                                                         *)
(* A file is represented by the version of its content, 0 when there is    *)
(* no such file and -1 when it was truncated.                              *)
(*                                                                         *)
(* The update lock (lock.rs) is an OS file lock: the holder is the only    *)
(* process inside install_files, so the state of that call is the single   *)
(* variable op.  The cleanup thread takes no lock.                         *)
(***************************************************************************)
EXTENDS Integers, FiniteSets

CONSTANTS
  Editions,     \* what may be installed: some of AllEditions, below
  Procs,        \* processes of one user started from the directory
  Guis,         \* those that are GUI windows; the others run `mist update'
  Files,        \* the names a program file can have
  InitFiles,    \* the program files unpacked by the user at the beginning
  Scripts,      \* files without a smoke test (mist.cmd)
  Exe,          \* Exe[p] : the file process p is started from
  Packages,     \* Packages[e][p] : program_files() of the build p runs
  Nobody,       \* the holder of a free lock
  MaxVersion,   \* versions released are 1 .. MaxVersion
  MaxOps        \* bound on the operations begun (a bound of the model)

Versions == 1 .. MaxVersion
Absent == 0
Empty == -1     \* a file without content
Label == {Absent} \cup Versions
Content == Label \cup {Empty}

(* The Windows zip, the installed Windows program, and the two Linux builds *)
(* unpacked into one directory.                                            *)
AllEditions == {"portable", "installer", "unix"}

ASSUME InstallAssumption ==
  /\ Guis \subseteq Procs
  /\ Nobody \notin Procs
  /\ InitFiles \subseteq Files
  /\ Scripts \subseteq Files
  /\ Exe \in [Procs -> Files]
  /\ Packages \in [Editions -> [Procs -> SUBSET Files]]
  /\ \A e \in Editions, p \in Procs : Exe[p] \in Packages[e][p] \ Scripts
  /\ MaxVersion \in Nat \ {0}
  /\ MaxOps \in Nat
  /\ Editions \subseteq AllEditions

(* Processes are started from files that are there.  On Windows all builds *)
(* have one list of program files; those of two Linux builds are disjoint. *)
ASSUME PackagesAssumption ==
  /\ Exe \in [Procs -> InitFiles]
  /\ \A e \in Editions, p, q \in Procs :
       \/ Packages[e][p] = Packages[e][q]
       \/ e = "unix" /\ Packages[e][p] \cap Packages[e][q] = {}

VARIABLES
  edition,    \* what is installed in the directory; it stays
  run,        \* run[p] : APP_VERSION of the running process, 0 when not running
  lock,       \* holder of update.lock
  op,         \* locals of the update or rollback under way
  target,     \* the program files
  staged,     \* .mist-update-new-<name>
  bakTmp,     \* .mist-update-backup.tmp
  linked,     \* its files that are hard links to the program in place
  bak,        \* .mist-update-backup
  work,       \* the unpacked package, or the rollback copy, in the cache
  cleaner,    \* cleaner[p] : where the cleanup thread of window p is
  setup,      \* version of the setup.exe that was launched, 0 for none
  base,       \* history: target when the operation took the lock
  spoiled,    \* history: what interfered with a replacement so far
  ops         \* how many operations have begun

vars == <<edition, run, lock, op, target, staged, bakTmp, linked, bak, work,
          cleaner, setup, base, spoiled, ops>>
Windows == edition # "unix"
ProgramFiles == Packages[edition]

disk == <<target, staged, bakTmp, linked, bak, work>>

(* A backup directory: does it exist, its files, the version of its        *)
(* backup.json.                                                            *)
Dirs == [there : BOOLEAN, files : [Files -> Content], meta : Label]
NoFiles == [f \in Files |-> Absent]
NoDir == [there |-> FALSE, files |-> NoFiles, meta |-> Absent]
EmptyDir == [NoDir EXCEPT !.there = TRUE]

Stages == {"idle", "download", "extract", "copyback", "stage", "smoke",
           "discard", "mkbak", "replace", "rename", "undo", "undone",
           "backup", "backupcopy", "meta", "drop", "publish", "launch",
           "failed", "done"}

Ops == [stage : Stages, kind : {"none", "update", "rollback"},
        new : Label, label : Label, items : SUBSET Files,
        todo : SUBSET Files, cur : SUBSET Files,
        done : SUBSET Files, had : SUBSET Files]

NoOp == [stage |-> "idle", kind |-> "none", new |-> Absent, label |-> Absent,
         items |-> {}, todo |-> {}, cur |-> {}, done |-> {}, had |-> {}]

TypeOK ==
  /\ edition \in Editions
  /\ run \in [Procs -> Label]
  /\ lock \in Procs \cup {Nobody}
  /\ op \in Ops
  /\ target \in [Files -> Content]
  /\ staged \in [Files -> Content]
  /\ bakTmp \in Dirs
  /\ linked \subseteq Files
  /\ bak \in Dirs
  /\ work \in [Files -> Content]
  /\ cleaner \in [Procs -> {"off", "dir", "cache"}]
  /\ setup \in Label
  /\ base \in [Files -> Content]
  /\ spoiled \subseteq {"cleaner", "crash", "restore", "backup", "leftover",
                       "link"}
  /\ ops \in 0 .. MaxOps

-----------------------------------------------------------------------------
(* File operations                                                         *)

(* Windows refuses to delete the image of a running process.               *)
InUse(f, v) == Windows /\ \E p \in Procs : run[p] = v /\ Exe[p] = f

FilesIn(d) == {f \in Files : d.files[f] # Absent}
Free(d) == {f \in FilesIn(d) : ~InUse(f, d.files[f])}

(* What a remove_dir_all that fails or is interrupted can leave of         *)
(* directory d: it got to some of the files it may delete, and to          *)
(* backup.json or not.                                                     *)
Remains(d) ==
  IF ~d.there THEN {}
  ELSE {[there |-> TRUE, meta |-> m,
         files |-> [f \in Files |-> IF f \in gone THEN Absent
                                    ELSE d.files[f]]] :
          gone \in SUBSET Free(d), m \in {Absent, d.meta}}

(* What one that returned can: nothing or, when one of the deletions was   *)
(* refused, which no caller looks at, what it had not come to.             *)
RemoveDirAll(d) ==
  (IF Free(d) = FilesIn(d) THEN {NoDir} ELSE {}) \cup Remains(d)

(* A link whose name is removed is no link any more.                       *)
KeepLinks == linked' = linked \cap FilesIn(bakTmp')

(* What a directory that was to be new has kept: programs of another       *)
(* package, which this operation does not overwrite; hard links to the     *)
(* programs in place.                                                      *)
Kept(d) ==
  (IF FilesIn(d) \subseteq ProgramFiles[lock] THEN {} ELSE {"leftover"})
  \cup (IF FilesIn(d) \cap linked = {} THEN {} ELSE {"link"})

(* Mutants of AddTo: the old file is removed and not kept; a copy that is  *)
(* there already, perhaps of an earlier operation, is taken for the one to *)
(* make.                                                                   *)
KeepNothing(d, f, v) == d
KeepOldCopy(d, f, v) ==
  IF d.files[f] # Absent /\ v # Absent THEN d
  ELSE [d EXCEPT !.files[f] = v]

AddTo(d, f, v) == [d EXCEPT !.files[f] = v]

(* The operation continues at stage s / goes over its files again.         *)
Goto(s) == op' = [op EXCEPT !.stage = s]
GotoAll(s) == op' = [op EXCEPT !.stage = s, !.todo = op.items]

Holding(s) == lock # Nobody /\ op.stage = s

-----------------------------------------------------------------------------
(* Processes                                                               *)

Init ==
  /\ edition \in Editions
  /\ run = [p \in Procs |-> Absent]
  /\ lock = Nobody
  /\ op = NoOp
  /\ target = [f \in Files |-> IF f \in InitFiles THEN 1 ELSE Absent]
  /\ staged = NoFiles
  /\ bakTmp = NoDir
  /\ linked = {}
  /\ bak = NoDir
  /\ work = NoFiles
  /\ cleaner = [p \in Procs |-> "off"]
  /\ setup = Absent
  /\ base = NoFiles
  /\ spoiled = {}
  /\ ops = 0

(* A process starts from its program file; a window starts the cleanup.    *)
Start(p) ==
  /\ run[p] = Absent
  /\ target[Exe[p]] \in Versions
  /\ run' = [run EXCEPT ![p] = target[Exe[p]]]
  /\ cleaner' = [cleaner EXCEPT ![p] = IF p \in Guis THEN "dir" ELSE "off"]
  /\ UNCHANGED <<lock, op, disk, setup, base, spoiled, ops, edition>>

(* A process without the lock ends; its cleanup thread ends with it.       *)
Exit(p) ==
  /\ run[p] # Absent /\ lock # p
  /\ run' = [run EXCEPT ![p] = Absent]
  /\ cleaner' = [cleaner EXCEPT ![p] = "off"]
  /\ UNCHANGED <<lock, op, disk, setup, base, spoiled, ops, edition>>

Replacing == op.stage \in {"replace", "rename", "undo"}

(* What the end of the process does to the operation it was carrying out:  *)
(* the OS drops the lock and the files stay as they are, the old backup    *)
(* perhaps half removed.  The cached copy is not read again.               *)
Abandon ==
  /\ lock' = Nobody
  /\ op' = NoOp
  /\ work' = NoFiles
  /\ base' = NoFiles
  /\ bak' \in {bak} \cup (IF op.stage = "drop" THEN Remains(bak) ELSE {})
  /\ spoiled' = spoiled
       \cup (IF Replacing THEN {"crash"} ELSE {})
       \cup (IF bak' # bak THEN {"backup"} ELSE {})

(* The process that holds the lock is killed, or the window is closed      *)
(* while its update thread works.                                          *)
Crash(p) ==
  /\ lock = p
  /\ run' = [run EXCEPT ![p] = Absent]
  /\ cleaner' = [cleaner EXCEPT ![p] = "off"]
  /\ Abandon
  /\ UNCHANGED <<target, staged, bakTmp, linked, setup, ops, edition>>

-----------------------------------------------------------------------------
(* apply_update                                                            *)

(* Mutant: the lock is not looked at.                                      *)
BeginWithoutLock(p, v) ==
  /\ run[p] # Absent
  /\ IF p \in Guis THEN v > run[p] ELSE v # run[p]
  /\ lock' = p
  /\ op' = [NoOp EXCEPT !.stage = "download", !.kind = "update", !.new = v,
                        !.label = run[p]]
  /\ base' = target
  /\ ops < MaxOps /\ ops' = ops + 1
  /\ UNCHANGED <<run, disk, cleaner, setup, spoiled, edition>>

(* The lock is free (otherwise the call returns Locked and changes         *)
(* nothing).  A window offers versions above its own APP_VERSION; the CLI  *)
(* also takes --allow-downgrade.                                           *)
BeginUpdate(p, v) ==
  /\ lock = Nobody /\ run[p] # Absent
  /\ IF p \in Guis THEN v > run[p] ELSE v # run[p]
  /\ lock' = p
  /\ op' = [NoOp EXCEPT !.stage = "download", !.kind = "update", !.new = v,
                        !.label = run[p]]
  /\ base' = target
  /\ ops < MaxOps /\ ops' = ops + 1
  /\ UNCHANGED <<run, disk, cleaner, setup, spoiled, edition>>

DownloadAsset ==
  /\ Holding("download")
  /\ \/ Goto(IF edition = "installer" THEN "backup" ELSE "extract")
     \/ Goto("failed")
  /\ UNCHANGED <<run, lock, disk, cleaner, setup, base, spoiled, ops, edition>>

(* install_from_archive: only programs already in the directory, and the   *)
(* running one, are replaced; the package must hold all of them.           *)
Extract ==
  LET targets == {f \in ProgramFiles[lock] :
                    f = Exe[lock] \/ target[f] # Absent}
  IN  /\ Holding("extract")
      /\ \/ /\ work' = [f \in Files |-> IF f \in targets THEN op.new
                                         ELSE Absent]
            /\ op' = [op EXCEPT !.stage = "stage", !.items = targets,
                                !.todo = targets]
         \/ /\ work' = NoFiles
            /\ Goto("failed")
      /\ UNCHANGED <<run, lock, target, staged, bakTmp, linked, bak, cleaner,
                     setup, base, spoiled, ops, edition>>

-----------------------------------------------------------------------------
(* install_files                                                           *)

(* 1. Copy each file next to its target.                                   *)
StageFile(f) ==
  /\ Holding("stage") /\ f \in op.todo
  /\ \/ /\ work[f] # Absent
        /\ staged' = [staged EXCEPT ![f] = work[f]]
        /\ op' = [op EXCEPT !.todo = @ \ {f},
                            !.stage = IF op.todo = {f} THEN "smoke" ELSE "stage"]
     \/ /\ staged' = [staged EXCEPT ![f] = Absent]
        /\ op' = [op EXCEPT !.todo = @ \ {f}, !.stage = "discard"]
  /\ UNCHANGED <<run, lock, target, bakTmp, linked, bak, work, cleaner, setup,
                 base, spoiled, ops, edition>>

(* `new --version' must start and print the new version.                   *)
SmokeTest ==
  /\ Holding("smoke")
  /\ \/ /\ \A f \in op.items \ Scripts : staged[f] = op.new
        /\ Goto("mkbak")
     \/ Goto("discard")
  /\ UNCHANGED <<run, lock, disk, cleaner, setup, base, spoiled, ops, edition>>

(* cleanup_staged before anything was replaced.                            *)
DiscardStaged ==
  /\ Holding("discard")
  /\ staged' = [f \in Files |-> IF f \in op.items \ op.todo THEN Absent
                                ELSE staged[f]]
  /\ Goto("failed")
  /\ UNCHANGED <<run, lock, target, bakTmp, linked, bak, work, cleaner, setup,
                 base, spoiled, ops, edition>>

(* 2. A new backup directory; remove_dir_all may fail, create_dir_all then *)
(* keeps what is there.                                                    *)
MakeBackupDir ==
  /\ Holding("mkbak")
  /\ \E left \in RemoveDirAll(bakTmp) :
       \/ /\ bakTmp' = [left EXCEPT !.there = TRUE]
          /\ spoiled' = spoiled \cup Kept(left)
          /\ GotoAll("replace")
       \/ /\ bakTmp' = left
          /\ Goto("discard")
          /\ UNCHANGED spoiled
  /\ KeepLinks
  /\ UNCHANGED <<run, lock, target, staged, bak, work, cleaner, setup, base,
                 ops, edition>>

(* Mutant: the old file is moved away on Unix too.                         *)
MoveAway(f) ==
  /\ Holding("replace") /\ f \in op.todo
  /\ bakTmp.there /\ bakTmp' = AddTo(bakTmp, f, target[f])
  /\ target' = [target EXCEPT ![f] = Absent]
  /\ op' = [op EXCEPT !.stage = "rename", !.cur = {f}, !.had = @ \cup {f}]
  /\ UNCHANGED <<run, lock, staged, linked, bak, work, cleaner, setup, base,
                 spoiled, ops, edition>>

(* 3. Replace one file after the other.  move_old_to_backup is a rename on *)
(* Windows.  On Unix it is a hard link or, where that fails because there  *)
(* are no links or the name is taken, a copy; a copy onto a link to the    *)
(* file itself empties both.  (Whether a program that runs can be opened   *)
(* for that differs between kernels; where not, the step fails.)           *)
MoveOldToBackup(f) ==
  /\ Holding("replace") /\ f \in op.todo
  /\ \/ /\ target[f] = Absent
        /\ op' = [op EXCEPT !.stage = "rename", !.cur = {f}]
        /\ UNCHANGED <<target, bakTmp, linked>>
     \/ /\ target[f] # Absent /\ bakTmp.there
        /\ \/ /\ f \notin linked
              /\ bakTmp' = AddTo(bakTmp, f, target[f])
              /\ target' = IF Windows THEN [target EXCEPT ![f] = Absent]
                           ELSE target
              /\ linked' \in {linked} \cup
                   (IF Windows \/ bakTmp.files[f] # Absent THEN {}
                    ELSE {linked \cup {f}})
           \/ /\ f \in linked
              /\ bakTmp' = AddTo(bakTmp, f, Empty)
              /\ target' = [target EXCEPT ![f] = Empty]
              /\ UNCHANGED linked
        /\ op' = [op EXCEPT !.stage = "rename", !.cur = {f},
                            !.had = @ \cup {f}]
     \/ /\ target[f] # Absent
        /\ op' = [op EXCEPT !.stage = "undo", !.todo = op.done]
        /\ UNCHANGED <<target, bakTmp, linked>>
  /\ UNCHANGED <<run, lock, staged, bak, work, cleaner, setup, base, spoiled,
                 ops, edition>>

(* Mutants: a rename that failed counts as done; it is tried again without *)
(* end.                                                                    *)
IgnoreFailedRename(f) ==
  /\ Holding("rename") /\ f \in op.cur
  /\ \/ /\ staged[f] # Absent
        /\ target' = [target EXCEPT ![f] = staged[f]]
        /\ staged' = [staged EXCEPT ![f] = Absent]
     \/ UNCHANGED <<target, staged>>
  /\ op' = [op EXCEPT !.stage = IF op.todo = {f} THEN "meta" ELSE "replace",
                      !.todo = @ \ {f}, !.cur = {}, !.done = @ \cup {f}]
  /\ UNCHANGED <<run, lock, bakTmp, linked, bak, work, cleaner, setup, base,
                 spoiled, ops, edition>>
RetryWithoutEnd(f) ==
  /\ Holding("rename") /\ f \in op.cur
  /\ op' = [op EXCEPT !.stage = "replace", !.cur = {}]
  /\ UNCHANGED <<run, lock, disk, cleaner, setup, base, spoiled, ops, edition>>

(* The staged file takes the name of the program file; when that fails     *)
(* (or the staged file is gone) this file and those done are undone.       *)
RenameIntoPlace(f) ==
  /\ Holding("rename") /\ f \in op.cur
  /\ \/ /\ staged[f] # Absent
        /\ target' = [target EXCEPT ![f] = staged[f]]
        /\ staged' = [staged EXCEPT ![f] = Absent]
        /\ linked' = linked \ {f}
        /\ op' = [op EXCEPT !.stage = IF op.todo = {f} THEN "meta"
                                      ELSE "replace",
                            !.todo = @ \ {f}, !.cur = {},
                            !.done = @ \cup {f}]
     \/ /\ op' = [op EXCEPT !.stage = "undo", !.cur = {},
                            !.todo = op.done \cup (op.cur \cap op.had)]
        /\ UNCHANGED <<target, staged, linked>>
  /\ UNCHANGED <<run, lock, bakTmp, bak, work, cleaner, setup, base, spoiled,
                 ops, edition>>

(* A file that was not there before is removed again.                      *)
RemoveNew(f) ==
  /\ Holding("undo") /\ f \in op.todo \ op.had
  /\ \/ /\ target' = [target EXCEPT ![f] = Absent]
        /\ UNCHANGED spoiled
     \/ /\ spoiled' = spoiled \cup {"restore"}
        /\ UNCHANGED target
  /\ op' = [op EXCEPT !.todo = @ \ {f}]
  /\ UNCHANGED <<run, lock, staged, bakTmp, linked, bak, work, cleaner, setup,
                 base, ops, edition>>

(* restore_from_backup on Windows first removes what took the name (when   *)
(* it can: the rename may still replace it).                               *)
RestoreRemove(f) ==
  /\ Windows
  /\ Holding("undo") /\ f \in op.todo \cap op.had
  /\ target[f] # Absent
  /\ target' = [target EXCEPT ![f] = Absent]
  /\ UNCHANGED <<run, lock, op, staged, bakTmp, linked, bak, work, cleaner,
                 setup, base, spoiled, ops, edition>>

(* Mutant: the file that was replaced is not put back.                     *)
SkipRestore(f) ==
  /\ Holding("undo") /\ f \in op.todo \cap op.had
  /\ op' = [op EXCEPT !.todo = @ \ {f}]
  /\ UNCHANGED <<run, lock, disk, cleaner, setup, base, spoiled, ops, edition>>

(* The saved file comes back: a copy renamed over the target on Unix, the  *)
(* saved file itself on Windows.  A failure is ignored.                    *)
RestoreFromBackup(f) ==
  /\ Holding("undo") /\ f \in op.todo \cap op.had
  /\ \/ /\ bakTmp.files[f] # Absent
        /\ target' = [target EXCEPT ![f] = bakTmp.files[f]]
        /\ bakTmp' = IF Windows THEN AddTo(bakTmp, f, Absent) ELSE bakTmp
        /\ linked' = linked \ {f}
        /\ UNCHANGED spoiled
     \/ /\ spoiled' = IF bakTmp.files[f] # Absent
                      THEN spoiled \cup {"restore"} ELSE spoiled
        /\ UNCHANGED <<target, bakTmp, linked>>
  /\ op' = [op EXCEPT !.todo = @ \ {f}]
  /\ UNCHANGED <<run, lock, staged, bak, work, cleaner, setup, base, ops,
                 edition>>

(* All is undone: the staged files and the new backup directory go.        *)
DiscardBackup ==
  /\ Holding("undo") /\ op.todo = {}
  /\ staged' = [f \in Files |-> IF f \in op.items THEN Absent ELSE staged[f]]
  /\ bakTmp' \in RemoveDirAll(bakTmp) /\ KeepLinks
  /\ Goto("failed")
  /\ UNCHANGED <<run, lock, target, bak, work, cleaner, setup, base, spoiled,
                 ops, edition>>

-----------------------------------------------------------------------------
(* finalize_backup: no failure of it is reported.                          *)

AfterBackup == IF op.kind = "update" /\ edition = "installer" THEN "launch"
               ELSE "done"

(* Mutant: the empty file that a failing write leaves is a backup.json.    *)
WriteMetaTorn ==
  /\ Holding("meta")
  /\ \/ UNCHANGED bakTmp
     \/ /\ bakTmp.there
        /\ bakTmp' \in {[bakTmp EXCEPT !.meta = m] : m \in {Empty, op.label}}
  /\ Goto("drop")
  /\ UNCHANGED <<run, lock, target, staged, linked, bak, work, cleaner, setup,
                 base, spoiled, ops, edition>>

(* The write fails before or after it has emptied what was there, or not   *)
(* at all.                                                                 *)
WriteMeta ==
  /\ Holding("meta")
  /\ \/ UNCHANGED bakTmp
     \/ /\ bakTmp.there
        /\ bakTmp' \in {[bakTmp EXCEPT !.meta = m] : m \in {Absent, op.label}}
  /\ Goto("drop")
  /\ UNCHANGED <<run, lock, target, staged, linked, bak, work, cleaner, setup,
                 base, spoiled, ops, edition>>

(* The previous backup is removed or, when that fails, parked under        *)
(* another name (which counts as removed) or left as far as it got.        *)
DropOldBackup ==
  /\ Holding("drop")
  /\ bak' \in {NoDir} \cup Remains(bak)
  /\ spoiled' = IF bak'.there THEN spoiled \cup {"backup"} ELSE spoiled
  /\ Goto("publish")
  /\ UNCHANGED <<run, lock, target, staged, bakTmp, linked, work, cleaner,
                 setup, base, ops, edition>>

(* A directory can take the place of an empty one.                         *)
PublishBackup ==
  /\ Holding("publish")
  /\ \/ /\ bakTmp.there /\ bak \in {NoDir, EmptyDir}
        /\ bak' = bakTmp
        /\ bakTmp' = NoDir
     \/ UNCHANGED <<bak, bakTmp>>
  /\ KeepLinks
  /\ Goto(AfterBackup)
  /\ UNCHANGED <<run, lock, target, staged, work, cleaner, setup, base,
                 spoiled, ops, edition>>

(* The call returns (with Ok or Err) and drops the lock.                   *)
Finish ==
  /\ lock # Nobody /\ op.stage \in {"done", "failed"}
  /\ lock' = Nobody
  /\ op' = NoOp
  /\ work' = NoFiles
  /\ base' = NoFiles
  /\ UNCHANGED <<run, target, staged, bakTmp, linked, bak, cleaner, setup,
                 spoiled, ops, edition>>

-----------------------------------------------------------------------------
(* rollback, of the CLI only.  Without a backup it returns NoBackup and    *)
(* changes nothing.                                                        *)

Saved(p) == {f \in ProgramFiles[p] : bak.files[f] # Absent}

BeginRollback(p) ==
  /\ lock = Nobody /\ run[p] # Absent /\ p \notin Guis
  /\ bak.meta # Absent /\ Saved(p) # {}
  /\ lock' = p
  /\ op' = [NoOp EXCEPT !.stage = "copyback", !.kind = "rollback",
                        !.new = bak.meta, !.label = run[p],
                        !.items = Saved(p), !.todo = Saved(p)]
  /\ base' = target
  /\ ops < MaxOps /\ ops' = ops + 1
  /\ UNCHANGED <<run, disk, cleaner, setup, spoiled, edition>>

CopyBack ==
  /\ Holding("copyback")
  /\ \/ /\ work' = [f \in Files |-> IF f \in op.items THEN bak.files[f]
                                     ELSE Absent]
        /\ Goto("stage")
     \/ /\ Goto("failed")
        /\ UNCHANGED work
  /\ UNCHANGED <<run, lock, target, staged, bakTmp, linked, bak, cleaner, setup,
                 base, spoiled, ops, edition>>

-----------------------------------------------------------------------------
(* The installer edition: backup_before_installer, then launch_installer.  *)

(* Without a directory or a program file to save there is no backup.       *)
BackupBeforeInstaller ==
  LET present == {f \in ProgramFiles[lock] : target[f] # Absent}
  IN  /\ Holding("backup")
      /\ \E left \in RemoveDirAll(bakTmp) :
           \/ /\ present # {}
              /\ bakTmp' = [left EXCEPT !.there = TRUE]
              /\ spoiled' = spoiled \cup Kept(left)
              /\ op' = [op EXCEPT !.stage = "backupcopy", !.todo = present]
           \/ /\ bakTmp' = left
              /\ Goto("launch")
              /\ UNCHANGED spoiled
      /\ KeepLinks
      /\ UNCHANGED <<run, lock, target, staged, bak, work, cleaner, setup,
                     base, ops, edition>>

CopyToBackup(f) ==
  /\ Holding("backupcopy") /\ f \in op.todo
  /\ \/ /\ bakTmp.there
        /\ bakTmp' = AddTo(bakTmp, f, target[f])
        /\ op' = [op EXCEPT !.todo = @ \ {f},
                            !.stage = IF op.todo = {f} THEN "meta" ELSE @]
     \/ /\ bakTmp' \in RemoveDirAll(bakTmp)
        /\ op' = [op EXCEPT !.todo = {}, !.stage = "launch"]
  /\ KeepLinks
  /\ UNCHANGED <<run, lock, target, staged, bak, work, cleaner, setup, base,
                 spoiled, ops, edition>>

LaunchInstaller ==
  /\ Holding("launch")
  /\ \/ /\ setup' = op.new
        /\ Goto("done")
     \/ /\ Goto("failed")
        /\ UNCHANGED setup
  /\ UNCHANGED <<run, lock, disk, cleaner, base, spoiled, ops, edition>>

(* External: the setup program closes MistTerm, ends its processes and     *)
(* installs every program file.  It runs detached and takes no lock.       *)
SetupRuns ==
  /\ setup # Absent
  /\ target' = [f \in Files |-> IF f \in InitFiles THEN setup ELSE target[f]]
  /\ setup' = Absent
  /\ run' = [p \in Procs |-> Absent]
  /\ cleaner' = [p \in Procs |-> "off"]
  /\ Abandon
  /\ UNCHANGED <<staged, bakTmp, linked, ops, edition>>

-----------------------------------------------------------------------------
(* cleanup_after_start, on a thread of each window, without the lock.      *)

Interfere == spoiled' = IF lock # Nobody THEN spoiled \cup {"cleaner"}
                        ELSE spoiled

CleanStaged(p, f) ==
  /\ cleaner[p] = "dir" /\ staged[f] # Absent
  /\ staged' = [staged EXCEPT ![f] = Absent]
  /\ Interfere
  /\ UNCHANGED <<run, lock, op, target, bakTmp, linked, bak, work, cleaner,
                 setup, base, ops, edition>>

CleanBackupTmp(p) ==
  /\ cleaner[p] = "dir" /\ bakTmp.there
  /\ bakTmp' \in RemoveDirAll(bakTmp) /\ KeepLinks
  /\ Interfere
  /\ UNCHANGED <<run, lock, op, target, staged, bak, work, cleaner, setup,
                 base, ops, edition>>

(* The listing of the directory ends; a deletion that failed is ignored.   *)
CleanDirDone(p) ==
  /\ cleaner[p] = "dir"
  /\ cleaner' = [cleaner EXCEPT ![p] = "cache"]
  /\ UNCHANGED <<run, lock, op, disk, setup, base, spoiled, ops, edition>>

(* The caches of versions up to the running one, and the rollback copy.    *)
CleanCache(p) ==
  /\ cleaner[p] = "cache"
  /\ work' \in IF op.kind = "rollback" \/ (op.kind = "update" /\ op.new <= run[p])
               THEN {work, NoFiles} ELSE {work}
  /\ cleaner' = [cleaner EXCEPT ![p] = "off"]
  /\ UNCHANGED <<run, lock, op, target, staged, bakTmp, linked, bak, setup,
                 base, spoiled, ops, edition>>

-----------------------------------------------------------------------------
FileStep(f) ==
  \/ StageFile(f) \/ MoveOldToBackup(f) \/ RenameIntoPlace(f)
  \/ RemoveNew(f) \/ RestoreRemove(f) \/ RestoreFromBackup(f)
  \/ CopyToBackup(f)

(* A step of the update or rollback under way.                             *)
OpStep ==
  \/ DownloadAsset \/ Extract \/ CopyBack \/ SmokeTest \/ DiscardStaged
  \/ MakeBackupDir \/ DiscardBackup \/ WriteMeta \/ DropOldBackup
  \/ PublishBackup \/ BackupBeforeInstaller
  \/ LaunchInstaller \/ Finish
  \/ \E f \in Files : FileStep(f)

Clean(p) ==
  \/ \E f \in Files : CleanStaged(p, f)
  \/ CleanBackupTmp(p) \/ CleanDirDone(p) \/ CleanCache(p)

Next ==
  \/ OpStep
  \/ SetupRuns
  \/ \E p \in Procs :
       \/ Start(p) \/ Exit(p) \/ Crash(p) \/ Clean(p)
       \/ BeginRollback(p)
       \/ \E v \in Versions : BeginUpdate(p, v)

Spec == Init /\ [][Next]_vars

(* The thread of an operation runs: every wait in it has a limit (the      *)
(* download timeouts, 20 s for the smoke test, 10 s in retry_busy).        *)
FairSpec == Spec /\ WF_vars(OpStep)
-----------------------------------------------------------------------------
(* Properties                                                              *)

(* On Unix no step, crash or cleanup ever leaves the directory without one *)
(* of the programs the user unpacked, or with an empty one: the old file   *)
(* keeps its name until the new one is renamed over it.  The exception is  *)
(* a new backup directory that kept a hard link to a program in place.     *)
NoProgramLost ==
  edition = "unix" /\ "link" \notin spoiled =>
    \A f \in InitFiles : target[f] \in Versions

(* On Windows the old file leaves its name for a while; unless a crash, a  *)
(* window that starts or a second failure interfered, it is then in the    *)
(* new backup directory.                                                   *)
LostOnlyBySpoiling ==
  spoiled \cap {"cleaner", "crash", "restore"} = {} =>
    \A f \in InitFiles : target[f] # Absent \/ bakTmp.files[f] # Absent

(* apply.rs, "any failing step puts back the files already replaced": an   *)
(* update or rollback that returns an error leaves every program file as   *)
(* it found it, also after a crash and beside what was left of one; not    *)
(* when putting back fails too, or a cleanup removed the saved files.      *)
FailureRestores ==
  op.stage = "failed" /\ spoiled \cap {"cleaner", "restore", "link"} = {} =>
    target = base

(* An update that returns Ok has installed the announced version of every  *)
(* file it replaced, a rollback the version of the backup, whatever        *)
(* accidents happened before or meanwhile.  Only a script of a backup that *)
(* an accident mixed may be of another version: it has no smoke test.      *)
SuccessInstalls ==
  op.stage = "done" /\ op.done # {} =>
    \A f \in op.items :
      f \notin Scripts \/ op.kind = "update" \/ spoiled = {} =>
        target[f] = op.new

(* The backup published by finalize_backup holds all the files the         *)
(* operation replaced (all that are installed, before a setup program is   *)
(* launched) as they were when it began, even beside what was left of      *)
(* another operation; and, until an accident, no file of another version.  *)
ToSave ==
  IF edition = "installer" /\ op.kind = "update"
  THEN {f \in ProgramFiles[lock] : base[f] # Absent}
  ELSE {f \in op.done : base[f] # Absent}
BackupIsPrevious ==
  [][op.stage = "publish" /\ bak' # bak =>
       /\ spoiled \cap {"cleaner", "link"} = {} =>
            \A f \in ToSave : bak'.files[f] = base[f]
       /\ spoiled = {} =>
            \A f \in Files : bak'.files[f] \in {Absent, base[f]}]_vars

(* An operation gives the lock back.                                       *)
LockReleased == lock # Nobody ~> lock = Nobody

(* The refinement of ProgramSet by each package: until the last file is in *)
(* place the set counts as the version it had when the operation began.    *)
Current == IF Replacing THEN base ELSE target
Programs(p) == ProgramFiles[p] \cap InitFiles
Common(p) == {v \in Versions : \A f \in Programs(p) : Current[f] = v}
SetVersion(p) ==
  IF spoiled # {} THEN Absent
  ELSE IF Common(p) = {} THEN MaxVersion + 1
  ELSE CHOOSE v \in Common(p) : TRUE
SetPhase ==
  CASE lock = Nobody -> "idle"
    [] op.stage \in {"meta", "drop", "publish", "done"} /\ op.done # {} ->
         "committed"
    [] OTHER -> "working"

Abstract(p) ==
  INSTANCE ProgramSet WITH version <- SetVersion(p), phase <- SetPhase
ImplementsProgramSet ==
  /\ \A p \in Procs : Abstract(p)!SetInit
  /\ [][\A p \in Procs : Abstract(p)!SetStep]_vars
=============================================================================
