# TLA+ models of MistTerm

MistTerm is a desktop SSH terminal written in Rust (`src/src/`: `ui/` the
window, `ssh/` the sessions, `core/` the rest, `cli/` the program `mist`).
This directory holds TLA+ models of its parts, TLC configurations that check
them on small instances, and proofs, checked by TLAPS, of what can be proved
for every instance.  Definitions are translated from the source; `PROJECT.json`
maps each of them to the lines it stands for.

    tlc -workers 2 -config pump.cfg ShellPump      model-check one run
    tlapm ShellPumpProofs.tla                      check the proofs of a module

## 1. The system and its parts

MistTerm is one process per window plus short-lived `mist` commands.  A window
has one UI thread that draws frames (`app.rs`, `update`); everything slow runs
in threads of its own that report through channels polled by the frames.
Several processes share the configuration directory and the installation
directory, with one OS file lock (`update.lock`) and otherwise none.

| Part | State | Operations | Hard behaviour | What makes it correct | Modules |
|---|---|---|---|---|---|
| Updater: installer (`core/updater/apply.rs`, `lock.rs`) | program files, staged files, `.mist-update-backup[.tmp]`, the lock | update, roll back, back up for the setup program, clean up at start | failing renames, crashes, a cleanup without the lock, two editions in one directory | no program is lost, a failed update restores, a backup is the previous set, the lock comes back | `UpdateInstall`, `ProgramSet`, proofs |
| Updater: state file (`state.rs`) | `update-state.json`, its one temporary file | load, change, save by check, install, rollback, skip, cleanup | overlapping savers, crash in a save | versions seen never fall, skip and pending marks stay, the id is stable | `UpdateState`, proofs |
| Updater: window (`ui/app_update.rs`) | phase, found update, one task and channel, flags, cancel flag | clicks, check, background download, install, toast, messages | late answers, a click during a download, a thread that dies | dialog, flags and thread agree; waits are answered; installs were asked for | `UpdateUi`, proofs |
| Updater: manifest, signature, download (`check.rs`, `verify.rs`, `fetch.rs`, …) | – | fetch, verify, decide | – | older manifests are refused | the decision, in `UpdateState` |
| SSH session: shell pump (`ssh/manager.rs`) | three bounded queues, commands merged and put aside, the write under way | send, interrupt, resize, exec; read, merge, write, end | senders against the pump, blocked and failing writes, EOF in the middle | inputs in order, interrupts pass, callers answered, the tab learns of the end, the thread ends | `ShellPump`, `OrderedFeed`, proofs |
| SSH session: connecting (`client.rs`, `jump.rs`, …) | one thread per connection | connect, authenticate | time limits | success or an error is reported | one action of `SshTab` |
| SSH tab and reconnection (`ui/terminal.rs`, `ui/app.rs`, `core/reconnect.rs`) | connection fields, offline input and its dialog, retry plan, notice | frame by frame: retries, notices, messages, clicks, foreground | several messages per frame, clicks between loss and notice, view replaced | no attempt disturbed, the user's offline input respected, nothing hangs | `SshTab`, proofs |
| File transfer (`ui/sftp_panel.rs`, `ui/sftp_xfer.rs`, `ui/sftp_diff_ui.rs`, `ssh/manager.rs`) | transfer queue, comparison view, one job channel, one cancel flag per job, the pumps' jobs | push, take, cancel, retry, compare, synchronise, finish, fail all; switch, close, lose, reconnect tabs | answers of a lost session, jobs refused by a full pump, a panel shared by all tabs | one runs at a time, what is given up is told to stop, each item and each comparison ends | `TransferQueue`, proofs |
| Host sync (`core/host_sync.rs`, `ui/app.rs`) | sessions, last document, password stamps, the server's document and envelope with their ETags | merge, exchange, apply, save | concurrent devices, 409/412/428, lost answers, a crash between two saves | convergence, no resurrection, no newer change lost | `HostMerge`, `HostSync`, proofs |
| Everything else | | | | | not modelled, section 6 |

How the parts interact.

* The tab (`SshTab`) starts a connection thread; when that reports `Connected`
  the tab opens a shell and with it the pump (`ShellPump`).  The pump's only
  effects on the tab are the messages `Error` and `Disconnected`; `ShellEnds` in
  `SshTab` sends exactly the sequences of them that `ShellPump` allows (the end may be
  seen by a read in the middle of a write and again by the idle read).  The tab
  holds the pump by the session handle: when it is dropped (`DropHandle`) the pump
  ends.
* The file panel hands its jobs to the pump of the session it shows.  A pump does
  one job at a time, between its dispatches, and drops the ones it holds when it
  ends; this is how the pumps appear in `TransferQueue` (`JobEnds`, `PumpEnds`).
* The window of the updater (`UpdateUi`) runs the installer (`UpdateInstall`) in its
  thread; the check, the installer and the Skip button write the state file
  (`UpdateState`).
* Account sync runs in a thread of its own on a copy of the sessions; the window
  applies the outcome in a later frame.  Devices meet at the server only.

## 2. Modules

| Module | Role |
|---|---|
| `UpdateInstall` | the installer, lock, rollback, setup program, cleanup at start |
| `ProgramSet` | what the installer promises: the programs are one set of one version that changes atomically or not at all |
| `UpdateState` | the state file down to open, write and rename |
| `UpdateUi` | the window's side of the updater |
| `ShellPump` | the pump thread, its queues, the channel |
| `OrderedFeed` | what the pump promises of keys: written in order, at most once |
| `SshTab` | one tab, its frames, retries, connection threads |
| `TransferQueue` | the file panel, its queue and comparison view, the pumps that carry out its jobs, the tabs it follows |
| `HostMerge` | host documents and passwords: the pure functions of a sync |
| `HostSync` | devices, their users and syncs, and the server |
| `MC…` | instances for TLC; `ShellPump` and `SshTab` have numbers only and need none |
| `UpdateInstallProofs`, `UpdateStateProofs`, `UpdateUiProofs`, `ShellPumpProofs`, `ShellFeedProofs`, `SshTabProofs`, `TransferQueueProofs`, `HostSyncProofs` | theorems (section 5) |

### UpdateInstall
A file is the version of its content (0: no file, -1: an empty file).  The holder of the lock is
the only process inside `install_files`, so its locals are one record `op`
whose `stage` walks through the calls: `download`, `extract`, `stage`,
`smoke`, `mkbak`, `replace`/`rename` per file, `undo` after a failure, `meta`,
`drop`, `publish`.  Each file operation is an action that may fail.
`remove_dir_all` may on every system stop halfway or do nothing (`RemoveDirAll`,
`Remains`), which no caller looks at: `create_dir_all` then keeps what is there,
and the old version number with it.  Windows also refuses to delete the
image of a running process (`InUse`).  `linked` are the files of the new backup
directory that are hard links to the program in place: `fs::copy` onto one
empties both.  `Crash` can strike in every stage.
`Clean*` is `cleanup_after_start`, which takes no lock.  The variable `edition`
is chosen by `Init` and never changes: it says which branches of the code apply.
The history variable `spoiled` names the accidents so far, and each property excepts
only those from which the code does not protect: a crash while files are replaced
(`crash`), a cleanup during an operation (`cleaner`), a saved file that could not be
put back or a new one not removed (`restore`), an old backup that was left half removed
(`backup`), and two of a new backup directory that was not new: it kept programs of the
other Linux package, which the operation does not overwrite (`leftover`), or hard links
to programs in place (`link`).  What is kept of the operation's own package is no
accident; `FailureRestores` and `BackupIsPrevious` hold beside it.

### UpdateState
`File` is what a load would see.  A job loads, changes its copy, writes the one
temporary file of the directory (an inode that two savers can share) and
renames it.  Jobs: the window's check (which saves a new client id before it
fetches), the command line's check, a finished install or rollback, the
cleanup and the skip.

### UpdateUi
One action is one message taken by a frame, or one click.  The worker thread is
`Work`; a message carries its version and the plan for it.  `WorkerDies` closes the
channel without an answer.  `asked`, `stopped` and `died` are history.

### ShellPump
One action is one `try_recv`, one read or one write of the pump thread; the
senders, the remote host and the network act between any two.  `cur` is the
command taken (with what was merged into it), `other` and `deferred` the two
places where a command is put aside, `rest` what is left of the current write.
Chunks are opaque and carry the number of their acceptance.  Sizes count up; the window
drops one that finds the queue full, and `request_pty_size` may fail for any of those
drained, which is only logged (`Requested`).  `missed` is history: the newest size that was
dropped or refused.  `SizeApplied` promises the newest size unless it is that one.

### SshTab
`turn` is the part of the frame that comes next: due retries, the notice of a
lost session, messages (as many as the budget allows), one thing the user
does, the return to the foreground, the order of `update` in `app.rs`.  The
connection threads and the clock act in between.

### TransferQueue
There is one panel for all tabs.  A slot is a job together with its answer
channel and its cancel flag, so `rx`, `prog` (the progress channel), `cancel` and
`diff.flag` are slots: two of them that name the same slot share the job.  A slot
that nothing names and no pump holds is forgotten (`Abandon`), which is the
dropping of an `Arc`.  The panel's frame has the parts `open`
(reset for another tab), `result` (progress, answer), `gate` (is there a session),
`act` (buttons of the panel), `kick` (start the next transfer), `strip` (buttons of
the transfer strip) and `rest` (the tabs: switch, close, disconnect, lose,
reconnect).  A connection is a terminal and a number, so a job given to an old
session stays with the old pump.  `meant` and `on` say for which host a transfer
was put into the queue and on which it runs.

### HostMerge and HostSync
A document maps an id to the records listed under it, in order: the code keeps a
sorted array in which an id can occur twice, and reads the first or the last
of them in different places.  The id of a conflict copy is the id with the stamp
appended.  `Merge`, `LocalView` and `UploadView` are the three merges; `AfterHosts`
and `AfterSecrets` turn the outcome into sessions.

A sync is a job with stages `get`, `put`, `put2` (after a 409), `force` (after 412 or
428, with `If-Match: *`), the same for passwords, `done`.  The server is external: it
stores a write whose `If-Match` names what it keeps, and refuses any other.  An ETag
stands for the very copy it was served with and is represented by that copy.
Faults: a request fails (`Fail`), a stored write's answer is lost (`LoseAnswer`), the
program ends (`Crash`, also between the two saves of `Apply`), a user who has only the
recovery code (`recovery`).  `typed` (the stamps of the newest changes) and `lost` (an
outcome undid a change) are history.

## 3. Runs

| Run | Shows | Instance |
|---|---|---|
| `install` | updates that fail, crash or race with a cleanup lose no program, unless an accident named in `spoiled` happened; a failed operation restores, a success installs one version; the backup is the previous set, also beside what a failing removal left; the lock comes back; each package implements `ProgramSet` | 1 window, 1 command, the three editions (on Linux with a package each), 2 files, 2 versions, 2 operations |
| `state_one_thread` | one saver at a time, failing or dying anywhere, loses nothing saved | 2 versions, 2 dates, 2 inodes |
| `state_seen_falls` | *finding*: two savers lower the highest version seen | 2 threads, 3 inodes |
| `ui` | clicks, frames, toasts and the worker in any order keep dialog, flags and thread together; waits end | 2 versions, 3 offers, one for each kind of plan |
| `pump` | inputs in order (`OrderedFeed`), interrupts pass, all output before the end, the end is told, callers answered, the newest size applied unless dropped or refused, the thread ends | queue 2, merge 2, read 2, 3 commands, 1 interrupt, 2 sizes for a queue of 1, 2 chunks of output |
| `tab` | one tab through connections, failures, losses, retries and clicks | limit 2, offline buffer 2 |
| `tab_manual` | *finding*: a manual disconnect is followed by a reconnection | limit 2 |
| `sync_hosts` | all devices come to show the newest change of each host; a deleted host (conflict copies apart) stays deleted | 2 devices, 1 host, 2 values, 3 seconds, 2 changes, 1 fault of any kind |
| `sync_creds` | each device comes to have the password of the envelope, or ties with it | 2 devices, 1 host, 2 passwords, 2 seconds, 1 change, 1 fault |
| `sync_in_flight` | *finding*: a change made during a sync is replaced by the older state | 3 changes |
| `transfers` | one worker; transfers and comparisons end | 2 tabs, 2 slots, 2 connections each, 2 transfers, 2 clicks in the panel, 1 event, 1 refusal |
| `xfer_other_host` | *finding*: a transfer runs on another host than it was meant for | 2 events |

**Bounds and why they suffice.**  Two processes are enough for every race in
the installation directory, because the lock admits one operation and only the
cleanup runs beside it; two files show a failure after one replacement and
before another; two operations show a backup that replaces a backup, and a
rollback of what was just installed.  In the state file two savers race and
two versions can go up and down.  In the pump a merge cap of 2 in a queue of 2
with 3 commands reaches: a full queue, a full merge, a command put aside at
either place and later ones that come in while it waits; one interrupt
at a time can be refilled only after it is taken, two sizes overfill their queue of
one or are applied one after the other, and a read cap of 2 with 2
chunks shows a read that stops at its cap.  In `SshTab` no counter but the buffer
and the attempts is bounded and the whole state space is finite.

Hosts do not depend on each other in a sync (each id is merged alone, and
`MergeCommutes` is proved for any number), so one host is enough; conflict copies add
ids of their own.  Three seconds and two changes after the first give a change and
a deletion on different devices in either order or in the same second.  Two
devices show every order of two exchanges, and one fault each case of the
fault model.  `MaxTies = 0` lets no sync begin after a tie: `Converges` and
`PasswordsConverge` speak of runs without ties only, and conflict copies of conflict
copies make the state space infinite (section 4).

In `transfers` two tabs and one event show the loss, the change, the closing or
the hiding of the session's tab in any part of a job, two transfers show one that
waits while another runs, two slots a job given up beside the one awaited.  A
second event is needed for `xfer_other_host`.

Bounds of the models, none of the code: `MaxOps`, `MaxSent`, `MaxInterrupts`,
`MaxResizes`, `MaxInbound`, `MaxStalls`, `MaxIds`, `Inodes`, `MaxClock`, `MaxEdits`,
`MaxFaults`, `MaxTies`, `Slots`, `MaxConns`, `MaxPushes`, `MaxEvents`, `MaxRefusals`.
`QueueCap`, `MergeCap`, `ReadCap`, `InterruptCap`, `ResizeCap`, `Max`, `OfflineCap` are the
code's constants made small.

`CHECK_DEADLOCK FALSE` appears where a system really stops: a closed window
(`ui`), a pump that has returned (`pump`), a directory in which the permitted
operations have been used up (`install`), devices that may not sync after a tie
(`sync_*`).  The other runs check for deadlock.

**Fairness.**
* `UpdateInstall`: weak fairness of the operation's steps.  Its thread is
  scheduled and each wait in it is limited (download timeouts, 20 s smoke
  test, 10 s `retry_busy`).  Nothing is assumed of users, crashes or cleanups.
* `UpdateUi`: the frames poll (`request_repaint_after`, at most a second), and
  the worker's calls return.
* `ShellPump`: the pump's thread runs and each of its calls returns (reads and
  writes do not block, an exec has a time limit).  Nothing is assumed of the
  senders or the remote host.  That an exec is answered and the thread ends is
  shown for finitely many commands: an unending stream of commands keeps
  the dispatch loop from returning to its head.
* `SshTab`: frames follow frames, the delay of a retry passes, a connection
  attempt ends (`CONNECT_TIMEOUT`, `jump.rs:15`).  Nothing is assumed of the user
  or the shell.
* `TransferQueue`: frames follow frames; a job ends, since its calls on the session
  have a timeout (`SessionBlockingGuard`); the message of an ended pump is taken
  by a tab that goes on existing (strong fairness, because it can be taken in
  one part of the frame only).  Nothing is assumed of the user; pumps may end at any time or
  never.
* `HostSync`: each device goes on syncing: one sync after another is started (the
  interval of automatic sync, or the user) and its requests return or time out.
  Nothing is assumed of users, faults or the clock.

**What the passing runs say of the hazards** is listed in `PROJECT.json`
(`hazards`, each at its line with the properties that watch it).  For each
property a mutant, a plausible slip in a mapped definition kept beside it in
the module, is known to violate it.

## 4. Disagreements between code and documents

With a run that shows them:

1. `state.rs:52`: the highest version seen can fall when two savers overlap
   (`state_seen_falls`; `state.rs:80` "only moves up").
2. `terminal.rs:5261`: a manual disconnect leaves the retry plan and the notice
   in place (`tab_manual`; `FUNCTIONAL_SPEC.md:149`).
3. `app.rs:2807`: the outcome of a sync replaces what the user changed while it ran
   (`sync_in_flight`; `SECURITY.md:85` "the newer updated_at wins").
4. `workspace.rs:189`: the file panel knows its tab by the index, which the next tab
   takes over when one is closed: waiting transfers run on the other host
   (`xfer_other_host`; `workspace.rs:187`).

Seen while modelling, without a run of their own:

*Updater.*
* `apply.rs:740`: the cleanup of a window that starts deletes staged files and
  the backup under construction of an update in another process; on Windows
  the only copy of the old program is there (`apply.rs:10` promises that a failing
  step restores).  The properties of `install` except it by `spoiled`.
* `apply.rs:501`: when the removal of an old `.mist-update-backup.tmp` fails, its files stay
  (`create_dir_all`).  Those of the same package are overwritten and do no harm.  But `Mist`
  and `mist` on Linux replace different files in one directory: the update of one publishes
  what a crashed update of the other left, at its old version and under the new label, and
  a rollback of the other package then finds files of the wrong version.  And where what was left is
  a hard link to the program in place (`apply.rs:658`), `hard_link` fails because the name is
  taken, and `fs::copy` truncates the program and its backup.  The properties except these two by
  `leftover` and `link` in `spoiled`.
* `apply.rs:156`: a backup is labelled with the version of a long-running window instead
  of the files'; a rollback to it fails.
* `app_update.rs:620`: `Skip` leaves a queued install, which installs the skipped version.

*Sessions.*
* `manager.rs:929`: a ZMODEM write that ends a merge is written after commands
  accepted later (`manager.rs:206` "the same FIFO").
* `app.rs:9839`: a failed retry plans no other (`UI-GUIDELINES.md:333` "up to 5 times").
* `app.rs:9808`: only the active pane's retries run.
* `terminal.rs:3347`: a shell that cannot be started leaves the tab connected without one;
  `:3790`: `Send` after the pump has ended loses the input; `:5200`: a size dropped by a
  full queue is not sent again (`manager.rs:270` "the next frame sends the newest size again",
  but `sync_pty_size_with_ui` compares with the size noted before), nor is one that
  `request_pty_size` refuses (`manager.rs:851`); `SizeApplied` excepts both by `missed`; `:5339`: an error hides the banner of a lost session.

*File transfer.*
* A hidden panel polls no answer: the transfer goes on and its fate stays untold until
  the panel is shown (`SFTP-UPGRADE.md:95`).
* Cancel or Back in the moment after a preparation ended and before its
  answer is taken still copies the batch (`SFTP-UPGRADE.md:168`, `:178`).
* The view of a synchronisation stays at "syncing" when the pump refuses the last
  copy of its batch (`Spent` in `ComparisonEnds`).
* The panes of a split tab share the panel, which is not reset between them.

*Host sync.*
* Ties (same second, different content) never settle: later syncs make conflict
  copies again, and copies of copies.
* When the answer to the very first upload is lost and the host is deleted
  before the next sync, the device has no document that says so: the host comes back.
* A deletion is stamped with the time of the sync, not of the click, and so beats
  changes made elsewhere in between.
* A device on which the sync of passwords is switched on when its hosts have none yet
  (`""`, stamped with the host's time) wipes the passwords of the envelope, or ties with
  them; a password and `""` that tie are never delivered.
* The import of a portable package adds a host again that was deleted elsewhere.

*Team service.*  `service.rs:386`: a config sync that is refused because a job runs is
not made up for.

## 5. Proofs

Assumptions: `InstallAssumption`, `StateAssumption`, `UiAssumption`,
`PumpAssumption`, `TabAssumption`, `TransferAssumption` and `SyncAssumption`, the types of the
constants (and that capacities are positive); `PackagesAssumption`, that processes are started
from files that are there and that two builds have the same program files, or on Linux none in
common (`program_files`, `apply.rs:37`); the theorems about `UpdateState` named below add
`OneThread`, that one thread at a time changes the file.  Everything else is
proved.  Each module has one lemma per action, a lemma for stuttering, and a
final temporal step for each theorem.

`UpdateInstallProofs`, for any sets of processes and files, any editions and
packages and any number of operations:
* `TypeCorrect`: `Spec => []TypeOK`.
* `ProgramsSaved` (`LostOnlyBySpoiling`) and `ProgramsStay` (`NoProgramLost`).  Neither is
  inductive: that a program missing from its name is in the backup depends on
  what `install_files` remembers.  The inductive invariant `IInv` adds `KnowsOld` (one
  file at a time is on its way, and the operation knows which files were there
  before), `BackedUp` (every file known to have been there is in the backup
  directory until it is put back), `MissingIsSaved` and `NeverMissing` (on Unix a name is never
  free).  That no program is emptied needs `Links`: as long as no kept link was
  overwritten, the only link in the new backup is that of the file on its way, and nothing
  is empty anywhere.
* `FailuresRestore` (`FailureRestores`).  A second invariant `JInv` on top of these
  follows the contents: `Locals` (which items are done, current and to do in each stage),
  `AsItWas` (files not gone over are as at the start), `SavedOrNew` (what is saved is
  what was there, and what was not saved did not exist) and `SavedBySetup` (the same for the
  copies made before a setup program).  It asks of the accidents only that none touched
  the saved files of this operation (`Calm`) and that no undo failed (`Undone`); so it holds after
  crashes and beside what they left.
* `OperationsInstall` (`SuccessInstalls`), `BackupsArePrevious`
  (`BackupIsPrevious`) and `InstallIsOneStep` (`ImplementsProgramSet`) rest on a third invariant
  `KInv`.  `Fresh` follows the announced version from the package or the backup to the cache, the
  staged files and their places; it needs no assumption about accidents, because the smoke test
  stands between (a script has none, hence `Tested`).  The first part of `BackupIsPrevious`, that
  the backup holds all that was replaced, follows from `JInv`; the second, that it holds nothing
  older, and the refinement need that a package is of one version wherever it lies:
  `Whole` (the programs of a package in place, in the backup and at the
  start of the operation are of one version), `Leftover` (what is left in an old
  `.mist-update-backup.tmp` are programs), `Ours` (an operation goes over its whole package) and
  `Saving` (the new backup holds the old package and nothing else; `NewDirIsOurs`: what a
  failing removal kept of another package is an accident, and what it kept of the own
  package is overwritten).  It is not enough to
  follow one operation: a rollback is right because the backup it takes was right
  when an earlier operation published it.  `OnlyPublished` says that in the stage `publish` nothing
  but `PublishBackup` changes the backup.
* For the refinement two more facts are read off `KInv`: the version of the set is that of
  the program a process is started from (`OneVersion`), and the phase of `ProgramSet` follows the
  stage (`PhaseAgrees`).  Every step then is one of the abstract steps or a stutter; the step that
  moves the set is the one that puts the last file in its place.

`UpdateStateProofs`, for any versions and dates:
* `StateTypes`: `Spec => []TypeOK`, with any number of threads.
* Under `OneThread`: `SeenIsKept` (`SeenNeverFalls`), `ClientIdIsKept` (`ClientIdStable`),
  `DecisionsAreKept` (`DecisionsKept`).  The invariant `Alone` says that the copy in memory
  differs from the file on disk only in what the thread's job may change, and that
  a temporary file that is renamed holds that copy.  Without `OneThread` the first
  is false: that is the run `state_seen_falls`.

`UpdateUiProofs`, for any offers: `UiTypes` (`TypeOK`), `UiAgrees` (`FlagsAgree`),
`CancelFits` (`CancelIsForThisTask`), `InstallWasAsked` (`InstallAsked`).  The invariant adds
`MailOK`: which messages can be in the channel for which task and state of the
thread; from it follows which answer can arrive in which phase.

`ShellPumpProofs`, for queues, caps and limits of any size: `PumpTypeCorrect`
(`TypeOK`), `PumpEndTold` (`NoSilentEnd`), `OutputFirst` (`AllOutputFirst`),
`InterruptPasses` (`InterruptSoon`).  The invariant adds `AtHand` (where
a command is prepared there is one, where the pump writes there are bytes, and
a write that returns to a dispatch left the command untouched), `ToldOfEnd` (the end is
told only of a channel that has ended and has nothing left to read; therefore no
later read succeeds, since a read takes at least one chunk) and
`OvertakenOnce` (a command past the last look at the interrupts began when
none waited, so it is the only one that can overtake).  `ExecsAreKept` is the safety half of
`ExecAnswered`: a one-off command that is not answered is in the queue, in the pump's hand or
put aside.  Its invariant `KindsFit` says which kinds of command each step of the loop can hold
(only input is merged into one write, the two places where `ssh/manager.rs` puts a command aside are
empty before one is put there).

`ShellFeedProofs`, for the same constants: `PumpIsOrderedFeed` (`ImplementsFeed`), the refinement of
`OrderedFeed`.  The invariant adds `Places` (where the loop can hold keys at each step, and that a
chunk under way holds nothing but keys or none) and
`Sorted` (each place holds its keys in the order they were accepted, and everything in one place is
older than everything in the next).

`SshTabProofs`, for any limit of retries and size of the offline buffer:
`TabTypes` (`TypeOK`), `AttemptLeftAlone` (`AttemptUndisturbed`), `OfflineInputKept`
(`OfflineKept`).  The invariant adds `IntentHasNoManager`: whoever ends a session
lets go of its manager, which is why the message of that end cannot take
a later connection for the one that ended.

`TransferQueueProofs`, for any tabs, connections, slots and bounds:
`TransferTypes` (`TypeOK`), `OneWorkerAtATime` (`OneWorker`).  The invariant adds `Waiting`: the
flag of the queue belongs to an awaited transfer, the flag of the comparison to
an awaited scan or preparation, and the view is in the phase of that job.
Two more invariants give results that no run states (TLC checked both invariants on instances
like that of `transfers` before they were proved):
* `Held`: a job without an answer stands in exactly one queue, once, and that queue belongs to the
  terminal it was given to.  From it follow `NoAnswerIsLost` (what the panel waits for has its
  answer, or a pump has the job: the safety half of `TransfersEnd` and `ComparisonEnds`) and
  `JobsAreDoneOnce`.
* `HostsAgree`: within a frame the remembered tab is the one shown, and everything there is to
  transfer is meant for its host.  It holds through switches, losses and reconnections as long as
  no tab is closed, which is the second hypothesis of `TransfersKeepHost`; with a closed tab
  it fails, as the run `xfer_other_host` shows.  So the renumbering of tabs is the
  only way to that finding.

`HostSyncProofs`, first of the merges, for any documents and sets of passwords: `MergeIsDocument`;
`MergeKeepsNewest` (no host is lost, and no record becomes older); `MergeCommutes` and
`MergeAbsorbs` (two devices that merge with each other agree, and merging again
changes nothing, on every host of which no two changes tie);
`NewestPasswordKept`.  No run states these; `Converges` rests on them.
Where the code takes the first record that fits, the models take the least position
(`First`), which exists because `<` is well-founded (`FirstIsLeast`).

Then of the whole protocol, for any number of devices, hosts, changes, ties and faults:
* `SyncTypeCorrect`: `Spec => []TypeOK`.
* `DeletedStaysDeleted` (`NoResurrection`).  The inductive invariant `SyncInv` adds: documents,
  envelopes, sessions and stamps are *sound* (ids are those of hosts that
  users made or of conflict copies, and no stamp lies in the future: so a deletion found now is
  not older than the one known); no session of a device is older than a deletion the device
  knows (`Respects`); and every job, whatever the server answered, still *carries* the
  deletions of the device from its local document to the outcome (`Carries`), also after the
  answers that end in `If-Match: *`.  A crash between the two saves of `Apply` preserves this because the
  sessions are saved before the document they agree with.
  The theorem and the run are about ids that are not conflict copies: where the same two changes tie
  again, their copy is made again with the stamp it had, although it was deleted in between.
* `IfMatchProtects`: the server's document loses no host and falls back to no older state of one,
  except in a step in which a device stores with `If-Match: *` (after 412 or 428).
  That exception is the code's; the hazard is at `host_sync.rs:1675`.
* `EnvelopeIsSafe`: the envelope of passwords never does, without exception.
  Both rest on `MergedInv`: what waits to be stored is as new as the copy whose ETag it names.

**Only model-checked.**  Liveness (`LockReleased`, `CheckAnswered`,
`QueuedInstallBegins`, `ExecAnswered`, `PumpEnds`, `SizeApplied`, `RetryComes`, `EndIsSeen`,
`ConnectingEnds`, `TransfersEnd`, `ComparisonEnds`, `Converges`, `PasswordsConverge`): fairness and
ENABLED are beyond the provers; of `ExecAnswered` and `TransfersEnd` the safety half is proved
(above).  Every invariant and every action property of a passing run is proved.

## 6. Not modelled

Within the modelled parts:
* Installer: the swap of the macOS bundle (`install_mac_app`), archive formats,
  checksums and mirrors (success or failure), power loss with unflushed
  writes, names that differ in case only.
* State file: `last_check_unix`, which nothing reads for a decision.
* Updater window: layout, wording, progress; the preferences window.
* Pump: the upload bypass and direct reads of ZMODEM uploads, resizes held back
  during them, the text of command lines, what exec and session jobs do.
  The dialog's branch for nothing to send and the error branch of `connect` are dead
  code and have no action.
* Tab: split panes, local shells, host-key trust, the command run after a
  connection.
* File transfer: bytes, paths, resumption and verification, the question before a file is
  overwritten, the jobs for one file or tree (rename, delete, edit), split tabs.
  SCP and ZMODEM are one thread that copies; their state is in the vendored codec.
* Host sync: the vault (merged by the same rules), sealing and opening the
  envelope beyond its success or failure, tokens, HTTP, portable packages.  A save of the
  sessions that fails while the program goes on is not among the faults:
  `SessionManager::save` (`session.rs:804`) only logs it, and the window saves the newer
  document all the same (`app.rs:2833`), so after a restart old sessions meet a newer
  document and look like changes.  `Converges`, `NoResurrection` and what is proved of them do
  not speak of that case (a crash between the two saves is modelled).

Parts left out as a whole, because what is hard in them is not control:
* Port forwarding (`ssh/port_forward.rs`, `socks_proxy.rs`): a thread per listener with a
  stop flag; its risks are in sockets and in the blocking of libssh2.
* Team service (`core/team/`): one background job whose result the frame polls, the
  shape of `UpdateUi`; what it adds are REST calls and a cache.
* Batch and interactive execution, agent: one worker that visits hosts or steps one
  after the other, with one stop flag and a question to the user between
  steps; deciding which command is dangerous is text analysis with unit tests.
* Command audit and session log: appending to files, classifying lines.
* Send sequence: a schedule computed beforehand.
* Sessions, credentials, vault, settings: sequential load and save of encrypted
  files, by one process.
* Terminal emulation, monitor, fragments, knowledge, market: parsing and
  searching text in one thread.
* User interface and platform: layout, fonts, menus, notifications.  Most of the
  repository's lines are here, so the modules map a small share of them.
