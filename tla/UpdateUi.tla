------------------------------ MODULE UpdateUi ------------------------------
(***************************************************************************)
(* The updater of a GUI window (src/src/ui/app_update.rs): the phase shown *)
(* by the Software Update dialog, the one channel to a background thread   *)
(* (a check, an install or a background download), the toast that tells of *)
(* a new version, and the clicks of the user.                              *)
(*                                                                         *)
(* The UI thread runs one frame at a time: a frame that takes a message,   *)
(* or one click of the user, is one action.  The background thread runs    *)
(* between any two of them.  Versions newer than the window's are 1 ..     *)
(* MaxVersion; 0 is no version.                                            *)
(***************************************************************************)
EXTENDS Integers, Sequences

CONSTANTS
  MaxVersion,  \* versions that may be published
  Offers       \* versions newer than the window's that a manifest may name,
               \* each with what plan_install decides about it

ASSUME UiAssumption ==
  /\ MaxVersion \in Nat \ {0}
  /\ Offers \subseteq [v : 1 .. MaxVersion, plan : {"manual", "files", "setup"}]

None == 0
Versions == 1 .. MaxVersion
Plans == {"manual", "files", "setup"}

VARIABLES
  phase,       \* Phase
  info,        \* version of the update last found, None without one
  plan,        \* its InstallPlan: by hand, replace files, run the installer
  task,        \* what has the channel: its kind, the version, manual
  mail,        \* messages in the channel
  worker,      \* where the thread is: "off", "run" or "installing"
  cancel,      \* the cancel flag shared with the threads
  dialog,      \* show_dialog
  confirm,     \* the question shown in the dialog instead of the phase
  prefetching, prefetched,
  queued,      \* install_after_prefetch
  notify,      \* notify_pending
  toast,       \* the toast about an update is on screen
  closing,     \* close_requested
  skipped, pending, \* fields of update-state.json
  asked,       \* history: a click on Install has not been acted on
  stopped,     \* history: the user clicked Cancel for the task under way
  died         \* history: a thread ended without an answer

ui == <<phase, info, plan, dialog, confirm, prefetching, prefetched, queued, notify,
        toast, closing>>
saved == <<skipped, pending>>
thread == <<task, mail, worker, cancel>>
history == <<asked, stopped, died>>
vars == <<ui, thread, saved, history>>

NoTask == [kind |-> "none", v |-> None, manual |-> FALSE]
Busy == task.kind # "none"

(* info.plan.is_auto(), info.plan.uses_installer()                         *)
IsAuto == info # None /\ plan # "manual"
UsesInstaller == info # None /\ plan = "setup"

Phases == {"idle", "checking", "uptodate", "checkfailed", "available",
           "working", "installing", "installfailed", "installed"}
Working == phase \in {"working", "installing"}

(* A message and, where it has one, its version.                           *)
Msg(kind) == [kind |-> kind, v |-> None, plan |-> "manual"]
Messages == [kind : {"uptodate", "failed", "found", "installing", "installed",
                     "setup", "cancelled", "error", "prefetched"},
             v : Versions \cup {None}, plan : Plans]

TypeOK ==
  /\ phase \in Phases
  /\ info \in Versions \cup {None} /\ plan \in Plans
  /\ task \in [kind : {"none", "check", "install", "prefetch"},
               v : Versions \cup {None}, manual : BOOLEAN]
  /\ mail \in Seq(Messages) /\ Len(mail) <= 2
  /\ worker \in {"off", "run", "installing"}
  /\ confirm \in {"none", "restart", "installer"}
  /\ {cancel, dialog, prefetching, prefetched, queued, notify, toast, closing,
      asked, stopped, died} \subseteq BOOLEAN
  /\ skipped \in Versions \cup {None}
  /\ pending \in Versions \cup {None}

Init ==
  /\ phase = "idle" /\ info = None /\ plan = "manual"
  /\ task = NoTask /\ mail = <<>> /\ worker = "off" /\ cancel = FALSE
  /\ dialog = FALSE /\ confirm = "none"
  /\ prefetching = FALSE /\ prefetched = FALSE /\ queued = FALSE
  /\ notify = FALSE /\ toast = FALSE /\ closing = FALSE
  /\ skipped = None /\ pending = None
  /\ asked = FALSE /\ stopped = FALSE /\ died = FALSE

-----------------------------------------------------------------------------
(* Starting a background thread                                            *)

(* update_start_check, the channel being free.  A thread may not start.    *)
StartCheck(manual) ==
  \/ /\ task' = [NoTask EXCEPT !.kind = "check", !.manual = manual]
     /\ worker' = "run"
     /\ phase' = IF manual THEN "checking" ELSE phase
  \/ /\ phase' = IF manual THEN "checkfailed" ELSE phase
     /\ UNCHANGED <<task, worker>>

(* Mutant: the cancel flag of the last install is not reset.               *)
StartWithOldFlag(ph) ==
  /\ IsAuto
  /\ task' = [NoTask EXCEPT !.kind = "install", !.v = info]
  /\ worker' = "run"
  /\ phase' = "working"
  /\ UNCHANGED cancel
  /\ asked' = FALSE /\ stopped' = FALSE

(* update_start_install, the channel being free and the phase so far ph.   *)
StartInstall(ph) ==
  \/ /\ IsAuto
     /\ task' = [NoTask EXCEPT !.kind = "install", !.v = info]
     /\ worker' = "run"
     /\ phase' = "working"
     /\ cancel' = FALSE
     /\ asked' = FALSE /\ stopped' = FALSE
  \/ /\ task' = NoTask
     /\ phase' = IF IsAuto THEN "installfailed" ELSE ph
     /\ asked' = FALSE
     /\ UNCHANGED <<worker, cancel, stopped>>

(* update_start_install on a click: while the background download has the  *)
(* channel the click is remembered, while a check has it it is not.        *)
InstallClick ==
  IF Busy
  THEN /\ queued' = (queued \/ prefetching)
       /\ asked' = (asked \/ prefetching)
       /\ UNCHANGED <<phase, task, worker, cancel, stopped>>
  ELSE StartInstall(phase) /\ UNCHANGED queued

-----------------------------------------------------------------------------
(* The frame: update_tick.  The preferences auto_check and auto_download   *)
(* may be on or off: a check that is due and a download may also not start. *)

(* A check is due; whether the time has come is left open.                 *)
AutoCheck ==
  /\ ~closing
  /\ ~Busy /\ ~Working /\ phase # "installed"
  /\ StartCheck(FALSE)
  /\ UNCHANGED <<info, plan, dialog, confirm, prefetching, prefetched, queued,
                 notify, toast, closing, mail, cancel, saved, history>>

(* The toast waits until no other toast asks for an answer.                *)
Notify ==
  /\ notify /\ ~toast /\ ~closing
  /\ notify' = FALSE
  /\ toast' = (info # None)
  /\ UNCHANGED <<phase, info, plan, dialog, confirm, prefetching, prefetched, queued,
                 closing, thread, saved, history>>

Receiving(kinds) == ~closing /\ mail # <<>> /\ Head(mail).kind \in kinds

(* The last message of a thread frees the channel.                         *)
TakeLast == task' = NoTask /\ mail' = <<>> /\ UNCHANGED <<worker, cancel>>

(* update_on_checked                                                       *)
ByUser == task.manual \/ (dialog /\ phase = "checking")

PollUpToDate ==
  /\ Receiving({"uptodate"})
  /\ IF Working \/ phase = "installed" THEN UNCHANGED <<phase, info, plan>>
     ELSE /\ info' = None /\ plan' = "manual"
          /\ phase' = IF ByUser THEN "uptodate" ELSE "idle"
  /\ TakeLast
  /\ UNCHANGED <<dialog, confirm, prefetching, prefetched, queued, notify,
                 toast, closing, saved, history>>

PollCheckFailed ==
  /\ Receiving({"failed"})
  /\ phase' = IF Working \/ phase = "installed" THEN phase
              ELSE IF ByUser THEN "checkfailed"
              ELSE IF phase = "checking" THEN "idle"
              ELSE phase
  /\ TakeLast
  /\ UNCHANGED <<info, plan, dialog, confirm, prefetching, prefetched, queued,
                 notify, toast, closing, saved, history>>

(* A new version: it may already be installed and wait for a restart; if   *)
(* the user did not ask, it is announced once and downloaded.              *)
PollFound ==
  LET v == Head(mail).v
      known == info = v
      wanted == ~ByUser /\ skipped # v
      ready == prefetched /\ known
  IN  /\ Receiving({"found"})
      /\ IF Working \/ phase = "installed"
         THEN /\ TakeLast
              /\ UNCHANGED <<phase, info, plan, prefetching, prefetched, notify>>
         ELSE /\ info' = v /\ plan' = Head(mail).plan
              /\ prefetched' = ready
              /\ phase' = IF pending = v THEN "installed" ELSE "available"
              /\ notify' = (notify \/ (pending # v /\ wanted /\ ~known))
              /\ \/ TakeLast /\ UNCHANGED prefetching
                 \/ /\ pending # v /\ wanted /\ ~ready /\ Head(mail).plan # "manual"
                    /\ task' = [NoTask EXCEPT !.kind = "prefetch", !.v = v]
                    /\ mail' = <<>> /\ worker' = "run" /\ cancel' = FALSE
                    /\ prefetching' = TRUE
      /\ UNCHANGED <<dialog, confirm, queued, toast, closing, saved, history>>

PollProgress ==
  /\ Receiving({"installing"})
  /\ phase' = IF Working THEN "installing" ELSE phase
  /\ mail' = Tail(mail)
  /\ UNCHANGED <<info, plan, dialog, confirm, prefetching, prefetched, queued,
                 notify, toast, closing, task, worker, cancel, saved, history>>

(* update_on_applied                                                       *)
PollApplied ==
  LET result == Head(mail).kind
  IN  /\ Receiving({"installed", "setup", "cancelled", "error"})
      /\ task.kind = "install"
      /\ phase' = CASE result = "installed" -> "installed"
                    [] result = "cancelled" -> "available"
                    [] result = "error" -> "installfailed"
                    [] OTHER -> phase
      /\ toast' = (toast \/ (result = "installed" /\ ~dialog))
      /\ closing' = (result = "setup")
      /\ dialog' = (dialog \/ result = "error")
      /\ TakeLast
      /\ UNCHANGED <<info, plan, confirm, prefetching, prefetched, queued, notify,
                     saved, history>>

(* Mutants: the remembered click is not cleared; it is cleared and not     *)
(* acted on.                                                               *)
KeepQueued ==
  /\ Receiving({"prefetched", "error"})
  /\ task.kind = "prefetch"
  /\ mail' = <<>>
  /\ prefetching' = FALSE
  /\ IF queued THEN StartInstall(phase)
     ELSE /\ task' = NoTask /\ UNCHANGED phase
          /\ UNCHANGED <<worker, cancel, asked, stopped>>
  /\ UNCHANGED <<info, plan, dialog, confirm, prefetched, queued, notify, toast,
                 closing, saved, died>>
DropQueued ==
  /\ Receiving({"prefetched", "error"})
  /\ task.kind = "prefetch"
  /\ TakeLast
  /\ prefetching' = FALSE /\ queued' = FALSE
  /\ UNCHANGED <<phase, info, plan, dialog, confirm, prefetched, notify, toast,
                 closing, saved, history>>

(* on_prefetch_finished, then the install that was asked for meanwhile.    *)
PollPrefetched ==
  LET ph == IF phase # "checking" THEN phase
            ELSE IF info # None THEN "available" ELSE "idle"
  IN  /\ Receiving({"prefetched", "error"})
      /\ task.kind = "prefetch"
      /\ mail' = <<>>
      /\ prefetching' = FALSE
      /\ prefetched' = (prefetched \/ Head(mail).kind = "prefetched")
      /\ queued' = FALSE
      /\ IF queued THEN StartInstall(ph)
         ELSE /\ task' = NoTask /\ phase' = ph
              /\ UNCHANGED <<worker, cancel, asked, stopped>>
      /\ UNCHANGED <<info, plan, dialog, confirm, notify, toast, closing, saved, died>>

(* Mutant: the phase stays when a thread ends without an answer.           *)
KeepChecking ==
  /\ Busy /\ worker = "off" /\ mail = <<>> /\ ~closing
  /\ task' = NoTask
  /\ UNCHANGED <<ui, mail, worker, cancel, saved, history>>

(* The thread ended without its last message.                              *)
PollDisconnected ==
  /\ Busy /\ worker = "off" /\ mail = <<>> /\ ~closing
  /\ task' = NoTask
  /\ phase' = IF phase = "checking" THEN "idle" ELSE phase
  /\ UNCHANGED <<info, plan, dialog, confirm, prefetching, prefetched, queued,
                 notify, toast, closing, mail, worker, cancel, saved, history>>

Poll ==
  \/ PollUpToDate \/ PollCheckFailed \/ PollFound \/ PollProgress
  \/ PollApplied \/ PollPrefetched \/ PollDisconnected

-----------------------------------------------------------------------------
(* The threads                                                             *)

(* Mutant: each message is sent twice.                                     *)
SendTwice(m) == mail' = mail \o <<m, m>>

Send(m) == mail' = Append(mail, m)

CheckEnds ==
  /\ worker = "run" /\ task.kind = "check"
  /\ \E m \in {Msg("uptodate"), Msg("failed")}
              \cup {[kind |-> "found", v |-> o.v, plan |-> o.plan] :
                      o \in Offers} : Send(m)
  /\ worker' = "off"
  /\ UNCHANGED <<ui, task, cancel, saved, history>>

PrefetchEnds ==
  /\ worker = "run" /\ task.kind = "prefetch"
  /\ \E kind \in {"prefetched", "error"} : Send(Msg(kind))
  /\ worker' = "off"
  /\ UNCHANGED <<ui, task, cancel, saved, history>>

(* The download notices the cancel flag, fails, or is complete.            *)
DownloadEnds ==
  /\ worker = "run" /\ task.kind = "install"
  /\ \/ Send(Msg("installing")) /\ worker' = "installing"
     \/ Send(Msg("error")) /\ worker' = "off"
     \/ cancel /\ Send(Msg("cancelled")) /\ worker' = "off"
  /\ UNCHANGED <<ui, task, cancel, saved, history>>

InstallEnds ==
  /\ worker = "installing"
  /\ \/ /\ Send(Msg(IF UsesInstaller THEN "setup" ELSE "installed"))
        /\ pending' = IF UsesInstaller THEN pending ELSE task.v
     \/ Send(Msg("error")) /\ UNCHANGED pending
  /\ worker' = "off"
  /\ UNCHANGED <<ui, task, cancel, skipped, history>>

(* A panic ends a thread, its end of the channel with it.                  *)
WorkerDies ==
  /\ worker # "off"
  /\ worker' = "off" /\ died' = TRUE
  /\ UNCHANGED <<ui, task, mail, cancel, saved, asked, stopped>>

Work == CheckEnds \/ PrefetchEnds \/ DownloadEnds \/ InstallEnds

-----------------------------------------------------------------------------
(* The user                                                                *)

(* Mutant: the phase changes during an install.                            *)
CheckNowAnyPhase ==
  /\ ~closing
  /\ dialog' = TRUE
  /\ IF Busy
     THEN /\ phase' = IF prefetching THEN phase ELSE "checking"
          /\ UNCHANGED <<task, worker>>
     ELSE StartCheck(TRUE)
  /\ UNCHANGED <<info, plan, confirm, prefetching, prefetched, queued, notify,
                 toast, closing, mail, cancel, saved, history>>

(* update_check_now, check_now_while_busy                                  *)
CheckNow ==
  /\ ~closing
  /\ dialog' = TRUE
  /\ IF Working \/ phase = "installed" THEN UNCHANGED <<phase, task, worker>>
     ELSE IF Busy
     THEN /\ phase' = IF prefetching THEN phase ELSE "checking"
          /\ UNCHANGED <<task, worker>>
     ELSE StartCheck(TRUE)
  /\ UNCHANGED <<info, plan, confirm, prefetching, prefetched, queued, notify,
                 toast, closing, mail, cancel, saved, history>>

(* The toast is opened (update_open_dialog) or closed.                     *)
AnswerToast ==
  /\ toast /\ ~closing
  /\ toast' = FALSE
  /\ dialog' \in {dialog, TRUE}
  /\ UNCHANGED <<phase, info, plan, confirm, prefetching, prefetched, queued, notify,
                 closing, thread, saved, history>>

Showing(phases) ==
  dialog /\ confirm = "none" /\ ~closing /\ phase \in phases

Retry ==
  /\ Showing({"checkfailed"})
  /\ IF Busy THEN UNCHANGED <<phase, task, worker>> ELSE StartCheck(TRUE)
  /\ UNCHANGED <<info, plan, dialog, confirm, prefetching, prefetched, queued,
                 notify, toast, closing, mail, cancel, saved, history>>

(* With SSH sessions connected the installer first asks to confirm.        *)
Install ==
  /\ Showing({"available", "installfailed"}) /\ IsAuto
  /\ \/ /\ UsesInstaller
        /\ confirm' = "installer"
        /\ UNCHANGED <<phase, queued, task, worker, cancel, asked, stopped>>
     \/ InstallClick /\ UNCHANGED confirm
  /\ UNCHANGED <<info, plan, dialog, prefetching, prefetched, notify, toast,
                 closing, mail, saved, died>>

Cancel ==
  /\ Showing({"working"})
  /\ cancel' = TRUE /\ stopped' = TRUE
  /\ UNCHANGED <<ui, task, mail, worker, saved, asked, died>>

(* update_skip_version                                                     *)
Skip ==
  /\ Showing({"available", "installfailed"}) /\ info # None
  /\ skipped' = info
  /\ dialog' = FALSE /\ phase' = "idle"
  /\ UNCHANGED <<info, plan, confirm, prefetching, prefetched, queued, notify, toast,
                 closing, thread, pending, asked, stopped, died>>

(* Later, OK, Close, the title bar, Escape.                                *)
CloseDialog ==
  /\ dialog /\ ~closing
  /\ dialog' = FALSE /\ confirm' = "none"
  /\ phase' = IF phase \in {"uptodate", "checkfailed", "checking"} /\ ~Busy
              THEN "idle" ELSE phase
  /\ UNCHANGED <<info, plan, prefetching, prefetched, queued, notify, toast, closing,
                 thread, saved, history>>

(* update_restart_now (after a question when SSH sessions are connected);  *)
(* the new process may not start.                                          *)
RestartNow == closing' \in BOOLEAN

Restart ==
  /\ Showing({"installed"})
  /\ \/ confirm' = "restart" /\ UNCHANGED closing
     \/ RestartNow /\ UNCHANGED confirm
  /\ UNCHANGED <<phase, info, plan, dialog, prefetching, prefetched, queued, notify,
                 toast, thread, saved, history>>

ConfirmYes ==
  /\ dialog /\ confirm # "none" /\ ~closing
  /\ confirm' = "none"
  /\ IF confirm = "installer" THEN InstallClick /\ UNCHANGED closing
     ELSE /\ RestartNow
          /\ UNCHANGED <<phase, queued, task, worker, cancel, asked, stopped>>
  /\ UNCHANGED <<info, plan, dialog, prefetching, prefetched, notify, toast, mail,
                 saved, died>>

ConfirmNo ==
  /\ dialog /\ confirm # "none" /\ ~closing
  /\ confirm' = "none"
  /\ UNCHANGED <<phase, info, plan, dialog, prefetching, prefetched, queued, notify,
                 toast, closing, thread, saved, history>>

(* Another process installs a version or rolls back, and leaves its mark   *)
(* in update-state.json.                                                   *)
Outside ==
  /\ ~closing
  /\ pending' \in Versions \cup {None}
  /\ UNCHANGED <<ui, thread, skipped, history>>

-----------------------------------------------------------------------------
User ==
  \/ CheckNow \/ AnswerToast \/ Retry \/ Install \/ Cancel \/ Skip
  \/ CloseDialog \/ Restart \/ ConfirmYes \/ ConfirmNo

Next == AutoCheck \/ Notify \/ Poll \/ Work \/ WorkerDies \/ User \/ Outside

Spec == Init /\ [][Next]_vars

(* Threads end (every request and file operation in them has a time limit) *)
(* and ask for a frame when they have sent a message.                      *)
FairSpec == Spec /\ WF_vars(Poll) /\ WF_vars(Work)
-----------------------------------------------------------------------------
(* Properties                                                              *)

(* The dialog, the flags and the thread agree.  An update dialog has a     *)
(* version to offer (it would be empty otherwise, with no button); the     *)
(* flags of the background download are set while it has the channel, and  *)
(* a click is remembered only then; and the dialog shows an install, on    *)
(* which nothing else can be begun, exactly while one runs.                *)
FlagsAgree ==
  /\ phase \in {"available", "working", "installing", "installfailed"} =>
       info # None
  /\ ~died => /\ prefetching <=> task.kind = "prefetch"
              /\ queued => prefetching
  /\ ~died /\ ~closing => (Working <=> task.kind = "install")

(* An install is cancelled only by a click on Cancel of that install: a    *)
(* flag left over from an earlier one never stops it.                      *)
CancelIsForThisTask ==
  task.kind = "install" /\ (cancel \/ \E i \in DOMAIN mail : mail[i].kind = "cancelled")
    => stopped

(* AUTO_UPDATE.md, "the user must click to install": an install that       *)
(* begins later than the click was asked for by one that was not used yet. *)
InstallAsked ==
  [][~died /\ task.kind = "prefetch" /\ task'.kind = "install" => asked]_vars

(* A check that the user waits for is answered.                            *)
CheckAnswered == phase = "checking" ~> phase # "checking"

(* An install that was asked for during the background download begins.    *)
QueuedInstallBegins ==
  queued ~> task.kind = "install" \/ phase = "installfailed" \/ died
=============================================================================
