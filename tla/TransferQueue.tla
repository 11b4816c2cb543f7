---------------------------- MODULE TransferQueue ----------------------------
(***************************************************************************)
(* The transfers of the file panel (src/src/ui/sftp_panel.rs): their queue *)
(* (src/src/ui/sftp_xfer.rs), the comparison of two directories whose      *)
(* copies go through it, and the shell pumps that carry the jobs out       *)
(* (src/src/ssh/manager.rs).                                               *)
(*                                                                         *)
(* There is one panel for all tabs.  It hands one job at a time to the     *)
(* pump of the session it shows and waits for the answer (rx); a frame     *)
(* empties the progress channel, takes the answer, looks at the session,   *)
(* lets the user act, starts the next transfer and last obeys the strip    *)
(* of transfers.  The pumps act between any two of these.                  *)
(*                                                                         *)
(* A slot stands for a job together with its channels and its cancel flag. *)
(* busy is set exactly while rx is, and the generations of scans and       *)
(* preparations agree whenever rx does: both are left out.  So are paths,  *)
(* contents, the question before a file is overwritten, the jobs for one   *)
(* file or tree (rename, delete, edit) and split tabs.                     *)
(***************************************************************************)
EXTENDS Integers, Sequences, FiniteSets

CONSTANTS
  Terminals,    \* the tabs' sessions
  FirstTabs,    \* the tabs at the start
  Slots,        \* bound: jobs that are not forgotten, at a time
  MaxConns,     \* bound: connections of one terminal
  MaxPushes,    \* bound: transfers ever put into the queue
  MaxOps,       \* bound: what the user does in the panel
  MaxEvents,    \* bound: what happens to tabs and sessions
  MaxRefusals   \* bound: how often the queue of a pump is full

ASSUME TransferAssumption ==
  /\ FirstTabs \in Seq(Terminals) /\ FirstTabs # <<>>
  /\ Slots \subseteq Nat \ {0}
  /\ {MaxConns, MaxPushes, MaxOps, MaxEvents, MaxRefusals} \subseteq Nat
  /\ MaxConns > 0

VARIABLES
  tabs, active,      \* tabs, active_tab (0: none)
  shown, lastTab,    \* show_sftp_panel, sftp_last_tab
  handle,            \* per terminal: its connection, 0 while not connected
  over,              \* terminals: their pump has ended, which waits unnoticed
  used,              \* per terminal: connections so far
  job, queue,        \* the pumps: jobs, and who waits in which order
  rx, prog, cancel,  \* slots of rx, xfer_progress_rx and XferQueue.cancel
  items, pushed,     \* XferQueue.items, next_id - 1
  refresh, listing,  \* pending_refresh_after_op, pending_auto_list
  diff,              \* DirDiffUi
  turn,              \* the part of the frame that comes next
  ops, events, refused

window == <<tabs, active, shown, lastTab, handle, over, used>>
pumps == <<job, queue>>
transfer == <<rx, prog, cancel>>
lists == <<refresh, listing>>
panel == <<transfer, items, pushed, lists, diff>>
bounds == <<ops, events, refused>>
vars == <<window, pumps, panel, turn, bounds>>

None == 0
Ids == 1 .. MaxPushes
Connections == Terminals \X (1 .. MaxConns)
Phases == {"idle", "scanning", "ready", "syncing"}
Live == {"queued", "running"}
States == Live \cup {"done", "failed", "cancelled", "skipped"}
Answers == {"none", "gone", "ok", "failed", "cancelled", "skipped"}

NoJob == [kind |-> "none"]
Jobs == [kind : {"list", "transfer", "scan", "prepare"}, item : 0 .. MaxPushes,
         meant : Terminals, on : Terminals, cancelled : BOOLEAN,
         said : BOOLEAN, answer : Answers]

TypeOK ==
  /\ tabs \in Seq(Terminals) /\ active \in 0 .. Len(tabs)
  /\ shown \in BOOLEAN /\ lastTab \in 0 .. Len(FirstTabs)
  /\ handle \in [Terminals -> 0 .. MaxConns]
  /\ used \in [Terminals -> 0 .. MaxConns]
  /\ job \in [Slots -> Jobs \cup {NoJob}]
  /\ queue \in [Connections -> Seq(Slots)] /\ over \subseteq Terminals
  /\ {rx, prog, cancel, diff.flag} \subseteq Slots \cup {None}
  /\ DOMAIN items \subseteq 1 .. pushed
  /\ \A i \in DOMAIN items :
       items[i] \in [host : Terminals, state : States]
  /\ pushed \in 0 .. MaxPushes
  /\ {refresh, listing, diff.open, diff.prep} \subseteq BOOLEAN
  /\ diff.phase \in Phases /\ diff.batch \subseteq 1 .. pushed
  /\ turn \in {"open", "result", "gate", "act", "kick", "strip", "rest"}
  /\ ops \in 0 .. MaxOps /\ events \in 0 .. MaxEvents
  /\ refused \in 0 .. MaxRefusals

NoDiff == [open |-> FALSE, phase |-> "idle", prep |-> FALSE, batch |-> {},
           flag |-> None]

(* Every tab is connected; the panel has just been reset, or it shows a    *)
(* comparison that is done.                                                *)
Init ==
  /\ tabs = FirstTabs /\ active = 1 /\ shown = TRUE /\ lastTab = 1
  /\ handle = [t \in Terminals |-> 1] /\ used = handle
  /\ job = [s \in Slots |-> NoJob]
  /\ queue = [c \in Connections |-> <<>>] /\ over = {}
  /\ rx = None /\ prog = None /\ cancel = None
  /\ items = <<>> /\ pushed = 0
  /\ diff \in {NoDiff, [NoDiff EXCEPT !.open = TRUE, !.phase = "ready"]}
  /\ refresh = FALSE /\ listing = ~diff.open
  /\ turn = "open" /\ ops = 0 /\ events = 0 /\ refused = 0

(* current_terminal and sftp_session_for_ops                               *)
Current == tabs[active]
Ready == active # None /\ handle[Current] # 0
Here == <<Current, handle[Current]>>

-----------------------------------------------------------------------------
(* The jobs when the cancel flags of the given slots are raised, and when  *)
(* the receiver goes as well.                                              *)
Raised(slots) ==
  [s \in Slots |-> IF job[s] = NoJob THEN NoJob
                   ELSE [job[s] EXCEPT !.cancelled = @ \/ s \in slots]]

Abandon(slots) ==
  job' = [s \in Slots |-> IF s = rx /\ job[s].answer # "none" THEN NoJob
                          ELSE Raised(slots)[s]]

(* Mutant: the flag of the running transfer is not raised.                 *)
FailAllKeepsRunning(is) ==
  /\ items' = [i \in DOMAIN is |->
                 IF is[i].state \in Live THEN [is[i] EXCEPT !.state = "failed"]
                 ELSE is[i]]
  /\ cancel' = None
  /\ Abandon({diff.flag})

(* abort_in_flight_transfers, fail_all_in_flight and diff.request_cancel   *)
FailAll(is) ==
  /\ items' = [i \in DOMAIN is |->
                 IF is[i].state \in Live THEN [is[i] EXCEPT !.state = "failed"]
                 ELSE is[i]]
  /\ cancel' = None
  /\ Abandon({cancel, diff.flag})

Settled(d) == IF d.open THEN "ready" ELSE "idle"

(* fail_dir_diff_open                                                      *)
FailDiff(d) ==
  [d EXCEPT !.prep = FALSE, !.flag = None, !.phase = Settled(d)]

DiffBusy == diff.phase \in {"scanning", "syncing"}

(* Rx and progress are given up, transfers and comparison have failed.     *)
GiveUp ==
  /\ rx' = None /\ prog' = None
  /\ FailAll(items)
  /\ UNCHANGED <<pushed, lists>>

(* settle_dir_sync                                                         *)
Settle(d, is) ==
  IF /\ d.phase = "syncing" /\ ~d.prep
     /\ \A i \in d.batch \cap DOMAIN is : is[i].state \notin Live
  THEN [d EXCEPT !.phase = Settled(d), !.batch = {}, !.flag = None]
  ELSE d

-----------------------------------------------------------------------------
(* A job is given to the pump of the session, or refused because the pump  *)
(* has ended or its queue is full.                                         *)
Free == {s \in Slots : job[s] = NoJob /\ s \notin {cancel, diff.flag}}

Accept(s, kind, item, meant) ==
  /\ Current \notin over /\ s \in Free /\ \A f \in Free : s <= f
  /\ job' = [job EXCEPT ![s] =
               [kind |-> kind, item |-> item, meant |-> meant,
                on |-> Current, cancelled |-> FALSE, said |-> FALSE,
                answer |-> "none"]]
  /\ queue' = [queue EXCEPT ![Here] = Append(@, s)]
  /\ rx' = s
  /\ UNCHANGED refused

Refuse ==
  /\ \/ Current \in over /\ UNCHANGED refused
     \/ refused < MaxRefusals /\ refused' = refused + 1
  /\ rx' = None
  /\ UNCHANGED pumps

(* spawn_list                                                              *)
List ==
  /\ \/ \E s \in Slots : Accept(s, "list", 0, Current)
     \/ Refuse
  /\ UNCHANGED <<prog, cancel>>

NextQueued(is) == {i \in DOMAIN is : is[i].state = "queued"}

(* Mutant: a transfer that the pump refuses stays in the queue as running. *)
KickForgetsRefusal(is) ==
  IF rx # None \/ NextQueued(is) = {}
  THEN items' = is /\ UNCHANGED <<transfer, pumps, refused>>
  ELSE \E first \in NextQueued(is) :
         /\ \A i \in NextQueued(is) : first <= i
         /\ items' = [is EXCEPT ![first].state = "running"]
         /\ \/ \E s \in Slots :
                 /\ Accept(s, "transfer", first, is[first].host)
                 /\ prog' = s /\ cancel' = s
            \/ Refuse /\ prog' = None /\ cancel' = None

(* kick_xfer_queue                                                         *)
Kick(is) ==
  IF rx # None \/ NextQueued(is) = {}
  THEN items' = is /\ UNCHANGED <<transfer, pumps, refused>>
  ELSE \E first \in NextQueued(is) :
         /\ \A i \in NextQueued(is) : first <= i
         /\ \/ \E s \in Slots :
                 /\ Accept(s, "transfer", first, is[first].host)
                 /\ prog' = s /\ cancel' = s
                 /\ items' = [is EXCEPT ![first].state = "running"]
            \/ /\ Refuse /\ prog' = None /\ cancel' = None
               /\ items' = [is EXCEPT ![first].state = "failed"]

-----------------------------------------------------------------------------
(* A frame begins: the tab may be another one (workspace.rs), otherwise    *)
(* poll_xfer_progress.                                                     *)
Reset ==
  /\ rx' = None /\ prog' = None /\ cancel' = None
  /\ Abandon({cancel, diff.flag})
  /\ items' = <<>> /\ refresh' = FALSE /\ listing' = TRUE /\ diff' = NoDiff
  /\ UNCHANGED pushed

Said == prog # None /\ job[prog].said

OpenFrame ==
  /\ turn \in {"strip", "rest", "open"} /\ shown
  /\ turn' = "result" /\ lastTab' = active
  /\ \/ lastTab # active /\ Reset
     \/ /\ lastTab = active
        /\ \/ /\ Said
              /\ job' = [job EXCEPT ![prog].said = FALSE]
              /\ items' = IF job[prog].item \in DOMAIN items
                          THEN [items EXCEPT ![job[prog].item].state =
                                                                "running"]
                          ELSE items
           \/ /\ ~Said
              /\ UNCHANGED <<job, items>>
        /\ UNCHANGED <<transfer, pushed, lists, diff>>
  /\ UNCHANGED <<tabs, active, shown, handle, over, used, queue, bounds>>

HiddenFrame ==
  /\ ~shown
  /\ \/ turn = "open" /\ turn' = "rest"
     \/ turn = "rest" /\ turn' = "open"
  /\ UNCHANGED <<window, pumps, panel, bounds>>

-----------------------------------------------------------------------------
(* poll_rx: what an answer does, and then settle_dir_sync.                 *)
Answer == job[rx].answer
Answered(kind) == rx # None /\ job[rx].kind = kind /\ Answer \notin {"none", "gone"}

Taken == rx' = None /\ Abandon({})

NoAnswer ==
  /\ rx # None => Answer = "none"
  /\ diff' = IF rx # None THEN Settle(diff, items) ELSE diff
  /\ UNCHANGED <<job, transfer, items, pushed, lists>>

ListAnswer ==
  /\ Answered("list") /\ Taken
  /\ diff' = Settle(diff, items)
  /\ UNCHANGED <<prog, cancel, items, pushed, lists>>

(* TransferDone; finish finds the item by its id and clears the flag.      *)
Finish ==
  LET i == job[rx].item IN
  /\ items' = IF i \in DOMAIN items
              THEN [items EXCEPT ![i].state =
                                    IF Answer = "ok" THEN "done" ELSE Answer]
              ELSE items
  /\ cancel' = None

TransferAnswer ==
  /\ Answered("transfer") /\ Taken /\ prog' = None /\ Finish
  /\ refresh' = (refresh \/ Answer = "ok")
  /\ diff' = Settle(diff, items')
  /\ UNCHANGED <<pushed, listing>>

(* DiffScan: whether rows are there makes no difference here.              *)
ScanAnswer ==
  /\ Answered("scan") /\ Taken
  /\ diff' = [diff EXCEPT !.flag = None, !.phase = Settled(diff)]
  /\ UNCHANGED <<prog, cancel, items, pushed, lists>>

(* DiffPrep: the copies are put into the queue, even for a view that has   *)
(* been left and a flag that has been raised since.                        *)
PrepareAnswer ==
  /\ Answered("prepare") /\ Taken
  /\ \E n \in IF Answer = "ok" THEN 0 .. MaxPushes - pushed ELSE {0} :
       LET new == pushed + 1 .. pushed + n IN
       /\ pushed' = pushed + n
       /\ items' = [i \in DOMAIN items \cup new |->
                      IF i \in new
                      THEN [host |-> job[rx].meant, state |-> "queued"]
                      ELSE items[i]]
       /\ diff' = [diff EXCEPT !.flag = None, !.prep = FALSE, !.batch = new,
                     !.phase = IF n = 0 THEN Settled(diff) ELSE "syncing"]
       /\ refresh' = (refresh \/ (Answer = "ok" /\ n = 0))
  /\ UNCHANGED <<prog, cancel, listing>>

(* Mutant: only the transfers are failed.                                   *)
WorkerGoneKeepsDiff ==
  /\ rx # None /\ Answer = "gone"
  /\ GiveUp
  /\ diff' = [diff EXCEPT !.prep = FALSE, !.flag = None]

(* The job is dropped with its pump.                                       *)
WorkerGone ==
  /\ rx # None /\ Answer = "gone"
  /\ GiveUp
  /\ diff' = IF DiffBusy THEN FailDiff(diff)
             ELSE [diff EXCEPT !.prep = FALSE, !.flag = None]

PollResult ==
  /\ turn = "result" /\ turn' = "gate"
  /\ \/ NoAnswer \/ ListAnswer \/ TransferAnswer \/ ScanAnswer
     \/ PrepareAnswer \/ WorkerGone
  /\ UNCHANGED <<window, queue, bounds>>

-----------------------------------------------------------------------------
(* on_session_unavailable                                                  *)
HasWork == \E i \in DOMAIN items : items[i].state \in Live

Unavailable ==
  /\ turn = "gate" /\ ~Ready
  /\ turn' = "rest"
  /\ \/ /\ HasWork \/ rx # None \/ DiffBusy
        /\ GiveUp
        /\ diff' = IF DiffBusy THEN FailDiff(diff)
                   ELSE [diff EXCEPT !.prep = FALSE, !.flag = None]
     \/ /\ ~(HasWork \/ rx # None \/ DiffBusy)
        /\ UNCHANGED <<job, panel>>
  /\ UNCHANGED <<window, queue, bounds>>

(* The directory is listed after an operation, or because the panel opens. *)
Available ==
  /\ turn = "gate" /\ Ready
  /\ turn' = "act"
  /\ \/ /\ rx = None /\ (refresh \/ listing)
        /\ refresh' = FALSE /\ listing' = (listing /\ refresh)
        /\ List
     \/ /\ rx # None \/ ~(refresh \/ listing)
        /\ UNCHANGED <<transfer, pumps, lists, refused>>
  /\ UNCHANGED <<window, items, pushed, diff, ops, events>>

-----------------------------------------------------------------------------
(* The user acts in the panel, or does not.                                *)
Act == turn = "act" /\ turn' = "kick" /\ UNCHANGED <<window, events>>
Click == ops < MaxOps /\ ops' = ops + 1

(* Mutant: next_id stays as it is.                                         *)
PushKeepsId ==
  /\ Act /\ Click /\ ~diff.open
  /\ pushed < MaxPushes
  /\ items' = [i \in DOMAIN items \cup {pushed + 1} |->
                 IF i = pushed + 1 THEN [host |-> Current, state |-> "queued"]
                 ELSE items[i]]
  /\ UNCHANGED <<pumps, transfer, pushed, lists, diff, refused>>

(* enqueue_xfer: the file is meant for the host that the panel shows.      *)
Push ==
  /\ Act /\ Click /\ ~diff.open
  /\ pushed < MaxPushes /\ pushed' = pushed + 1
  /\ items' = [i \in DOMAIN items \cup {pushed'} |->
                 IF i = pushed' THEN [host |-> Current, state |-> "queued"]
                 ELSE items[i]]
  /\ UNCHANGED <<pumps, transfer, lists, diff, refused>>

EnterDirectory ==
  /\ Act /\ Click /\ ~diff.open /\ rx = None
  /\ List
  /\ UNCHANGED <<items, pushed, lists, diff>>

(* open_dir_diff and Compare again: start_dir_diff_scan                    *)
Scan ==
  /\ Act /\ Click /\ rx = None
  /\ diff.open => diff.phase = "ready"
  /\ LET d == [diff EXCEPT !.open = TRUE, !.phase = "scanning", !.batch = {},
                           !.prep = FALSE]
     IN  \/ \E s \in Slots :
              Accept(s, "scan", 0, Current) /\ diff' = [d EXCEPT !.flag = s]
         \/ Refuse /\ diff' = FailDiff(d)
  /\ UNCHANGED <<prog, cancel, items, pushed, lists>>

(* start_dir_sync                                                          *)
Sync ==
  /\ Act /\ Click /\ rx = None /\ diff.open /\ diff.phase = "ready"
  /\ LET d == [diff EXCEPT !.phase = "syncing", !.batch = {}, !.prep = TRUE]
     IN  \/ \E s \in Slots :
              Accept(s, "prepare", 0, Current) /\ diff' = [d EXCEPT !.flag = s]
         \/ Refuse /\ diff' = FailDiff(d)
  /\ UNCHANGED <<prog, cancel, items, pushed, lists>>

(* cancel_dir_diff_activity in the state d of the view                     *)
CancelDiff(d) ==
  LET active_ == {i \in DOMAIN items : items[i].state = "running"}
      left == [i \in DOMAIN items |->
                 IF i \in diff.batch /\ items[i].state = "queued"
                 THEN [items[i] EXCEPT !.state = "cancelled"] ELSE items[i]]
      hit == active_ \cap diff.batch # {}
  IN
  /\ items' = left
  /\ job' = Raised({diff.flag} \cup IF hit THEN {cancel} ELSE {})
  /\ diff' = IF diff.phase = "syncing" /\ ~diff.prep /\ ~hit
             THEN Settle(d, left) ELSE d

CancelOrBack ==
  /\ Act /\ Click /\ diff.open
  /\ \/ DiffBusy /\ CancelDiff(diff)
     \/ DiffBusy /\ CancelDiff([diff EXCEPT !.open = FALSE])
     \/ /\ ~DiffBusy /\ diff' = [diff EXCEPT !.open = FALSE]
        /\ UNCHANGED <<job, items>>
  /\ UNCHANGED <<queue, transfer, pushed, lists, refused>>

Pick ==
  /\ turn \in {"act", "kick"} /\ turn' = "strip"
  /\ Kick(items)
  /\ UNCHANGED <<window, pushed, lists, diff, ops, events>>

-----------------------------------------------------------------------------
(* The user may act in the strip of transfers: handle_xfer_strip_action.   *)
Strip == turn = "strip" /\ turn' = "rest" /\ UNCHANGED <<window, events>>

CancelActive ==
  /\ Strip /\ Click
  /\ \E i \in DOMAIN items : items[i].state = "running"
  /\ job' = Raised({cancel})
  /\ UNCHANGED <<queue, panel, refused>>

Retry ==
  /\ Strip /\ Click
  /\ \E i \in DOMAIN items :
       /\ items[i].state \in {"failed", "cancelled"}
       /\ Kick([items EXCEPT ![i].state = "queued"])
  /\ UNCHANGED <<pushed, lists, diff>>

Keep(ids) == items' = [i \in ids |-> items[i]]

RemoveOrPrune ==
  /\ Strip /\ Click
  /\ \/ \E i \in DOMAIN items : /\ items[i].state \in {"failed", "cancelled"}
                                /\ Keep(DOMAIN items \ {i})
     \/ Keep({i \in DOMAIN items :
                items[i].state \notin {"done", "skipped", "cancelled"}})
  /\ UNCHANGED <<pumps, transfer, pushed, lists, diff, refused>>

-----------------------------------------------------------------------------
(* What may happen to tabs, sessions and the panel between two frames.     *)
Rest ==
  /\ turn \in {"strip", "rest"} /\ turn' = "open"
  /\ UNCHANGED <<pumps, panel, ops, refused>>
Event == events < MaxEvents /\ events' = events + 1

LetGo(t) == handle' = [handle EXCEPT ![t] = 0] /\ over' = over \ {t}

(* toggle_sftp_panel and close_all_right_dock_panels; opening asks for a   *)
(* listing, which the reset that follows does as well.                     *)
Toggle ==
  /\ Rest /\ Event
  /\ shown' = ~shown /\ lastTab' = None
  /\ UNCHANGED <<tabs, active, handle, over, used>>

SwitchTab ==
  /\ Rest /\ Event
  /\ active' \in DOMAIN tabs \ {active}
  /\ UNCHANGED <<tabs, shown, lastTab, handle, over, used>>

(* remove_tab_at                                                           *)
CloseTab ==
  /\ Rest /\ Event
  /\ \E i \in DOMAIN tabs :
       /\ tabs' = [k \in 1 .. Len(tabs) - 1 |->
                     IF k < i THEN tabs[k] ELSE tabs[k + 1]]
       /\ active' = IF active = i THEN Len(tabs) - 1
                    ELSE IF active > i THEN active - 1 ELSE active
       /\ LetGo(tabs[i])
  /\ UNCHANGED <<shown, lastTab, used>>

(* The user ends a session, whose pump goes on until it notices.           *)
Disconnect ==
  /\ Rest /\ Event
  /\ \E k \in DOMAIN tabs : handle[tabs[k]] # 0 /\ LetGo(tabs[k])
  /\ UNCHANGED <<tabs, active, shown, lastTab, used>>

(* Disconnected is processed: the pump has ended.                          *)
SessionLost ==
  /\ Rest
  /\ \E k \in DOMAIN tabs : tabs[k] \in over /\ LetGo(tabs[k])
  /\ UNCHANGED <<tabs, active, shown, lastTab, used, events>>

Reconnected ==
  /\ Rest /\ Event
  /\ \E k \in DOMAIN tabs :
       /\ handle[tabs[k]] = 0 /\ used[tabs[k]] < MaxConns
       /\ used' = [used EXCEPT ![tabs[k]] = @ + 1]
       /\ handle' = [handle EXCEPT ![tabs[k]] = used'[tabs[k]]]
  /\ UNCHANGED <<tabs, active, shown, lastTab, over>>

-----------------------------------------------------------------------------
(* The pumps.  A transfer says how far it is, and looks at its flag before *)
(* each part it copies: raised, it may still come too late.                *)
JobSays(c) ==
  /\ queue[c] # <<>>
  /\ LET s == Head(queue[c]) IN
     /\ job[s].kind = "transfer" /\ s = prog /\ ~job[s].said
     /\ job' = [job EXCEPT ![s].said = TRUE]
  /\ UNCHANGED queue /\ UNCHANGED <<window, panel, turn, bounds>>

Outcomes(j) ==
  {"ok", "failed"} \cup (IF j.kind = "transfer" THEN {"skipped"} ELSE {})
  \cup (IF j.cancelled THEN {"cancelled"} ELSE {})

(* An answer that nobody waits for is lost.                                *)
JobEnds(c) ==
  /\ queue[c] # <<>>
  /\ LET s == Head(queue[c]) IN
     \E answer \in Outcomes(job[s]) :
       job' = [job EXCEPT ![s] = IF s = rx THEN [@ EXCEPT !.answer = answer]
                                 ELSE NoJob]
  /\ queue' = [queue EXCEPT ![c] = Tail(@)]
  /\ UNCHANGED <<window, panel, turn, bounds>>

(* The pump ends and drops the jobs it has not begun.                      *)
PumpEnds(c) ==
  /\ \/ /\ handle[c[1]] = c[2] /\ c[1] \notin over
        /\ over' = over \cup {c[1]}
     \/ /\ handle[c[1]] # c[2] /\ queue[c] # <<>>
        /\ UNCHANGED over
  /\ LET dropped == {queue[c][k] : k \in DOMAIN queue[c]} IN
     job' = [s \in Slots |-> IF s \notin dropped THEN job[s]
                             ELSE IF s = rx THEN [job[s] EXCEPT !.answer = "gone"]
                             ELSE NoJob]
  /\ queue' = [queue EXCEPT ![c] = <<>>]
  /\ UNCHANGED <<tabs, active, shown, lastTab, handle, used, panel, turn,
                 bounds>>

-----------------------------------------------------------------------------
Frame ==
  \/ OpenFrame \/ HiddenFrame \/ PollResult \/ Unavailable \/ Available
  \/ Push \/ EnterDirectory \/ Scan \/ Sync \/ CancelOrBack
  \/ Pick
  \/ CancelActive \/ Retry \/ RemoveOrPrune
  \/ Toggle \/ SwitchTab \/ CloseTab \/ Disconnect \/ SessionLost
  \/ Reconnected

Next ==
  \/ Frame
  \/ \E c \in Connections : JobSays(c) \/ JobEnds(c) \/ PumpEnds(c)

Spec == Init /\ [][Next]_vars

(* The window goes on drawing and takes the messages of its sessions, and  *)
(* a job ends: its calls have a timeout (SessionBlockingGuard).            *)
FairSpec ==
  /\ Spec /\ WF_vars(Frame) /\ SF_vars(SessionLost)
  /\ \A c \in Connections : WF_vars(JobEnds(c))

-----------------------------------------------------------------------------
(* One worker at a time: an item that is running, a scan and a preparation *)
(* have the job that the panel waits for, and every other job that could   *)
(* still copy or scan has been told to stop (sftp_panel.rs, #94).          *)
Unfinished(s) == job[s] # NoJob /\ job[s].answer = "none"
Awaited(kind) == rx # None /\ job[rx].kind = kind

OneWorker ==
  /\ \A i \in DOMAIN items :
       items[i].state = "running" => Awaited("transfer") /\ job[rx].item = i
  /\ diff.phase = "scanning" => Awaited("scan")
  /\ diff.prep => Awaited("prepare")
  /\ \A s \in Slots \ {rx} :
       Unfinished(s) /\ job[s].kind # "list" => job[s].cancelled

(* A transfer is not forgotten: while the panel is shown, what is queued   *)
(* or running ends, or leaves the list (docs/product/SFTP-UPGRADE.md).     *)
Waits(i) == shown /\ i \in DOMAIN items /\ items[i].state \in Live

TransfersEnd == \A i \in Ids : Waits(i) ~> ~Waits(i)

(* A comparison or a synchronisation comes to its end.  The exception: the *)
(* pump refuses the last copy of the batch, and nothing settles the view   *)
(* until an answer to something else arrives.                              *)
Spent ==
  /\ diff.phase = "syncing" /\ ~diff.prep
  /\ \A i \in diff.batch \cap DOMAIN items : items[i].state \notin Live

ComparisonEnds == (shown /\ DiffBusy) ~> (~shown \/ ~DiffBusy \/ Spent)

(* "Reset the remote path and list again when the terminal tab changes"    *)
(* (workspace.rs): a transfer is carried out on the host it was meant for. *)
TransferToItsHost ==
  \A s \in Slots : Unfinished(s) /\ job[s].kind = "transfer"
                   => job[s].meant = job[s].on
=============================================================================
