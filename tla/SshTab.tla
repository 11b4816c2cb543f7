------------------------------- MODULE SshTab -------------------------------
(***************************************************************************)
(* One SSH tab of the window: its terminal view (src/src/ui/terminal.rs),  *)
(* its automatic reconnection (src/src/ui/app.rs and                       *)
(* src/src/core/reconnect.rs) and the messages of the connection it holds  *)
(* (src/src/ssh/manager.rs).                                               *)
(*                                                                         *)
(* The window draws frame after frame.  A frame consumes due retries, then *)
(* the notice of a lost session, then messages, then a click or a key, and *)
(* last the return of the window to the foreground.  The threads of the    *)
(* connection and the clock act between any two of these.  Messages of a   *)
(* connection the tab has let go of have no receiver.                      *)
(*                                                                         *)
(* What the user types while the session is down is counted in keys.  The  *)
(* output of the session, the command run after a connection, host keys,   *)
(* local shells and the text of errors are left out.                       *)
(***************************************************************************)
EXTENDS Integers, Sequences

CONSTANTS
  Max,         \* DEFAULT_MAX_RECONNECT_ATTEMPTS
  OfflineCap   \* OFFLINE_INPUT_CAP

ASSUME TabAssumption == Max \in Nat \ {0} /\ OfflineCap \in Nat \ {0}

VARIABLES
  connected,   \* connected
  error,       \* error_message is set
  manager,     \* ssh_manager is set
  handle,      \* ssh_handle is set
  hold,        \* buffer_input_while_disconnected
  buffer,      \* length of disconnected_input_buffer
  dialog,      \* resend_offline_input_dialog_open
  intent,      \* local_disconnect_intent
  notified,    \* unexpected_disconnect_notified
  unexpected,  \* last_disconnect_unexpected
  release,     \* release_ssh_rx_after_drain
  next,        \* ssh_auto_reconnect_next: not set, in the future, or due
  attempts,    \* ssh_auto_reconnect_attempts
  auto,        \* keepalive_auto_reconnect of the session
  profile,     \* the session is in the list of sessions
  mail,        \* ssh_rx: the messages that wait
  net,         \* the threads of the connection behind ssh_rx
  turn,        \* the part of the frame that comes next
  batch,       \* how many messages this frame still processes
  manual       \* history: the user has ended the session himself

input == <<hold, buffer>>
view == <<connected, error, manager, handle, dialog, intent, unexpected,
          release>>
schedule == <<next, attempts>>
settings == <<auto, profile>>
link == <<mail, net>>
frame == <<turn, batch>>
vars == <<view, input, notified, schedule, settings, link, frame, manual>>

Messages == {"Connected", "Error", "Disconnected"}

TypeOK ==
  /\ {connected, error, manager, handle, dialog, intent, unexpected,
      release, hold, notified, auto, profile, manual} \subseteq BOOLEAN
  /\ buffer \in 0 .. OfflineCap
  /\ next \in {"none", "waiting", "due"} /\ attempts \in 0 .. Max
  /\ mail \in Seq(Messages)
  /\ net \in {"none", "connecting", "up", "shell", "ended"}
  /\ turn \in {"retry", "notice", "drain", "process", "user", "foreground"}
  /\ batch \in 0 .. Len(mail)

(* A tab that has just been opened.                                        *)
Init ==
  /\ connected = FALSE /\ error = FALSE /\ manager = TRUE /\ handle = FALSE
  /\ hold = FALSE /\ buffer = 0 /\ dialog = FALSE
  /\ intent = FALSE /\ notified = FALSE /\ unexpected = FALSE
  /\ release = FALSE
  /\ next = "none" /\ attempts = 0
  /\ auto \in BOOLEAN /\ profile = TRUE
  /\ mail = <<>> /\ net = "connecting"
  /\ turn = "retry" /\ batch = 0
  /\ manual = FALSE

(* is_connecting                                                           *)
Connecting == ~connected /\ ~error /\ manager

(* shows_persistent_disconnect_banner                                      *)
Banner == hold /\ ~connected /\ ~Connecting /\ ~error

-----------------------------------------------------------------------------
(* The receiver goes, and with it whatever was sent or will be.            *)
LetGo == mail' = <<>> /\ net' = "none"

(* What disconnect and disconnect_ssh_keep_buffer have in common.          *)
Close ==
  /\ connected' = FALSE /\ manager' = FALSE /\ handle' = FALSE
  /\ dialog' = FALSE /\ intent' = TRUE
  /\ LetGo

(* disconnect                                                              *)
Disconnect ==
  /\ Close
  /\ unexpected' = FALSE /\ release' = FALSE
  /\ hold' = FALSE /\ buffer' = 0

(* A new TerminalView, and connect unless the credentials or the jump hosts*)
(* of the session cannot be resolved (terminal_connect_session).           *)
NewView ==
  /\ connected' = FALSE /\ error' = FALSE /\ handle' = FALSE
  /\ dialog' = FALSE /\ intent' = FALSE /\ unexpected' = FALSE
  /\ release' = FALSE
  /\ mail' = <<>>
  /\ \E resolved \in BOOLEAN :
       /\ manager' = resolved
       /\ net' = IF resolved THEN "connecting" ELSE "none"

ReconnectWithoutProfile ==
  /\ ~profile
  /\ Disconnect /\ error' = FALSE
  /\ UNCHANGED notified

(* Mutants: the view of the lost session is used again; what was typed     *)
(* offline is given back to a connection only.                             *)
ReplaceNothing ==
  \/ ReconnectWithoutProfile
  \/ profile /\ NewView /\ UNCHANGED <<input, notified>>
ReplaceGivesUpInput ==
  \/ ReconnectWithoutProfile
  \/ /\ profile /\ NewView /\ notified' = FALSE
     /\ IF manager' THEN UNCHANGED input ELSE hold' = FALSE /\ buffer' = 0

(* The new view takes the place of the old one; what was typed offline     *)
(* moves to it.  Without a session profile it is gone.                     *)
Replace ==
  \/ ReconnectWithoutProfile
  \/ profile /\ NewView /\ notified' = FALSE /\ UNCHANGED input

(* Mutant: the plan that led here is not cleared.                          *)
ReconnectKeepsPlan(n) ==
  Replace /\ attempts' = n /\ manual' = FALSE /\ UNCHANGED next

(* reconnect_tab_at_inner                                                  *)
Reconnect(n) ==
  Replace /\ attempts' = n /\ manual' = FALSE /\ next' = "none"

-----------------------------------------------------------------------------
(* The frame.  First the retries: a session that is up needs none.         *)
Retry ==
  /\ turn = "retry" /\ turn' = "notice"
  /\ \/ /\ connected
        /\ next' = "none" /\ attempts' = 0
        /\ UNCHANGED <<view, input, notified, link, manual>>
     \/ /\ ~connected /\ auto /\ next = "due"
        /\ Reconnect(attempts)
     \/ /\ ~connected /\ ~(auto /\ next = "due")
        /\ UNCHANGED <<view, input, notified, schedule, link, manual>>
  /\ UNCHANGED <<settings, batch>>

(* take_unexpected_disconnect_notified and                                 *)
(* schedule_after_unexpected_disconnect                                    *)
Notice ==
  /\ turn = "notice" /\ turn' = "drain"
  /\ notified' = FALSE
  /\ IF auto /\ notified
     THEN IF attempts >= Max
          THEN next' = "none" /\ UNCHANGED attempts
          ELSE next' = "waiting" /\ attempts' = attempts + 1
     ELSE UNCHANGED schedule
  /\ UNCHANGED <<view, input, settings, link, batch, manual>>

(* process_ssh_messages takes what has arrived, or as much of it as the    *)
(* budget of a frame allows, ...                                           *)
Drain ==
  /\ turn = "drain" /\ turn' = "process"
  /\ \E n \in 0 .. Len(mail) : (mail # <<>> => n > 0) /\ batch' = n
  /\ UNCHANGED <<view, input, notified, schedule, settings, link, manual>>

(* ... and processes one message after the other.                          *)
Receive(message) ==
  /\ turn = "process" /\ batch > 0
  /\ Head(mail) = message
  /\ mail' = Tail(mail) /\ batch' = batch - 1
  /\ UNCHANGED <<schedule, settings, turn, manual>>

(* start_interactive_shell succeeds or fails, on this thread.              *)
Connected ==
  /\ Receive("Connected") /\ manager
  /\ connected' = TRUE /\ unexpected' = FALSE
  /\ \/ /\ handle' = TRUE /\ net' = "shell"
        /\ dialog' = (dialog \/ buffer > 0)
        /\ UNCHANGED error
     \/ /\ error' = TRUE
        /\ UNCHANGED <<handle, net, dialog>>
  /\ UNCHANGED <<manager, intent, release, input, notified>>

(* Mutant: an error lets go of the receiver, as the end of a session does. *)
ErrorLetsGo ==
  /\ Receive("Error")
  /\ error' = TRUE /\ release' = TRUE
  /\ UNCHANGED <<connected, manager, handle, dialog, intent, unexpected,
                 input, notified, net>>

Error ==
  /\ Receive("Error")
  /\ error' = TRUE
  /\ UNCHANGED <<connected, manager, handle, dialog, intent, unexpected,
                 release, input, notified, net>>

(* The session has ended; unless the user wanted it, it is held            *)
(* (hold_ssh_after_unexpected_disconnect), ...                             *)
End ==
  /\ Receive("Disconnected")
  /\ intent' = FALSE /\ connected' = FALSE
  /\ notified' = (notified \/ ~intent)
  /\ unexpected' = (unexpected \/ ~intent)
  /\ hold' = (hold \/ ~intent)
  /\ handle' = (handle /\ intent)
  /\ release' = (release \/ ~intent)
  /\ UNCHANGED <<error, buffer, net>>

(* Mutant: the manager is kept.                                            *)
DisconnectedKeepsManager == End /\ dialog' = FALSE /\ UNCHANGED manager

(* ... without its manager and without the question about offline input.   *)
Disconnected == End /\ manager' = (manager /\ intent) /\ dialog' = FALSE

(* The end of process_ssh_messages                                         *)
Processed ==
  /\ turn = "process" /\ batch = 0 /\ turn' = "user"
  /\ release' = FALSE
  /\ IF release THEN LetGo ELSE UNCHANGED link
  /\ UNCHANGED <<connected, error, manager, handle, dialog, intent,
                 unexpected, input, notified, schedule, settings, batch,
                 manual>>

-----------------------------------------------------------------------------
(* The user does one thing in a frame, or nothing.                         *)

(* capture_inline_input, append_offline_bytes, with a cap.                 *)
TypeUpTo(n) ==
  /\ hold /\ ~connected /\ ~dialog
  /\ buffer' = IF buffer < n THEN buffer + 1 ELSE buffer
  /\ UNCHANGED <<view, hold, notified, schedule, settings, link, manual>>

(* Mutant: the cap is passed by one.                                       *)
TypePastCap == TypeUpTo(OfflineCap + 1)

Type == TypeUpTo(OfflineCap)

(* disconnect_ssh_keep_buffer, of menus, palette and tab menu.             *)
DisconnectClick ==
  /\ Close /\ error' = FALSE /\ unexpected' = FALSE
  /\ hold' = TRUE /\ manual' = TRUE
  /\ UNCHANGED <<release, buffer, notified, schedule, settings>>

(* Cancel, on the placeholder of a connection under way.                   *)
CancelClick ==
  /\ Connecting
  /\ Disconnect /\ error' = TRUE
  /\ manual' = TRUE
  /\ UNCHANGED <<notified, schedule, settings>>

(* Reconnect, of menus, palette, banner, placeholder and notification.     *)
ReconnectClick == Reconnect(0) /\ UNCHANGED settings

(* The question about the offline input: send it, discard it, or close the *)
(* window of the question.                                                 *)
Answer ==
  /\ dialog /\ dialog' = FALSE
  /\ \/ hold' = FALSE /\ buffer' = 0
     \/ UNCHANGED input
  /\ UNCHANGED <<connected, error, manager, handle, intent, unexpected,
                 release, notified, schedule, settings, link, manual>>

(* The session is edited, or deleted from the list.                        *)
EditSession ==
  /\ \/ auto' = ~auto /\ UNCHANGED profile
     \/ profile /\ profile' = FALSE /\ auto' \in BOOLEAN
  /\ UNCHANGED <<view, input, notified, schedule, link, manual>>

User ==
  /\ turn = "user" /\ turn' = "foreground"
  /\ \/ Type \/ DisconnectClick \/ CancelClick \/ ReconnectClick
     \/ Answer \/ EditSession
     \/ UNCHANGED <<view, input, notified, schedule, settings, link, manual>>
  /\ UNCHANGED batch

(* poll_foreground_reconnect, should_reconnect_on_activation: when the     *)
(* window or the tab comes to the foreground and the preference is on.     *)
Foreground ==
  /\ turn = "foreground" /\ turn' = "retry"
  /\ \/ /\ unexpected /\ Banner /\ attempts < Max
        /\ Reconnect(attempts)
     \/ UNCHANGED <<view, input, notified, schedule, link, manual>>
  /\ UNCHANGED <<settings, batch>>

-----------------------------------------------------------------------------
(* The delay of the retry is over.                                         *)
Timer ==
  /\ next = "waiting" /\ next' = "due"
  /\ UNCHANGED <<view, input, notified, attempts, settings, link, frame,
                 manual>>

(* A thread of the connection sends the messages m and is in state s.      *)
Report(m, s) ==
  /\ mail' = mail \o m /\ net' = s
  /\ UNCHANGED <<view, input, notified, schedule, settings, frame, manual>>

(* The thread of create_session_async                                      *)
Connect ==
  /\ net = "connecting"
  /\ Report(<<"Connected">>, "up") \/ Report(<<"Error">>, "ended")

(* The shell pump ends: the shell has exited, reading failed, or both were *)
(* seen in the middle of a write and then again (ShellPump).               *)
ShellEnds ==
  /\ net = "shell"
  /\ \/ Report(<<"Disconnected">>, "ended")
     \/ Report(<<"Error", "Disconnected">>, "ended")
     \/ Report(<<"Disconnected", "Disconnected">>, "ended")

-----------------------------------------------------------------------------
Frame ==
  \/ Retry \/ Notice \/ Drain
  \/ Connected \/ Error \/ Disconnected \/ Processed
  \/ User \/ Foreground

Next == Frame \/ Timer \/ Connect \/ ShellEnds

Spec == Init /\ [][Next]_vars

(* The window is drawn at least once a second, time passes, and connecting *)
(* has timeouts (CONNECT_TIMEOUT).                                         *)
FairSpec == Spec /\ WF_vars(Frame) /\ WF_vars(Timer) /\ WF_vars(Connect)

-----------------------------------------------------------------------------
(* While a connection is under way nothing is planned that would tear it   *)
(* down and start another: neither a retry nor the notice that leads to one*)
(* (the sequence of due retries and notices in update, app.rs).            *)
AttemptUndisturbed == Connecting => next = "none" /\ ~notified

(* What the user typed offline is lost only by his answer, by cancelling a *)
(* connection, or when the session was deleted                             *)
(* (offline_input_snapshot, restore_offline_input_snapshot).               *)
OfflineKept ==
  [][buffer' < buffer =>
        \/ turn = "user" /\ (dialog \/ Connecting)
        \/ ~profile]_vars

(* A planned retry takes place, unless the session comes back before or    *)
(* automatic reconnection is switched off.                                 *)
RetryComes == next # "none" ~> next = "none" \/ ~auto

(* A tab does not stay connected to a shell that has ended (#258).         *)
EndIsSeen == net = "ended" /\ handle ~> ~connected

(* No tab is connecting for ever (the comment on ssh_manager at            *)
(* Disconnected: the overlay "connecting" would never go), unless the user *)
(* himself begins again and again.                                         *)
ConnectingEnds == []<>(~Connecting) \/ []<><<User /\ ReconnectClick>>_vars

(* After the user has disconnected, the tab does not reconnect by itself   *)
(* (FUNCTIONAL_SPEC: a manual disconnect does not reconnect).              *)
ManualStays ==
  ~(manual /\ turn = "retry" /\ ~connected /\ auto /\ next = "due")
=============================================================================
