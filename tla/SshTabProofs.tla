----------------------------- MODULE SshTabProofs -----------------------------
(***************************************************************************)
(* Theorems about an SSH tab, for any number of retries and any cap of the *)
(* offline input.                                                          *)
(*                                                                         *)
(* A connection under way is left alone because whoever ends a session     *)
(* also lets go of its manager: IntentHasNoManager is what makes this true *)
(* for the end that the user caused himself.                               *)
(***************************************************************************)
EXTENDS SshTab, SequenceTheorems, TLAPS

Booleans ==
  /\ connected \in BOOLEAN /\ error \in BOOLEAN /\ manager \in BOOLEAN
  /\ handle \in BOOLEAN /\ dialog \in BOOLEAN /\ intent \in BOOLEAN
  /\ unexpected \in BOOLEAN /\ release \in BOOLEAN /\ hold \in BOOLEAN
  /\ notified \in BOOLEAN /\ auto \in BOOLEAN /\ profile \in BOOLEAN
  /\ manual \in BOOLEAN
PlanOK == next \in {"none", "waiting", "due"} /\ attempts \in 0 .. Max
BufferOK == buffer \in 0 .. OfflineCap
Nets == {"none", "connecting", "up", "shell", "ended"}
Turns == {"retry", "notice", "drain", "process", "user", "foreground"}
LinkOK == mail \in Seq(Messages) /\ net \in Nets
BatchOK ==
  /\ turn \in Turns /\ batch \in 0 .. Len(mail)
  /\ turn # "process" => batch = 0

(* The user has ended the session, and its end has not been processed.     *)
IntentHasNoManager == intent => ~manager

Types == Booleans /\ PlanOK /\ BufferOK /\ LinkOK /\ BatchOK
IInv == Types /\ IntentHasNoManager /\ AttemptUndisturbed

LEMMA Bounds == Max \in Nat /\ Max > 0 /\ OfflineCap \in Nat /\ OfflineCap > 0
BY TabAssumption DEF TabAssumption

LEMMA NoMail == <<>> \in Seq(Messages) /\ Len(<<>>) = 0
BY EmptySeq

LEMMA InvariantParts == IInv => TypeOK /\ AttemptUndisturbed
<1> SUFFICES ASSUME IInv PROVE TypeOK
  BY DEF IInv
<1>1. {connected, error, manager, handle, dialog, intent, unexpected, release, hold,
       notified, auto, profile, manual} \subseteq BOOLEAN
  BY DEF IInv, Types, Booleans
<1> QED
  BY <1>1 DEF IInv, Types, PlanOK, BufferOK, LinkOK, BatchOK, Nets, Turns, TypeOK

LEMMA InitInvariant == Init => IInv
<1> SUFFICES ASSUME Init PROVE IInv
  OBVIOUS
<1>1. Booleans
  BY DEF Init, Booleans
<1>2. PlanOK /\ BufferOK
  BY Bounds DEF Init, PlanOK, BufferOK
<1>3. LinkOK /\ BatchOK
  BY NoMail DEF Init, LinkOK, BatchOK, Nets, Turns
<1>4. IntentHasNoManager /\ AttemptUndisturbed
  BY DEF Init, IntentHasNoManager, AttemptUndisturbed, Connecting
<1> QED
  BY <1>1, <1>2, <1>3, <1>4 DEF IInv, Types

-----------------------------------------------------------------------------
(* A tab that connects again, by itself or on a click.                     *)
LEMMA ReplaceStep ==
  ASSUME Types, Replace
  PROVE  /\ mail' = <<>> /\ net' \in {"connecting", "none"}
         /\ connected' \in BOOLEAN /\ error' \in BOOLEAN /\ manager' \in BOOLEAN
         /\ handle' \in BOOLEAN /\ dialog' \in BOOLEAN /\ intent' \in BOOLEAN
         /\ unexpected' \in BOOLEAN /\ release' \in BOOLEAN /\ hold' \in BOOLEAN
         /\ notified' \in BOOLEAN /\ buffer' \in {buffer, 0}
         /\ buffer' # buffer => ~profile
         /\ intent' => ~manager'
         /\ manager' => ~notified'
<1>1. CASE ReconnectWithoutProfile
  BY <1>1 DEF ReconnectWithoutProfile, Disconnect, Close, LetGo, Types, Booleans
<1>2. CASE profile /\ NewView /\ notified' = FALSE /\ UNCHANGED input
  BY <1>2 DEF NewView, input, Types, Booleans
<1> QED
  BY <1>1, <1>2 DEF Replace

LEMMA ReconnectStep ==
  ASSUME IInv, NEW n \in 0 .. Max, Reconnect(n), UNCHANGED <<settings, batch>>,
         turn # "process", turn' \in Turns \ {"process"}
  PROVE  IInv'
<1>1. Replace /\ attempts' = n /\ manual' = FALSE /\ next' = "none"
  BY DEF Reconnect
<1>2. Types
  BY DEF IInv
<1>3. /\ mail' = <<>> /\ net' \in {"connecting", "none"}
      /\ buffer' \in {buffer, 0}
      /\ intent' => ~manager'
      /\ manager' => ~notified'
  BY <1>1, <1>2, ReplaceStep
<1>4. Booleans'
  BY <1>1, <1>2, ReplaceStep DEF Types, Booleans, settings
<1>5. PlanOK' /\ BufferOK'
  BY <1>1, <1>3, Bounds DEF IInv, Types, PlanOK, BufferOK
<1>6. LinkOK' /\ BatchOK'
  BY <1>3, NoMail DEF IInv, Types, LinkOK, BatchOK, Nets
<1>7. IntentHasNoManager' /\ AttemptUndisturbed'
  BY <1>1, <1>3 DEF IntentHasNoManager, AttemptUndisturbed, Connecting
<1> QED
  BY <1>4, <1>5, <1>6, <1>7 DEF IInv, Types

LEMMA RetryStep ==
  ASSUME IInv, Retry
  PROVE  IInv'
<1>1. turn = "retry" /\ turn' = "notice" /\ UNCHANGED <<settings, batch>>
  BY DEF Retry
<1>2. CASE Reconnect(attempts)
  BY <1>1, <1>2, ReconnectStep DEF IInv, Types, PlanOK, Turns
<1>3. ASSUME UNCHANGED <<view, input, notified, link, manual>>,
             UNCHANGED schedule \/ (next' = "none" /\ attempts' = 0)
      PROVE  IInv'
  <2>1. Booleans' /\ BufferOK'
    BY <1>1, <1>3 DEF IInv, Types, Booleans, BufferOK, view, input, settings
  <2>2. PlanOK'
    BY <1>3, Bounds DEF IInv, Types, PlanOK, schedule
  <2>3. LinkOK' /\ BatchOK'
    BY <1>1, <1>3 DEF IInv, Types, LinkOK, BatchOK, Turns, link
  <2>4. IntentHasNoManager' /\ AttemptUndisturbed'
    BY <1>3 DEF IInv, IntentHasNoManager, AttemptUndisturbed, Connecting, view, schedule
  <2> QED
    BY <2>1, <2>2, <2>3, <2>4 DEF IInv, Types
<1> QED
  BY <1>2, <1>3 DEF Retry

LEMMA NoticeStep ==
  ASSUME IInv, Notice
  PROVE  IInv'
<1>1. /\ turn = "notice" /\ turn' = "drain" /\ notified' = FALSE
      /\ UNCHANGED <<view, input, settings, link, batch, manual>>
      /\ \/ UNCHANGED <<next, attempts>>
         \/ notified /\ next' = "none" /\ attempts' = attempts
         \/ /\ notified /\ next' = "waiting"
            /\ ~(attempts >= Max) /\ attempts' = attempts + 1
  BY DEF Notice, schedule
<1>2. Booleans' /\ BufferOK'
  BY <1>1, ZenonT(60) DEF IInv, Types, Booleans, BufferOK, view, input, settings
<1>3. PlanOK'
  BY <1>1, Bounds DEF IInv, Types, PlanOK
<1>4. LinkOK' /\ BatchOK'
  BY <1>1 DEF IInv, Types, LinkOK, BatchOK, Turns, link
<1>5. IntentHasNoManager' /\ AttemptUndisturbed'
  BY <1>1 DEF IInv, IntentHasNoManager, AttemptUndisturbed, Connecting, view
<1> QED
  BY <1>2, <1>3, <1>4, <1>5 DEF IInv, Types

-----------------------------------------------------------------------------
(* Messages.                                                               *)
LEMMA ReceiveStep ==
  ASSUME Types, NEW m, Receive(m)
  PROVE  /\ mail' \in Seq(Messages) /\ BatchOK' /\ PlanOK'
         /\ UNCHANGED <<next, attempts, auto, profile, turn, manual>>
<1>1. /\ turn = "process" /\ batch > 0 /\ mail' = Tail(mail) /\ batch' = batch - 1
      /\ UNCHANGED <<next, attempts, auto, profile, turn, manual>>
  BY DEF Receive, schedule, settings
<1>2. mail \in Seq(Messages) /\ batch \in 0 .. Len(mail) /\ Len(mail) \in Nat
  BY LenProperties DEF Types, LinkOK, BatchOK
<1>3. mail # <<>>
  BY <1>1, <1>2, NoMail
<1>4. Tail(mail) \in Seq(Messages) /\ Len(Tail(mail)) = Len(mail) - 1
  BY <1>2, <1>3, HeadTailProperties
<1>5. batch' \in 0 .. Len(mail')
  BY <1>1, <1>2, <1>4
<1> QED
  BY <1>1, <1>4, <1>5 DEF Types, BatchOK, PlanOK

LEMMA MessageStep ==
  ASSUME IInv, Connected \/ Error \/ Disconnected
  PROVE  IInv'
<1>1. PICK m \in Messages : Receive(m)
  BY DEF Connected, Error, Disconnected, End, Messages
<1>2. /\ mail' \in Seq(Messages) /\ BatchOK' /\ PlanOK'
      /\ UNCHANGED <<next, attempts, auto, profile, turn, manual>>
  BY <1>1, ReceiveStep DEF IInv
<1>3. buffer' = buffer /\ net' \in {net, "shell"}
  BY DEF Connected, Error, Disconnected, End, input
<1>4. LinkOK' /\ BufferOK'
  BY <1>2, <1>3 DEF IInv, Types, LinkOK, BufferOK, Nets
<1>5. Booleans'
  <2>1. CASE Connected
    BY <1>2, <2>1 DEF IInv, Types, Booleans, Connected, input
  <2>2. CASE Error
    BY <1>2, <2>2 DEF IInv, Types, Booleans, Error, input
  <2>3. ASSUME Disconnected PROVE Booleans'
    <3>1. /\ intent' = FALSE /\ connected' = FALSE /\ dialog' = FALSE
          /\ notified' \in BOOLEAN /\ unexpected' \in BOOLEAN /\ hold' \in BOOLEAN
          /\ handle' \in BOOLEAN /\ release' \in BOOLEAN /\ manager' \in BOOLEAN
          /\ error' = error
      BY <2>3 DEF Disconnected, End
    <3> QED
      BY <1>2, <3>1 DEF IInv, Types, Booleans
  <2> QED
    BY <2>1, <2>2, <2>3
<1>6. IntentHasNoManager' /\ AttemptUndisturbed'
  <2>1. CASE Connected
    BY <1>2, <2>1 DEF IInv, IntentHasNoManager, AttemptUndisturbed, Connecting, Connected
  <2>2. CASE Error
    BY <1>2, <2>2 DEF IInv, IntentHasNoManager, AttemptUndisturbed, Connecting, Error
  <2>3. ASSUME Disconnected PROVE IntentHasNoManager' /\ AttemptUndisturbed'
    <3>1. intent' = FALSE /\ ~manager'
      BY <2>3 DEF Disconnected, End, IInv, IntentHasNoManager
    <3> QED
      BY <3>1 DEF IntentHasNoManager, AttemptUndisturbed, Connecting
  <2> QED
    BY <2>1, <2>2, <2>3
<1> QED
  BY <1>2, <1>4, <1>5, <1>6 DEF IInv, Types

LEMMA DrainStep ==
  ASSUME IInv, Drain \/ Processed
  PROVE  IInv'
<1>1. /\ UNCHANGED <<connected, error, manager, handle, dialog, intent, unexpected,
                     input, notified, schedule, settings, manual>>
      /\ (release' = release \/ release' = FALSE)
  <2>1. CASE Drain
    BY <2>1 DEF Drain, view
  <2>2. CASE Processed
    BY <2>2 DEF Processed
  <2> QED
    BY <2>1, <2>2
<1>2. Booleans' /\ BufferOK' /\ PlanOK'
  <2>1. release' \in BOOLEAN
    BY <1>1 DEF IInv, Types, Booleans
  <2>2. Booleans'
    BY <1>1, <2>1 DEF IInv, Types, Booleans, input, settings
  <2> QED
    BY <1>1, <2>2 DEF IInv, Types, BufferOK, PlanOK, input, schedule
<1>3. LinkOK' /\ BatchOK'
  <2>1. CASE Drain
    <3>1. turn' = "process" /\ UNCHANGED <<mail, net>>
      BY <2>1 DEF Drain, link
    <3>2. \E n \in 0 .. Len(mail) : batch' = n
      BY <2>1 DEF Drain
    <3>3. mail' = mail /\ net' = net
      BY <3>1
    <3>4. LinkOK'
      BY <3>3 DEF IInv, Types, LinkOK
    <3>5. BatchOK'
      BY <3>1, <3>2, <3>3 DEF BatchOK, Turns
    <3> QED
      BY <3>4, <3>5
  <2>2. CASE Processed
    <3>1. turn' = "user" /\ batch' = 0
      BY <2>2 DEF Processed
    <3>2. LinkOK'
      <4>1. CASE release
        BY <2>2, <4>1, NoMail DEF Processed, LetGo, LinkOK, Nets
      <4>2. CASE ~release
        BY <2>2, <4>2 DEF Processed, IInv, Types, LinkOK, link
      <4> QED
        BY <4>1, <4>2
    <3>3. Len(mail') \in Nat
      BY <3>2, LenProperties DEF LinkOK
    <3> QED
      BY <3>1, <3>2, <3>3 DEF BatchOK, Turns
  <2> QED
    BY <2>1, <2>2
<1>4. IntentHasNoManager' /\ AttemptUndisturbed'
  BY <1>1 DEF IInv, IntentHasNoManager, AttemptUndisturbed, Connecting, schedule
<1> QED
  BY <1>2, <1>3, <1>4 DEF IInv, Types

-----------------------------------------------------------------------------
(* The user.                                                               *)
LEMMA EndClickStep ==
  ASSUME IInv, DisconnectClick \/ CancelClick, turn' \in Turns \ {"process"},
         turn # "process", UNCHANGED batch
  PROVE  IInv'
<1>1. Close /\ UNCHANGED <<notified, next, attempts, auto, profile>>
      /\ manual' = TRUE /\ error' \in BOOLEAN /\ unexpected' = FALSE
      /\ hold' \in BOOLEAN /\ release' \in {release, FALSE} /\ buffer' \in {buffer, 0}
  BY DEF DisconnectClick, CancelClick, Disconnect, schedule, settings
<1>2. Booleans'
  BY <1>1 DEF IInv, Types, Booleans, Close
<1>3. PlanOK' /\ BufferOK'
  BY <1>1, Bounds DEF IInv, Types, PlanOK, BufferOK
<1>4. LinkOK' /\ BatchOK'
  BY <1>1, NoMail DEF IInv, Types, LinkOK, BatchOK, Nets, Close, LetGo
<1>5. IntentHasNoManager' /\ AttemptUndisturbed'
  BY <1>1 DEF IntentHasNoManager, AttemptUndisturbed, Connecting, Close
<1> QED
  BY <1>2, <1>3, <1>4, <1>5 DEF IInv, Types

LEMMA UserStep ==
  ASSUME IInv, User
  PROVE  IInv'
<1>1. turn = "user" /\ turn' = "foreground" /\ UNCHANGED batch
  BY DEF User
<1>2. turn # "process" /\ turn' \in Turns \ {"process"}
  BY <1>1 DEF Turns
<1>3. CASE DisconnectClick \/ CancelClick
  BY <1>1, <1>2, <1>3, EndClickStep
<1>4. CASE ReconnectClick
  BY <1>1, <1>2, <1>4, ReconnectStep, Bounds DEF ReconnectClick
<1>5. ASSUME \/ Type \/ Answer \/ EditSession
             \/ UNCHANGED <<view, input, notified, schedule, settings, link, manual>>
      PROVE  IInv'
  <2>1. UNCHANGED <<connected, error, manager, handle, intent, unexpected, release,
                    notified, schedule, link, manual>>
    BY <1>5 DEF Type, TypeUpTo, Answer, EditSession, view
  <2>2. auto' \in BOOLEAN /\ profile' \in BOOLEAN /\ dialog' \in BOOLEAN
        /\ hold' \in BOOLEAN
    BY <1>5 DEF Type, TypeUpTo, Answer, EditSession, IInv, Types, Booleans, view, input,
                settings
  <2>3. BufferOK'
    BY <1>5, Bounds DEF Type, TypeUpTo, Answer, EditSession, IInv, Types, BufferOK, input
  <2>4. Booleans'
    BY <2>1, <2>2 DEF IInv, Types, Booleans
  <2>5. PlanOK' /\ LinkOK' /\ BatchOK'
    BY <1>1, <1>2, <2>1 DEF IInv, Types, PlanOK, LinkOK, BatchOK, schedule, link
  <2>6. IntentHasNoManager' /\ AttemptUndisturbed'
    BY <2>1 DEF IInv, IntentHasNoManager, AttemptUndisturbed, Connecting, schedule
  <2> QED
    BY <2>3, <2>4, <2>5, <2>6 DEF IInv, Types
<1> QED
  BY <1>3, <1>4, <1>5 DEF User

LEMMA ForegroundStep ==
  ASSUME IInv, Foreground
  PROVE  IInv'
<1>1. turn = "foreground" /\ turn' = "retry" /\ UNCHANGED <<settings, batch>>
  BY DEF Foreground
<1>2. turn # "process" /\ turn' \in Turns \ {"process"}
  BY <1>1 DEF Turns
<1>3. CASE Reconnect(attempts)
  BY <1>1, <1>2, <1>3, ReconnectStep DEF IInv, Types, PlanOK
<1>4. CASE UNCHANGED <<view, input, notified, schedule, link, manual>>
  <2>1. Booleans' /\ BufferOK' /\ PlanOK'
    BY <1>1, <1>4 DEF IInv, Types, Booleans, BufferOK, PlanOK, view, input, schedule,
                      settings
  <2>2. LinkOK' /\ BatchOK'
    BY <1>1, <1>2, <1>4 DEF IInv, Types, LinkOK, BatchOK, link
  <2>3. IntentHasNoManager' /\ AttemptUndisturbed'
    BY <1>4 DEF IInv, IntentHasNoManager, AttemptUndisturbed, Connecting, view, schedule
  <2> QED
    BY <2>1, <2>2, <2>3 DEF IInv, Types
<1> QED
  BY <1>3, <1>4 DEF Foreground

-----------------------------------------------------------------------------
(* The threads of the connection and the clock.                            *)
LEMMA LonelyStep ==
  ASSUME IInv, Timer \/ Connect \/ ShellEnds
  PROVE  IInv'
<1>1. /\ UNCHANGED <<view, input, notified, attempts, settings, frame, manual>>
      /\ next' = next \/ (next = "waiting" /\ next' = "due")
  BY DEF Timer, Connect, ShellEnds, Report, schedule
<1>2. /\ net' \in {net, "up", "ended"}
      /\ \/ mail' = mail
         \/ \E m \in {<<"Connected">>, <<"Error">>, <<"Disconnected">>,
                      <<"Error", "Disconnected">>, <<"Disconnected", "Disconnected">>} :
              mail' = mail \o m
  BY DEF Timer, Connect, ShellEnds, Report, link
<1>3. mail' \in Seq(Messages) /\ batch \in 0 .. Len(mail')
  <2>1. mail \in Seq(Messages) /\ batch \in 0 .. Len(mail) /\ Len(mail) \in Nat
    BY LenProperties DEF IInv, Types, LinkOK, BatchOK
  <2>2. /\ <<"Connected">> \in Seq(Messages)
        /\ <<"Error">> \in Seq(Messages)
        /\ <<"Disconnected">> \in Seq(Messages)
        /\ <<"Error", "Disconnected">> \in Seq(Messages)
        /\ <<"Disconnected", "Disconnected">> \in Seq(Messages)
    <3>1. "Connected" \in Messages /\ "Error" \in Messages /\ "Disconnected" \in Messages
      BY DEF Messages
    <3>2. <<"Connected">> \in Seq(Messages)
      BY <3>1
    <3>3. <<"Error">> \in Seq(Messages)
      BY <3>1
    <3>4. <<"Disconnected">> \in Seq(Messages)
      BY <3>1
    <3>5. <<"Error", "Disconnected">> \in Seq(Messages)
      BY <3>1
    <3>6. <<"Disconnected", "Disconnected">> \in Seq(Messages)
      BY <3>1
    <3> QED
      BY <3>2, <3>3, <3>4, <3>5, <3>6
  <2>3. ASSUME NEW m \in Seq(Messages), mail' = mail \o m
        PROVE  mail' \in Seq(Messages) /\ batch \in 0 .. Len(mail')
    <3>1. mail \o m \in Seq(Messages) /\ Len(mail \o m) = Len(mail) + Len(m)
      BY <2>1, ConcatProperties
    <3>2. Len(m) \in Nat
      BY LenProperties
    <3> QED
      BY <2>1, <2>3, <3>1, <3>2
  <2>4. CASE mail' = mail
    BY <2>1, <2>4
  <2>5. CASE mail' # mail
    <3>1. PICK m \in {<<"Connected">>, <<"Error">>, <<"Disconnected">>,
                      <<"Error", "Disconnected">>, <<"Disconnected", "Disconnected">>} :
            mail' = mail \o m
      BY <1>2, <2>5
    <3>2. m \in Seq(Messages)
      BY <2>2, <3>1, Zenon
    <3> QED
      BY <2>3, <3>1, <3>2
  <2> QED
    BY <2>4, <2>5
<1>4. LinkOK' /\ BatchOK'
  BY <1>1, <1>2, <1>3 DEF IInv, Types, LinkOK, BatchOK, Nets, frame
<1>5. Booleans' /\ BufferOK' /\ PlanOK'
  BY <1>1 DEF IInv, Types, Booleans, BufferOK, PlanOK, view, input, settings
<1>6. IntentHasNoManager' /\ AttemptUndisturbed'
  BY <1>1 DEF IInv, IntentHasNoManager, AttemptUndisturbed, Connecting, view
<1> QED
  BY <1>4, <1>5, <1>6 DEF IInv, Types

LEMMA NextStep ==
  ASSUME IInv, [Next]_vars
  PROVE  IInv'
<1>1. CASE Frame
  BY <1>1, RetryStep, NoticeStep, DrainStep, MessageStep, UserStep, ForegroundStep
     DEF Frame
<1>2. CASE Timer \/ Connect \/ ShellEnds
  BY <1>2, LonelyStep
<1>3. CASE UNCHANGED vars
  BY <1>3 DEF vars, view, input, schedule, settings, link, frame, IInv, Types, Booleans,
     PlanOK, BufferOK, LinkOK, BatchOK, IntentHasNoManager, AttemptUndisturbed, Connecting
<1> QED
  BY <1>1, <1>2, <1>3 DEF Next

LEMMA Invariant == Spec => []IInv
<1>1. IInv /\ [Next]_vars => IInv'
  BY NextStep
<1> QED
  BY InitInvariant, <1>1, PTL DEF Spec

(* The tab keeps its shape: neither retries nor offline input pass their   *)
(* limits, and a frame never counts on messages that are not there.        *)
THEOREM TabTypes == Spec => []TypeOK
<1>1. IInv => TypeOK
  BY InvariantParts
<1> QED
  BY Invariant, <1>1, PTL

(* No retry and no notice of a lost session is left that would tear down a *)
(* connection under way, however clicks, retries and messages interleave.  *)
THEOREM AttemptLeftAlone == Spec => []AttemptUndisturbed
<1>1. IInv => AttemptUndisturbed
  BY InvariantParts
<1> QED
  BY Invariant, <1>1, PTL

(* Offline input is lost only by the user's answer, by cancelling or with  *)
(* the session.                                                            *)
THEOREM OfflineInputKept == Spec => OfflineKept
<1>1. ASSUME IInv, [Next]_vars, buffer' < buffer
      PROVE  (turn = "user" /\ (dialog \/ Connecting)) \/ ~profile
  <2>1. buffer' # buffer /\ buffer \in Nat
    BY <1>1 DEF IInv, Types, BufferOK
  <2>2. \A n : Reconnect(n) => ~profile
    BY <1>1, <2>1, ReplaceStep DEF Reconnect, IInv
  <2>3. ~UNCHANGED input
    BY <2>1 DEF input
  <2>4. ASSUME User PROVE (turn = "user" /\ (dialog \/ Connecting)) \/ ~profile
    <3>1. ~Type
      BY <1>1, <2>1 DEF Type, TypeUpTo
    <3>2. ~EditSession /\ ~DisconnectClick
      BY <2>1, <2>3 DEF EditSession, DisconnectClick
    <3>3. Answer => dialog
      BY DEF Answer
    <3>4. CancelClick => Connecting
      BY DEF CancelClick
    <3>5. ReconnectClick => ~profile
      BY <2>2 DEF ReconnectClick
    <3> QED
      BY <2>3, <2>4, <3>1, <3>2, <3>3, <3>4, <3>5 DEF User
  <2>5. Retry \/ Foreground => ~profile
    BY <2>2, <2>3 DEF Retry, Foreground
  <2>6. ~Notice /\ ~Drain /\ ~Connected /\ ~Error /\ ~Disconnected /\ ~Processed
        /\ ~Timer /\ ~Connect /\ ~ShellEnds /\ ~UNCHANGED vars
    BY <2>1, <2>3 DEF Notice, Drain, Connected, Error, Disconnected, End, Processed,
                      Timer, Connect, ShellEnds, Report, vars
  <2> QED
    BY <1>1, <2>4, <2>5, <2>6 DEF Next, Frame
<1>2. IInv /\ [Next]_vars =>
        (buffer' < buffer => \/ turn = "user" /\ (dialog \/ Connecting)
                             \/ ~profile)
  BY <1>1
<1> QED
  BY Invariant, <1>2, PTL DEF Spec, OfflineKept
=============================================================================
