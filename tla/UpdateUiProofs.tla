---------------------------- MODULE UpdateUiProofs ----------------------------
(***************************************************************************)
(* Theorems about the updater of a window, for any versions and offers.    *)
(*                                                                         *)
(* What the dialog shows fits the thread only because of what can be in    *)
(* the channel: MailOK says it for each kind of task, and that a channel   *)
(* whose thread has ended is empty only after a panic.  From it follows    *)
(* which of the answers can arrive in which phase.                         *)
(***************************************************************************)
EXTENDS UpdateUi, SequenceTheorems, TLAPS

Booleans ==
  /\ cancel \in BOOLEAN /\ dialog \in BOOLEAN /\ prefetching \in BOOLEAN
  /\ prefetched \in BOOLEAN /\ queued \in BOOLEAN /\ notify \in BOOLEAN
  /\ toast \in BOOLEAN /\ closing \in BOOLEAN /\ asked \in BOOLEAN
  /\ stopped \in BOOLEAN /\ died \in BOOLEAN
Tasks == [kind : {"none", "check", "install", "prefetch"},
          v : Versions \cup {None}, manual : BOOLEAN]
Shapes ==
  /\ phase \in Phases /\ info \in Versions \cup {None} /\ plan \in Plans
  /\ task \in Tasks
  /\ confirm \in {"none", "restart", "installer"}
  /\ skipped \in Versions \cup {None} /\ pending \in Versions \cup {None}

Found(o) == [kind |-> "found", v |-> o.v, plan |-> o.plan]
CheckMail == {Msg("uptodate"), Msg("failed")} \cup {Found(o) : o \in Offers}
PrefetchMail == {Msg("prefetched"), Msg("error")}
FinalMail == {Msg("installed"), Msg("setup"), Msg("cancelled"), Msg("error")}

Started == worker = "run" /\ mail = <<>>
Answered(answers) == worker = "off" /\ \E m \in answers : mail = <<m>>
Dead == died /\ worker = "off" /\ mail = <<>>

MailOK ==
  \/ task.kind = "none" /\ worker = "off" /\ mail = <<>>
  \/ task.kind = "check" /\ (Started \/ Answered(CheckMail) \/ Dead)
  \/ task.kind = "prefetch" /\ (Started \/ Answered(PrefetchMail) \/ Dead)
  \/ /\ task.kind = "install"
     /\ \/ Started \/ Answered(FinalMail) \/ Dead
        \/ worker = "installing" /\ mail \in {<<>>, <<Msg("installing")>>}
        \/ /\ worker = "off"
           /\ \E m \in FinalMail : mail = <<Msg("installing"), m>>
        \/ died /\ worker = "off" /\ mail = <<Msg("installing")>>

Offering ==
  phase \in {"available", "working", "installing", "installfailed"} => info # None
InstallShown == task.kind = "install" => Working
OnlyInstallShown == ~died /\ ~closing /\ Working => task.kind = "install"
Prefetching ==
  /\ ~died => (prefetching <=> task.kind = "prefetch")
  /\ ~died /\ queued => prefetching
Asking == ~died /\ queued => asked

Agreement ==
  /\ Offering /\ InstallShown /\ OnlyInstallShown /\ Prefetching /\ Asking
  /\ CancelIsForThisTask
IInv == Booleans /\ Shapes /\ MailOK /\ Agreement

-----------------------------------------------------------------------------
LEMMA NoMessage == DOMAIN <<>> = {} /\ Len(<<>>) = 0
OBVIOUS

LEMMA OneMessage ==
  ASSUME NEW m
  PROVE  /\ Append(<<>>, m) = <<m>> /\ Head(<<m>>) = m /\ Tail(<<m>>) = <<>>
         /\ <<m>> # <<>> /\ DOMAIN <<m>> = {1} /\ <<m>>[1] = m /\ Len(<<m>>) = 1
<1>1. <<m>>[1] = m /\ Len(<<m>>) = 1 /\ DOMAIN <<m>> = {1} /\ <<m>> # <<>>
  OBVIOUS
<1>2. Append(<<>>, m) = <<m>>
  OBVIOUS
<1>3. Head(<<m>>) = m
  OBVIOUS
<1>4. Tail(<<m>>) = <<>>
  <2>1. <<>> \in Seq({m})
    BY EmptySeq
  <2> QED
    BY <1>2, <2>1, HeadTailAppend
<1> QED
  BY <1>1, <1>2, <1>3, <1>4

LEMMA TwoMessages ==
  ASSUME NEW m, NEW n
  PROVE  /\ Append(<<m>>, n) = <<m, n>> /\ Head(<<m, n>>) = m
         /\ Tail(<<m, n>>) = <<n>> /\ <<m, n>> # <<>>
         /\ DOMAIN <<m, n>> = {1, 2} /\ <<m, n>>[1] = m /\ <<m, n>>[2] = n
         /\ Len(<<m, n>>) = 2
<1>1. /\ <<m, n>>[1] = m /\ <<m, n>>[2] = n /\ Len(<<m, n>>) = 2
      /\ DOMAIN <<m, n>> = {1, 2} /\ <<m, n>> # <<>>
  OBVIOUS
<1>2. Append(<<m>>, n) = <<m, n>>
  <2>1. <<m>> \in Seq({m, n}) /\ <<m, n>> \in Seq({m, n}) /\ Len(<<m>>) = 1
        /\ <<m>>[1] = m
    OBVIOUS
  <2>2. /\ Append(<<m>>, n) \in Seq({m, n}) /\ Len(Append(<<m>>, n)) = 2
        /\ Append(<<m>>, n)[1] = m /\ Append(<<m>>, n)[2] = n
    <3>1. n \in {m, n} /\ 1 \in 1 .. 1
      OBVIOUS
    <3>2. /\ Append(<<m>>, n) \in Seq({m, n})
          /\ Len(Append(<<m>>, n)) = 1 + 1
          /\ \A i \in 1 .. 1 : Append(<<m>>, n)[i] = <<m>>[i]
          /\ Append(<<m>>, n)[1 + 1] = n
      BY <2>1, <3>1, AppendProperties
    <3> QED
      BY <2>1, <3>1, <3>2
  <2>3. \A i \in 1 .. 2 : Append(<<m>>, n)[i] = <<m, n>>[i]
    <3>1. \A i \in 1 .. 2 : i = 1 \/ i = 2
      OBVIOUS
    <3> QED
      BY <1>1, <2>2, <3>1
  <2> QED
    BY <1>1, <2>1, <2>2, <2>3, SeqEqual
<1>3. <<m>> \in Seq({m}) /\ <<m>> # <<>>
  OBVIOUS
<1>4. Head(<<m, n>>) = Head(<<m>>) /\ Tail(<<m, n>>) = Append(Tail(<<m>>), n)
  BY <1>2, <1>3, HeadTailAppend
<1>5. Append(<<>>, n) = <<n>>
  BY OneMessage
<1> QED
  BY <1>1, <1>2, <1>4, <1>5, OneMessage

LEMMA MessageTypes ==
  /\ CheckMail \subseteq Messages /\ PrefetchMail \subseteq Messages
  /\ FinalMail \subseteq Messages /\ Msg("installing") \in Messages
  /\ \A m \in CheckMail : /\ m.kind \in {"uptodate", "failed", "found"}
                          /\ m.kind = "found" => m.v \in Versions /\ m.v # None
                          /\ m.plan \in Plans
  /\ \A m \in PrefetchMail : m.kind \in {"prefetched", "error"}
  /\ \A m \in FinalMail : m.kind \in {"installed", "setup", "cancelled", "error"}
  /\ Msg("installing").kind = "installing"
<1>1. \A o \in Offers : /\ Found(o) \in Messages /\ Found(o).kind = "found"
                        /\ Found(o).v \in Versions /\ Found(o).plan \in Plans
  BY UiAssumption DEF UiAssumption, Found, Messages, Versions, Plans
<1>2. None \notin Versions
  BY UiAssumption DEF UiAssumption, Versions, None
<1>3. \A k \in {"uptodate", "failed", "installing", "installed", "setup",
                "cancelled", "error", "prefetched"} :
        Msg(k) \in Messages /\ Msg(k).kind = k /\ Msg(k).plan \in Plans
  BY DEF Msg, Messages, Plans
<1> QED
  BY <1>1, <1>2, <1>3 DEF CheckMail, PrefetchMail, FinalMail

LEMMA NoTaskType ==
  /\ NoTask \in Tasks /\ NoTask.kind = "none"
  /\ \A manual \in BOOLEAN :
       /\ [NoTask EXCEPT !.kind = "check", !.manual = manual] \in Tasks
       /\ [NoTask EXCEPT !.kind = "check", !.manual = manual].kind = "check"
  /\ \A v \in Versions \cup {None} :
       /\ [NoTask EXCEPT !.kind = "install", !.v = v] \in Tasks
       /\ [NoTask EXCEPT !.kind = "install", !.v = v].kind = "install"
       /\ [NoTask EXCEPT !.kind = "prefetch", !.v = v] \in Tasks
       /\ [NoTask EXCEPT !.kind = "prefetch", !.v = v].kind = "prefetch"
BY DEF NoTask, Tasks

LEMMA InvariantParts ==
  IInv => TypeOK /\ FlagsAgree /\ CancelIsForThisTask
<1> SUFFICES ASSUME IInv PROVE TypeOK /\ FlagsAgree /\ CancelIsForThisTask
  OBVIOUS
<1>1. mail \in Seq(Messages) /\ Len(mail) <= 2 /\ worker \in {"off", "run", "installing"}
  <2>1. \/ mail = <<>>
        \/ \E m \in Messages : mail = <<m>>
        \/ \E m, n \in Messages : mail = <<m, n>>
    BY MessageTypes DEF IInv, MailOK, Started, Answered, Dead
  <2>2. mail \in Seq(Messages) /\ Len(mail) <= 2
    <3>1. CASE mail = <<>>
      BY <3>1
    <3>2. ASSUME NEW m \in Messages, mail = <<m>>
          PROVE  mail \in Seq(Messages) /\ Len(mail) <= 2
      BY <3>2
    <3>3. ASSUME NEW m \in Messages, NEW n \in Messages, mail = <<m, n>>
          PROVE  mail \in Seq(Messages) /\ Len(mail) <= 2
      BY <3>3
    <3> QED
      BY <2>1, <3>1, <3>2, <3>3
  <2>3. worker \in {"off", "run", "installing"}
    BY DEF IInv, MailOK, Started, Answered, Dead
  <2> QED
    BY <2>2, <2>3
<1>2. {cancel, dialog, prefetching, prefetched, queued, notify, toast, closing,
       asked, stopped, died} \subseteq BOOLEAN
  BY DEF IInv, Booleans
<1>3. TypeOK
  BY <1>1, <1>2 DEF IInv, Shapes, TypeOK, Tasks
<1>4. FlagsAgree
  BY DEF IInv, Agreement, Offering, InstallShown, OnlyInstallShown, Prefetching,
         FlagsAgree
<1> QED
  BY <1>3, <1>4 DEF IInv, Agreement

LEMMA InitInvariant == Init => IInv
<1> SUFFICES ASSUME Init PROVE IInv
  OBVIOUS
<1>1. Booleans
  BY DEF Init, Booleans
<1>2. Shapes
  BY NoTaskType DEF Init, Shapes, Phases, Plans
<1>3. MailOK
  BY NoTaskType DEF Init, MailOK
<1>4. Agreement
  BY NoTaskType DEF Init, Agreement, Offering, InstallShown, OnlyInstallShown, Working,
     Prefetching, Asking, CancelIsForThisTask
<1> QED
  BY <1>1, <1>2, <1>3, <1>4 DEF IInv

-----------------------------------------------------------------------------
(* The steps that leave the thread and its channel alone.                  *)
LEMMA ThreadStays ==
  ASSUME MailOK, UNCHANGED <<task, mail, worker, died>>
  PROVE  MailOK'
BY DEF MailOK, Started, Answered, Dead

LEMMA PhaseStays ==
  ASSUME Agreement,
         UNCHANGED <<phase, info, task, mail, cancel, stopped, died, queued,
                     prefetching, asked>>,
         closing => closing'
  PROVE  Agreement'
BY DEF Agreement, Offering, InstallShown, OnlyInstallShown, Working, Prefetching,
       Asking, CancelIsForThisTask

LEMMA NotifyStep ==
  ASSUME IInv, Notify \/ AnswerToast \/ Restart \/ ConfirmNo \/ Outside
  PROVE  IInv'
<1>1. UNCHANGED <<phase, info, plan, prefetching, prefetched, queued, thread, skipped,
                  history>>
  BY DEF Notify, AnswerToast, Restart, ConfirmNo, Outside, ui, saved
<1>2. ~closing
  BY DEF Notify, AnswerToast, Restart, Showing, ConfirmNo, Outside
<1>3. Booleans'
  <2> USE <1>1 DEF IInv, Booleans, thread, history
  <2>1. CASE Notify
    BY <2>1 DEF Notify
  <2>2. CASE AnswerToast
    BY <2>2 DEF AnswerToast
  <2>3. CASE Restart
    BY <2>3 DEF Restart, RestartNow
  <2>4. CASE ConfirmNo
    BY <2>4 DEF ConfirmNo
  <2>5. CASE Outside
    BY <2>5 DEF Outside, ui
  <2> QED
    BY <2>1, <2>2, <2>3, <2>4, <2>5
<1>4. Shapes'
  BY <1>1 DEF IInv, Shapes, Notify, AnswerToast, Restart, ConfirmNo, Outside, ui,
              thread, saved
<1>5. MailOK' /\ Agreement'
  BY <1>1, <1>2, ThreadStays, PhaseStays DEF IInv, thread, history
<1> QED
  BY <1>3, <1>4, <1>5 DEF IInv

(* A check begins, or cannot.                                              *)
LEMMA StartCheckStep ==
  ASSUME IInv, ~Busy, ~Working, NEW manual \in BOOLEAN, StartCheck(manual),
         UNCHANGED <<info, mail, cancel, stopped, died, queued, prefetching, asked>>
  PROVE  /\ MailOK' /\ Agreement' /\ task' \in Tasks /\ phase' \in Phases
<1>1. task.kind = "none" /\ worker = "off" /\ mail = <<>>
  BY DEF Busy, IInv, MailOK
<1>2. /\ task' \in Tasks /\ task'.kind \in {"none", "check"}
      /\ task'.kind = "none" => worker' = "off"
      /\ task'.kind = "check" => worker' = "run"
  <2>1. CASE /\ task' = [NoTask EXCEPT !.kind = "check", !.manual = manual]
             /\ worker' = "run"
    <3>1. task' \in Tasks /\ task'.kind = "check"
      BY <2>1, NoTaskType
    <3> QED
      BY <2>1, <3>1
  <2>2. CASE UNCHANGED <<task, worker>>
    BY <1>1, <2>2 DEF IInv, Shapes
  <2> QED
    BY <2>1, <2>2 DEF StartCheck
<1>3. phase' \in {phase, "checking", "checkfailed"}
  BY DEF StartCheck
<1>4. MailOK'
  BY <1>1, <1>2 DEF MailOK, Started
<1>5. phase' \in Phases
  BY <1>3 DEF Phases, IInv, Shapes
<1>6. ~Working'
  BY <1>3 DEF Working
<1>7. Agreement'
  BY <1>1, <1>2, <1>3, <1>6 DEF IInv, Agreement, Offering, InstallShown,
     OnlyInstallShown, Prefetching, Asking, CancelIsForThisTask
<1> QED
  BY <1>2, <1>4, <1>5, <1>7

LEMMA CheckStep ==
  ASSUME IInv, AutoCheck \/ CheckNow \/ Retry
  PROVE  IInv'
<1>1. UNCHANGED <<info, plan, confirm, prefetching, prefetched, queued, notify, toast,
                  closing, mail, cancel, saved, history>>
  BY DEF AutoCheck, CheckNow, Retry
<1>2. Booleans'
  <2>1. dialog' = dialog \/ dialog' = TRUE
    BY DEF AutoCheck, CheckNow, Retry
  <2> QED
    BY <1>1, <2>1 DEF IInv, Booleans, history
<1>3. ASSUME ~Busy, ~Working, NEW manual \in BOOLEAN, StartCheck(manual)
      PROVE  MailOK' /\ Agreement' /\ task' \in Tasks /\ phase' \in Phases
  BY <1>1, <1>3, StartCheckStep DEF history
<1>4. ASSUME UNCHANGED <<task, worker>>,
             phase' = phase \/ (~Working /\ phase' = "checking")
      PROVE  MailOK' /\ Agreement' /\ task' \in Tasks /\ phase' \in Phases
  <2>1. MailOK' /\ task' \in Tasks
    BY <1>1, <1>4, ThreadStays DEF IInv, Shapes, history
  <2>2. phase' \in Phases
    BY <1>4 DEF IInv, Shapes, Phases
  <2>3. Agreement'
    BY <1>1, <1>4 DEF IInv, Agreement, Offering, InstallShown, Working,
     OnlyInstallShown, Prefetching, Asking, CancelIsForThisTask, history
  <2> QED
    BY <2>1, <2>2, <2>3
<1>5. MailOK' /\ Agreement' /\ task' \in Tasks /\ phase' \in Phases
  <2>1. CASE AutoCheck
    BY <2>1, <1>3 DEF AutoCheck
  <2>2. CASE CheckNow
    BY <2>2, <1>3, <1>4 DEF CheckNow
  <2>3. CASE Retry
    BY <2>3, <1>3, <1>4 DEF Retry, Showing, Working
  <2> QED
    BY <2>1, <2>2, <2>3
<1>6. Shapes'
  BY <1>1, <1>5 DEF IInv, Shapes, saved
<1> QED
  BY <1>2, <1>5, <1>6 DEF IInv

-----------------------------------------------------------------------------
(* An install begins, or cannot.                                           *)
LEMMA StartInstallStep ==
  ASSUME IInv, NEW ph, worker = "off", StartInstall(ph), mail' = <<>>,
         ph \in Phases, ph \in {"available", "working", "installing",
                                "installfailed"} => info # None,
         ph \notin {"working", "installing"} \/ died,
         UNCHANGED <<info, closing, died>>,
         ~died => ~queued' /\ ~prefetching'
  PROVE  /\ MailOK' /\ Agreement' /\ task' \in Tasks /\ phase' \in Phases
         /\ cancel' \in BOOLEAN /\ asked' \in BOOLEAN /\ stopped' \in BOOLEAN
<1>1. info \in Versions \cup {None}
  BY DEF IInv, Shapes
<1>2. \/ /\ task' \in Tasks /\ task'.kind = "install" /\ worker' = "run"
         /\ phase' = "working" /\ cancel' = FALSE /\ info # None
      \/ /\ task' \in Tasks /\ task'.kind = "none" /\ worker' = "off"
         /\ (phase' = "installfailed" /\ info # None) \/ phase' = ph
  <2>1. ASSUME IsAuto, task' = [NoTask EXCEPT !.kind = "install", !.v = info],
               worker' = "run", phase' = "working", cancel' = FALSE
        PROVE  /\ task' \in Tasks /\ task'.kind = "install" /\ worker' = "run"
               /\ phase' = "working" /\ cancel' = FALSE /\ info # None
    <3>1. task' \in Tasks /\ task'.kind = "install"
      BY <1>1, <2>1, NoTaskType
    <3>2. info # None
      BY <2>1 DEF IsAuto
    <3> QED
      BY <2>1, <3>1, <3>2
  <2>2. ASSUME task' = NoTask, UNCHANGED worker,
               phase' = IF IsAuto THEN "installfailed" ELSE ph
        PROVE  /\ task' \in Tasks /\ task'.kind = "none" /\ worker' = "off"
               /\ (phase' = "installfailed" /\ info # None) \/ phase' = ph
    BY <2>2, NoTaskType DEF IsAuto
  <2> QED
    BY <2>1, <2>2 DEF StartInstall
<1>3. MailOK'
  BY <1>2 DEF MailOK, Started
<1>4. phase' \in Phases /\ task' \in Tasks
  BY <1>2 DEF Phases
<1>5. cancel' \in BOOLEAN /\ asked' \in BOOLEAN /\ stopped' \in BOOLEAN
  BY DEF IInv, Booleans, StartInstall
<1>6. Offering' /\ InstallShown'
  <2>1. phase' \in {"working", "installfailed", ph}
    BY <1>2
  <2> QED
    BY <1>2, <2>1 DEF Offering, InstallShown, Working
<1>7. OnlyInstallShown'
  BY <1>2 DEF OnlyInstallShown, Working
<1>8. Prefetching' /\ Asking'
  BY <1>2 DEF Prefetching, Asking
<1>9. CancelIsForThisTask'
  BY <1>2, NoMessage DEF CancelIsForThisTask
<1> QED
  BY <1>3, <1>4, <1>5, <1>6, <1>7, <1>8, <1>9 DEF Agreement

(* Conditions on the phase that most steps keep.                           *)
LEMMA PhaseFacts ==
  ASSUME IInv
  PROVE  /\ phase \in Phases
         /\ phase \in {"available", "working", "installing", "installfailed"} =>
              info # None
         /\ info \in Versions \cup {None} /\ plan \in Plans /\ task \in Tasks
BY DEF IInv, Shapes, Agreement, Offering

LEMMA InstallClickStep ==
  ASSUME IInv, InstallClick, ~closing,
         UNCHANGED <<info, closing, died, prefetching, mail>>
  PROVE  /\ MailOK' /\ Agreement' /\ task' \in Tasks /\ phase' \in Phases
         /\ cancel' \in BOOLEAN /\ asked' \in BOOLEAN /\ stopped' \in BOOLEAN
         /\ queued' \in BOOLEAN
<1>1. ASSUME Busy
      PROVE  /\ MailOK' /\ Agreement' /\ task' \in Tasks /\ phase' \in Phases
             /\ cancel' \in BOOLEAN /\ asked' \in BOOLEAN /\ stopped' \in BOOLEAN
             /\ queued' \in BOOLEAN
  <2>1. /\ queued' = (queued \/ prefetching) /\ asked' = (asked \/ prefetching)
        /\ UNCHANGED <<phase, task, worker, cancel, stopped>>
    BY <1>1 DEF InstallClick
  <2>2. MailOK'
    BY <2>1, ThreadStays DEF IInv
  <2>3. Offering' /\ InstallShown' /\ OnlyInstallShown' /\ CancelIsForThisTask'
    BY <2>1 DEF IInv, Agreement, Offering, InstallShown, OnlyInstallShown, Working,
                CancelIsForThisTask
  <2>4. Prefetching' /\ Asking'
    BY <2>1 DEF IInv, Agreement, Prefetching, Asking
  <2>5. /\ task' \in Tasks /\ phase' \in Phases /\ cancel' \in BOOLEAN
        /\ stopped' \in BOOLEAN
    BY <2>1 DEF IInv, Booleans, Shapes
  <2>6. queued' \in BOOLEAN /\ asked' \in BOOLEAN
    BY <2>1
  <2> QED
    BY <2>2, <2>3, <2>4, <2>5, <2>6 DEF Agreement
<1>2. ASSUME ~Busy
      PROVE  /\ MailOK' /\ Agreement' /\ task' \in Tasks /\ phase' \in Phases
             /\ cancel' \in BOOLEAN /\ asked' \in BOOLEAN /\ stopped' \in BOOLEAN
             /\ queued' \in BOOLEAN
  <2>1. StartInstall(phase) /\ queued' = queued
    BY <1>2 DEF InstallClick
  <2>2. task.kind = "none" /\ worker = "off" /\ mail' = <<>>
    BY <1>2 DEF Busy, IInv, MailOK
  <2>3. ~died => ~queued' /\ ~prefetching'
    BY <2>1, <2>2 DEF IInv, Agreement, Prefetching
  <2>4. phase \notin {"working", "installing"} \/ died
    BY <2>2 DEF IInv, Agreement, OnlyInstallShown, Working
  <2>5. queued' \in BOOLEAN
    BY <2>1 DEF IInv, Booleans
  <2> QED
    BY <2>1, <2>2, <2>3, <2>4, <2>5, PhaseFacts, StartInstallStep
<1> QED
  BY <1>1, <1>2

LEMMA InstallStep ==
  ASSUME IInv, Install
  PROVE  IInv'
<1>1. /\ ~closing
      /\ UNCHANGED <<info, plan, dialog, prefetching, prefetched, notify, toast,
                     closing, mail, saved, died>>
  BY DEF Install, Showing
<1>2. CASE InstallClick /\ UNCHANGED confirm
  <2>1. /\ MailOK' /\ Agreement' /\ task' \in Tasks /\ phase' \in Phases
        /\ cancel' \in BOOLEAN /\ asked' \in BOOLEAN /\ stopped' \in BOOLEAN
        /\ queued' \in BOOLEAN
    BY <1>1, <1>2, InstallClickStep
  <2>2. Booleans' /\ Shapes'
    BY <1>1, <1>2, <2>1 DEF IInv, Booleans, Shapes, saved
  <2> QED
    BY <2>1, <2>2 DEF IInv
<1>3. CASE /\ confirm' = "installer"
           /\ UNCHANGED <<phase, queued, task, worker, cancel, asked, stopped>>
  <2>1. MailOK' /\ Agreement'
    BY <1>1, <1>3, ThreadStays, PhaseStays DEF IInv
  <2>2. Booleans'
    BY <1>1, <1>3 DEF IInv, Booleans
  <2>3. Shapes'
    BY <1>1, <1>3 DEF IInv, Shapes, saved
  <2> QED
    BY <2>1, <2>2, <2>3 DEF IInv
<1> QED
  BY <1>2, <1>3 DEF Install

LEMMA ConfirmYesStep ==
  ASSUME IInv, ConfirmYes
  PROVE  IInv'
<1>1. /\ ~closing /\ confirm' = "none"
      /\ UNCHANGED <<info, plan, dialog, prefetching, prefetched, notify, toast, mail,
                     saved, died>>
  BY DEF ConfirmYes
<1>2. CASE InstallClick /\ UNCHANGED closing
  <2>1. /\ MailOK' /\ Agreement' /\ task' \in Tasks /\ phase' \in Phases
        /\ cancel' \in BOOLEAN /\ asked' \in BOOLEAN /\ stopped' \in BOOLEAN
        /\ queued' \in BOOLEAN
    BY <1>1, <1>2, InstallClickStep
  <2>2. Booleans' /\ Shapes'
    BY <1>1, <1>2, <2>1 DEF IInv, Booleans, Shapes, saved
  <2> QED
    BY <2>1, <2>2 DEF IInv
<1>3. CASE /\ closing' \in BOOLEAN
           /\ UNCHANGED <<phase, queued, task, worker, cancel, asked, stopped>>
  <2>1. MailOK' /\ Agreement'
    BY <1>1, <1>3, ThreadStays, PhaseStays DEF IInv
  <2>2. Booleans'
    BY <1>1, <1>3 DEF IInv, Booleans
  <2>3. Shapes'
    BY <1>1, <1>3 DEF IInv, Shapes, saved
  <2> QED
    BY <2>1, <2>2, <2>3 DEF IInv
<1> QED
  BY <1>2, <1>3 DEF ConfirmYes, RestartNow

(* Cancel, Skip and Close.                                                 *)
LEMMA DialogStep ==
  ASSUME IInv, Cancel \/ Skip \/ CloseDialog
  PROVE  IInv'
<1>1. CASE Cancel
  <2>1. /\ cancel' = TRUE /\ stopped' = TRUE
        /\ UNCHANGED <<ui, task, mail, worker, saved, asked, died>>
    BY <1>1 DEF Cancel
  <2>2. MailOK'
    BY <2>1, ThreadStays DEF IInv
  <2>3. Booleans' /\ Shapes'
    BY <2>1 DEF IInv, Booleans, Shapes, ui, saved
  <2>4. Offering' /\ InstallShown' /\ OnlyInstallShown'
    BY <2>1 DEF IInv, Agreement, Offering, InstallShown, OnlyInstallShown, Working, ui
  <2>5. Prefetching' /\ Asking' /\ CancelIsForThisTask'
    BY <2>1 DEF IInv, Agreement, Prefetching, Asking, CancelIsForThisTask, ui
  <2> QED
    BY <2>2, <2>3, <2>4, <2>5 DEF IInv, Agreement
<1>2. ASSUME Skip \/ CloseDialog PROVE IInv'
  <2>1. /\ phase' = phase \/ (~Working /\ phase' = "idle")
        /\ skipped' \in {skipped, info} /\ confirm' \in {confirm, "none"}
        /\ dialog' = FALSE
        /\ UNCHANGED <<info, plan, prefetching, prefetched, queued, notify, toast,
                       closing, thread, pending, history>>
    BY <1>2 DEF Skip, CloseDialog, Showing, Working, saved, history
  <2>2. UNCHANGED <<task, mail, worker, cancel, asked, stopped, died>>
    BY <2>1 DEF thread, history
  <2>3. MailOK'
    BY <2>2, ThreadStays DEF IInv
  <2>4. Booleans'
    BY <2>1, <2>2 DEF IInv, Booleans
  <2>5. Shapes'
    BY <2>1, <2>2 DEF IInv, Shapes, Phases
  <2>6. Offering' /\ InstallShown' /\ OnlyInstallShown'
    BY <2>1, <2>2 DEF IInv, Agreement, Offering, InstallShown, OnlyInstallShown, Working
  <2>7. Prefetching' /\ Asking' /\ CancelIsForThisTask'
    BY <2>1, <2>2 DEF IInv, Agreement, Prefetching, Asking, CancelIsForThisTask
  <2> QED
    BY <2>3, <2>4, <2>5, <2>6, <2>7 DEF IInv, Agreement
<1> QED
  BY <1>1, <1>2

-----------------------------------------------------------------------------
(* The threads.                                                            *)
LEMMA AnswerStep ==
  ASSUME IInv, CheckEnds \/ PrefetchEnds
  PROVE  IInv'
<1>1. /\ worker = "run" /\ worker' = "off" /\ mail = <<>>
      /\ UNCHANGED <<ui, task, cancel, saved, history>>
  BY DEF CheckEnds, PrefetchEnds, IInv, MailOK, Started, Answered, Dead
<1>2. MailOK' /\ task.kind # "install"
  <2>1. CASE CheckEnds
    <3>1. PICK m \in CheckMail : mail' = <<m>>
      BY <1>1, <2>1, OneMessage DEF CheckEnds, Send, CheckMail, Found
    <3>2. task.kind = "check"
      BY <2>1 DEF CheckEnds
    <3> QED
      BY <1>1, <3>1, <3>2 DEF MailOK, Answered
  <2>2. CASE PrefetchEnds
    <3>1. PICK m \in PrefetchMail : mail' = <<m>>
      BY <1>1, <2>2, OneMessage DEF PrefetchEnds, Send, PrefetchMail
    <3>2. task.kind = "prefetch"
      BY <2>2 DEF PrefetchEnds
    <3> QED
      BY <1>1, <3>1, <3>2 DEF MailOK, Answered
  <2> QED
    BY <2>1, <2>2
<1>3. Booleans' /\ Shapes'
  BY <1>1 DEF IInv, Booleans, Shapes, ui, saved, history
<1>4. Offering' /\ InstallShown' /\ OnlyInstallShown'
  BY <1>1 DEF IInv, Agreement, Offering, InstallShown, OnlyInstallShown, Working, ui,
              history
<1>5. Prefetching' /\ Asking' /\ CancelIsForThisTask'
  BY <1>1, <1>2 DEF IInv, Agreement, Prefetching, Asking, CancelIsForThisTask, ui, history
<1> QED
  BY <1>2, <1>3, <1>4, <1>5 DEF IInv, Agreement

LEMMA InstallEndsStep ==
  ASSUME IInv, DownloadEnds \/ InstallEnds
  PROVE  IInv'
<1>1. /\ task.kind = "install" /\ worker \in {"run", "installing"}
      /\ worker = "run" => mail = <<>>
      /\ mail \in {<<>>, <<Msg("installing")>>}
      /\ worker' \in {"off", "installing"}
  BY DEF DownloadEnds, InstallEnds, IInv, MailOK, Started, Answered, Dead
<1>2. UNCHANGED <<ui, task, cancel, skipped, history>>
  BY DEF DownloadEnds, InstallEnds, saved
<1>3. \/ mail = <<>> /\ worker' = "installing" /\ mail' = <<Msg("installing")>>
      \/ /\ worker' = "off"
         /\ \E m \in FinalMail :
              /\ mail' = Append(mail, m)
              /\ m.kind = "cancelled" => cancel
  <2>1. CASE DownloadEnds
    <3>1. mail = <<>>
      BY <1>1, <2>1 DEF DownloadEnds
    <3>2. Append(<<>>, Msg("installing")) = <<Msg("installing")>>
      BY OneMessage
    <3>3. Msg("error") \in FinalMail /\ Msg("cancelled") \in FinalMail
          /\ Msg("error").kind # "cancelled"
      BY DEF FinalMail, Msg
    <3> QED
      BY <2>1, <3>1, <3>2, <3>3 DEF DownloadEnds, Send
  <2>2. CASE InstallEnds
    <3>1. \A k \in {"setup", "installed", "error"} :
            Msg(k) \in FinalMail /\ Msg(k).kind # "cancelled"
      BY DEF FinalMail, Msg
    <3> QED
      BY <2>2, <3>1 DEF InstallEnds, Send
  <2> QED
    BY <2>1, <2>2
<1>4. \/ worker' = "installing" /\ mail' = <<Msg("installing")>>
      \/ /\ worker' = "off"
         /\ \E m \in FinalMail : /\ mail' \in {<<m>>, <<Msg("installing"), m>>}
                                 /\ m.kind = "cancelled" => cancel
  <2>1. \A m : /\ Append(<<>>, m) = <<m>>
               /\ Append(<<Msg("installing")>>, m) = <<Msg("installing"), m>>
    BY OneMessage, TwoMessages
  <2> QED
    BY <1>1, <1>3, <2>1
<1>5. MailOK'
  BY <1>1, <1>2, <1>4 DEF MailOK, Answered
<1>6. CancelIsForThisTask'
  <2>1. ASSUME cancel' \/ \E i \in DOMAIN mail' : mail'[i].kind = "cancelled"
        PROVE  cancel
    <3>1. Msg("installing").kind # "cancelled"
      BY MessageTypes
    <3>2. CASE mail' = <<Msg("installing")>>
      BY <1>2, <2>1, <3>1, <3>2, OneMessage
    <3>3. ASSUME NEW m \in FinalMail, m.kind = "cancelled" => cancel, mail' = <<m>>
          PROVE  cancel
      BY <1>2, <2>1, <3>3, OneMessage
    <3>4. ASSUME NEW m \in FinalMail, m.kind = "cancelled" => cancel,
                 mail' = <<Msg("installing"), m>>
          PROVE  cancel
      BY <1>2, <2>1, <3>1, <3>4, TwoMessages
    <3> QED
      BY <1>4, <3>2, <3>3, <3>4
  <2>2. cancel => stopped
    BY <1>1 DEF IInv, Agreement, CancelIsForThisTask
  <2> QED
    BY <1>2, <2>1, <2>2 DEF CancelIsForThisTask, history
<1>7. Booleans'
  BY <1>2 DEF IInv, Booleans, ui, history
<1>8. Shapes'
  <2>1. pending' \in Versions \cup {None}
    BY DEF DownloadEnds, InstallEnds, IInv, Shapes, Tasks, saved
  <2> QED
    BY <1>2, <2>1 DEF IInv, Shapes, ui
<1>9. Offering' /\ InstallShown' /\ OnlyInstallShown'
  BY <1>2 DEF IInv, Agreement, Offering, InstallShown, OnlyInstallShown, Working, ui,
              history
<1>10. Prefetching' /\ Asking'
  BY <1>2 DEF IInv, Agreement, Prefetching, Asking, ui, history
<1> QED
  BY <1>5, <1>6, <1>7, <1>8, <1>9, <1>10 DEF IInv, Agreement

LEMMA WorkerDiesStep ==
  ASSUME IInv, WorkerDies
  PROVE  IInv'
<1>1. /\ worker # "off" /\ worker' = "off" /\ died' = TRUE
      /\ UNCHANGED <<ui, task, mail, cancel, saved, asked, stopped>>
  BY DEF WorkerDies
<1>2. MailOK'
  BY <1>1 DEF IInv, MailOK, Started, Answered, Dead
<1>3. Booleans' /\ Shapes'
  BY <1>1 DEF IInv, Booleans, Shapes, ui, saved
<1>4. Offering' /\ InstallShown' /\ CancelIsForThisTask'
  BY <1>1 DEF IInv, Agreement, Offering, InstallShown, Working, CancelIsForThisTask, ui
<1>5. OnlyInstallShown' /\ Prefetching' /\ Asking'
  BY <1>1 DEF OnlyInstallShown, Prefetching, Asking
<1> QED
  BY <1>2, <1>3, <1>4, <1>5 DEF IInv, Agreement

-----------------------------------------------------------------------------
(* The answers.                                                            *)
LEMMA HeadOfMail ==
  ASSUME IInv, NEW kinds, Receiving(kinds)
  PROVE  LET m == Head(mail) IN
         /\ ~closing /\ m.kind \in kinds
         /\ \/ /\ task.kind = "check" /\ worker = "off" /\ mail = <<m>>
               /\ m \in CheckMail
            \/ /\ task.kind = "prefetch" /\ worker = "off" /\ mail = <<m>>
               /\ m \in PrefetchMail
            \/ /\ task.kind = "install" /\ worker = "off" /\ mail = <<m>>
               /\ m \in FinalMail
            \/ /\ task.kind = "install" /\ m = Msg("installing")
               /\ \/ worker = "installing" /\ Tail(mail) = <<>>
                  \/ worker = "off" /\ \E n \in FinalMail : Tail(mail) = <<n>>
                  \/ died /\ worker = "off" /\ Tail(mail) = <<>>
<1> DEFINE m == Head(mail)
<1>1. ~closing /\ mail # <<>> /\ m.kind \in kinds
  BY DEF Receiving
<1>2. ASSUME NEW answers, Answered(answers)
      PROVE  worker = "off" /\ mail = <<m>> /\ m \in answers
  BY <1>2, OneMessage DEF Answered
<1>3. ASSUME mail = <<Msg("installing")>>
      PROVE  m = Msg("installing") /\ Tail(mail) = <<>>
  BY <1>3, OneMessage
<1>4. ASSUME NEW n, mail = <<Msg("installing"), n>>
      PROVE  m = Msg("installing") /\ Tail(mail) = <<n>>
  BY <1>4, TwoMessages
<1> QED
  BY <1>1, <1>2, <1>3, <1>4 DEF IInv, MailOK, Started, Dead

(* A last answer: the channel is free afterwards, and MailOK holds.        *)
LEMMA FreedStep ==
  ASSUME worker = "off", TakeLast
  PROVE  MailOK' /\ task' = NoTask /\ task'.kind = "none" /\ UNCHANGED cancel
BY NoTaskType DEF TakeLast, MailOK

LEMMA CheckAnswerStep ==
  ASSUME IInv, PollUpToDate \/ PollCheckFailed
  PROVE  IInv'
<1>1. PICK kinds \in SUBSET {"uptodate", "failed"} : Receiving(kinds)
  BY DEF PollUpToDate, PollCheckFailed
<1>2. task.kind = "check" /\ worker = "off"
  BY <1>1, HeadOfMail, MessageTypes
<1>3. /\ TakeLast
      /\ UNCHANGED <<dialog, confirm, prefetching, prefetched, queued, notify,
                     toast, closing, saved, history>>
  BY DEF PollUpToDate, PollCheckFailed
<1>4. MailOK' /\ task' = NoTask /\ task'.kind = "none" /\ UNCHANGED cancel
  BY <1>2, <1>3, FreedStep
<1>5. /\ \/ UNCHANGED <<phase, info, plan>>
         \/ /\ ~Working /\ phase' \in {"uptodate", "checkfailed", "idle", phase}
            /\ \/ UNCHANGED <<info, plan>>
               \/ /\ phase' \in {"uptodate", "idle"}
                  /\ info' = None /\ plan' = "manual"
  BY DEF PollUpToDate, PollCheckFailed
<1>6. Booleans'
  BY <1>3, <1>4 DEF IInv, Booleans, history
<1>7. Shapes'
  BY <1>3, <1>4, <1>5, NoTaskType DEF IInv, Shapes, Phases, Plans, saved
<1>8. Offering' /\ InstallShown' /\ OnlyInstallShown'
  BY <1>2, <1>3, <1>4, <1>5 DEF IInv, Agreement, Offering, InstallShown,
                               OnlyInstallShown, Working, history
<1>9. Prefetching' /\ Asking' /\ CancelIsForThisTask'
  BY <1>2, <1>3, <1>4 DEF IInv, Agreement, Prefetching, Asking, CancelIsForThisTask,
                         history
<1> QED
  BY <1>4, <1>6, <1>7, <1>8, <1>9 DEF IInv, Agreement

LEMMA FoundStep ==
  ASSUME IInv, PollFound
  PROVE  IInv'
<1> DEFINE v == Head(mail).v
<1>1. Receiving({"found"})
  BY DEF PollFound
<1>2. /\ task.kind = "check" /\ worker = "off" /\ v \in Versions /\ v # None
      /\ Head(mail).plan \in Plans /\ ~closing
  BY <1>1, HeadOfMail, MessageTypes
<1>3. UNCHANGED <<dialog, confirm, queued, toast, closing, saved, history>>
  BY DEF PollFound
<1>4. ~died => ~prefetching /\ ~queued
  BY <1>2 DEF IInv, Agreement, Prefetching
<1>5. /\ \/ TakeLast /\ UNCHANGED prefetching
         \/ /\ task' = [NoTask EXCEPT !.kind = "prefetch", !.v = v]
            /\ mail' = <<>> /\ worker' = "run" /\ cancel' = FALSE
            /\ prefetching' = TRUE
      /\ \/ UNCHANGED <<phase, info, plan, prefetched>> /\ notify' = notify
         \/ /\ info' = v /\ plan' = Head(mail).plan
            /\ phase' \in {"installed", "available"}
            /\ prefetched' = (prefetched /\ info = v)
            /\ notify' \in BOOLEAN /\ ~Working
  BY DEF PollFound
<1>6. /\ MailOK' /\ task' \in Tasks /\ cancel' \in BOOLEAN
      /\ prefetching' \in BOOLEAN
      /\ task'.kind \in {"none", "prefetch"}
      /\ ~died => (prefetching' <=> task'.kind = "prefetch")
  <2>1. CASE TakeLast /\ UNCHANGED prefetching
    <3>1. MailOK' /\ task' = NoTask /\ task'.kind = "none" /\ UNCHANGED cancel
      BY <1>2, <2>1, FreedStep
    <3> QED
      BY <1>4, <2>1, <3>1, NoTaskType DEF IInv, Booleans
  <2>2. CASE /\ task' = [NoTask EXCEPT !.kind = "prefetch", !.v = v]
             /\ mail' = <<>> /\ worker' = "run" /\ cancel' = FALSE
             /\ prefetching' = TRUE
    <3>1. task' \in Tasks /\ task'.kind = "prefetch"
      BY <1>2, <2>2, NoTaskType
    <3> QED
      BY <2>2, <3>1 DEF MailOK, Started
  <2> QED
    BY <1>5, <2>1, <2>2
<1>7. prefetched' \in BOOLEAN /\ notify' \in BOOLEAN
  BY <1>5 DEF IInv, Booleans
<1>8. Booleans'
  BY <1>3, <1>6, <1>7 DEF IInv, Booleans, history
<1>9. Shapes'
  BY <1>2, <1>3, <1>5, <1>6 DEF IInv, Shapes, Phases, saved
<1>10. Offering' /\ InstallShown' /\ OnlyInstallShown'
  BY <1>2, <1>3, <1>5, <1>6 DEF IInv, Agreement, Offering, InstallShown,
                               OnlyInstallShown, Working, history
<1>11. Prefetching' /\ Asking' /\ CancelIsForThisTask'
  BY <1>3, <1>4, <1>6 DEF Prefetching, Asking, CancelIsForThisTask, history
<1> QED
  BY <1>6, <1>8, <1>9, <1>10, <1>11 DEF IInv, Agreement

LEMMA ProgressStep ==
  ASSUME IInv, PollProgress
  PROVE  IInv'
<1>1. /\ Receiving({"installing"}) /\ mail' = Tail(mail)
      /\ phase' = IF Working THEN "installing" ELSE phase
      /\ UNCHANGED <<info, plan, dialog, confirm, prefetching, prefetched, queued,
                     notify, toast, closing, task, worker, cancel, saved, history>>
  BY DEF PollProgress
<1>2. /\ task.kind = "install"
      /\ \/ worker = "installing" /\ mail' = <<>>
         \/ worker = "off" /\ \E n \in FinalMail : mail' = <<n>> /\ mail[2] = n
                                                    /\ 2 \in DOMAIN mail
         \/ died /\ worker = "off" /\ mail' = <<>>
  <2>1. task.kind = "install" /\ Head(mail).kind = "installing"
    BY <1>1, HeadOfMail, MessageTypes
  <2>2. /\ mail # <<>> /\ \A n \in FinalMail : mail # <<n>>
    BY <2>1, <1>1, OneMessage, MessageTypes DEF Receiving
  <2>3. \/ worker = "installing" /\ mail = <<Msg("installing")>>
        \/ worker = "off" /\ \E n \in FinalMail : mail = <<Msg("installing"), n>>
        \/ died /\ worker = "off" /\ mail = <<Msg("installing")>>
    BY <2>1, <2>2 DEF IInv, MailOK, Started, Answered, Dead
  <2>4. ASSUME mail = <<Msg("installing")>> PROVE mail' = <<>>
    BY <1>1, <2>4, OneMessage
  <2>5. ASSUME NEW n, mail = <<Msg("installing"), n>>
        PROVE  mail' = <<n>> /\ mail[2] = n /\ 2 \in DOMAIN mail
    BY <1>1, <2>5, TwoMessages
  <2> QED
    BY <2>1, <2>3, <2>4, <2>5
<1>3. MailOK'
  BY <1>1, <1>2 DEF MailOK, Answered, Dead, history
<1>4. Booleans'
  BY <1>1 DEF IInv, Booleans, history
<1>5. Shapes'
  BY <1>1 DEF IInv, Shapes, Phases, saved
<1>6. Offering' /\ InstallShown' /\ OnlyInstallShown'
  BY <1>1, <1>2 DEF IInv, Agreement, Offering, InstallShown, OnlyInstallShown, Working,
                    history
<1>7. Prefetching' /\ Asking'
  BY <1>1 DEF IInv, Agreement, Prefetching, Asking, history
<1>8. CancelIsForThisTask'
  <2>1. ASSUME NEW i \in DOMAIN mail', mail'[i].kind = "cancelled"
        PROVE  \E k \in DOMAIN mail : mail[k].kind = "cancelled"
    BY <1>2, <2>1, NoMessage, OneMessage
  <2> QED
    BY <1>1, <2>1 DEF IInv, Agreement, CancelIsForThisTask, history
<1> QED
  BY <1>3, <1>4, <1>5, <1>6, <1>7, <1>8 DEF IInv, Agreement

LEMMA AppliedStep ==
  ASSUME IInv, PollApplied
  PROVE  IInv'
<1> DEFINE result == Head(mail).kind
<1>1. /\ Receiving({"installed", "setup", "cancelled", "error"})
      /\ task.kind = "install" /\ TakeLast
      /\ phase' = CASE result = "installed" -> "installed"
                    [] result = "cancelled" -> "available"
                    [] result = "error" -> "installfailed"
                    [] OTHER -> phase
      /\ toast' = (toast \/ (result = "installed" /\ ~dialog))
      /\ closing' = (result = "setup")
      /\ dialog' = (dialog \/ result = "error")
      /\ UNCHANGED <<info, plan, confirm, prefetching, prefetched, queued, notify,
                     saved, history>>
  BY DEF PollApplied
<1>2. worker = "off" /\ result \in {"installed", "setup", "cancelled", "error"}
  BY <1>1, HeadOfMail, MessageTypes
<1>3. MailOK' /\ task' = NoTask /\ task'.kind = "none" /\ UNCHANGED cancel
  BY <1>1, <1>2, FreedStep
<1>4. info # None /\ Working
  BY <1>1 DEF IInv, Agreement, InstallShown, Offering, Working
<1>5. \/ phase' \in {"installed", "available", "installfailed"}
      \/ phase' = phase /\ closing'
  BY <1>1, <1>2
<1>6. Booleans'
  <2>1. toast' \in BOOLEAN /\ closing' \in BOOLEAN /\ dialog' \in BOOLEAN
    BY <1>1
  <2> QED
    BY <1>1, <1>3, <2>1 DEF IInv, Booleans, history
<1>7. Shapes'
  BY <1>1, <1>3, <1>5, NoTaskType DEF IInv, Shapes, Phases, saved
<1>8. Offering' /\ InstallShown'
  BY <1>1, <1>3, <1>4 DEF Offering, InstallShown
<1>9. OnlyInstallShown'
  BY <1>5 DEF OnlyInstallShown, Working
<1>10. Prefetching' /\ Asking' /\ CancelIsForThisTask'
  BY <1>1, <1>3 DEF IInv, Agreement, Prefetching, Asking, CancelIsForThisTask, history
<1> QED
  BY <1>3, <1>6, <1>7, <1>8, <1>9, <1>10 DEF IInv, Agreement

LEMMA PrefetchedStep ==
  ASSUME IInv, PollPrefetched
  PROVE  IInv'
<1> DEFINE ph == IF phase # "checking" THEN phase
                 ELSE IF info # None THEN "available" ELSE "idle"
<1>1. /\ Receiving({"prefetched", "error"}) /\ task.kind = "prefetch"
      /\ mail' = <<>> /\ prefetching' = FALSE /\ queued' = FALSE
      /\ prefetched' = (prefetched \/ Head(mail).kind = "prefetched")
      /\ UNCHANGED <<info, plan, dialog, confirm, notify, toast, closing, saved, died>>
  BY DEF PollPrefetched
<1>2. worker = "off" /\ ~closing
  BY <1>1, HeadOfMail, MessageTypes
<1>3. /\ ph \in Phases
      /\ ph \in {"available", "working", "installing", "installfailed"} => info # None
      /\ ph \notin {"working", "installing"} \/ died
  BY <1>1, <1>2, PhaseFacts DEF Phases, IInv, Agreement, OnlyInstallShown, Working
<1>4. /\ MailOK' /\ Agreement' /\ task' \in Tasks /\ phase' \in Phases
      /\ cancel' \in BOOLEAN /\ asked' \in BOOLEAN /\ stopped' \in BOOLEAN
  <2>1. CASE StartInstall(ph)
    <3>1. UNCHANGED <<info, closing, died>> /\ (~died => ~queued' /\ ~prefetching')
      BY <1>1
    <3> HIDE DEF ph
    <3> QED
      BY <1>1, <1>2, <1>3, <2>1, <3>1, StartInstallStep
  <2>2. CASE /\ task' = NoTask /\ phase' = ph
             /\ UNCHANGED <<worker, cancel, asked, stopped>>
    <3>1. MailOK' /\ task' \in Tasks /\ task'.kind = "none"
      BY <1>1, <1>2, <2>2, NoTaskType DEF MailOK
    <3>2. phase' \in Phases /\ cancel' \in BOOLEAN /\ asked' \in BOOLEAN
          /\ stopped' \in BOOLEAN
      BY <1>3, <2>2 DEF IInv, Booleans
    <3>3. Offering' /\ InstallShown' /\ OnlyInstallShown'
      BY <1>1, <1>3, <2>2, <3>1 DEF Offering, InstallShown, OnlyInstallShown, Working
    <3>4. Prefetching' /\ Asking' /\ CancelIsForThisTask'
      BY <1>1, <3>1 DEF Prefetching, Asking, CancelIsForThisTask
    <3> QED
      BY <3>1, <3>2, <3>3, <3>4 DEF Agreement
  <2> QED
    BY <2>1, <2>2 DEF PollPrefetched
<1>5. Booleans'
  <2>1. prefetched' \in BOOLEAN
    BY <1>1
  <2> QED
    BY <1>1, <1>4, <2>1 DEF IInv, Booleans
<1>6. Shapes'
  BY <1>1, <1>4 DEF IInv, Shapes, saved
<1> QED
  BY <1>4, <1>5, <1>6 DEF IInv

LEMMA DisconnectedStep ==
  ASSUME IInv, PollDisconnected
  PROVE  IInv'
<1>1. /\ Busy /\ worker = "off" /\ mail = <<>> /\ task' = NoTask
      /\ phase' = IF phase = "checking" THEN "idle" ELSE phase
      /\ UNCHANGED <<info, plan, dialog, confirm, prefetching, prefetched, queued,
                     notify, toast, closing, mail, worker, cancel, saved, history>>
  BY DEF PollDisconnected
<1>2. died
  BY <1>1, OneMessage, TwoMessages DEF Busy, IInv, MailOK, Started, Answered, Dead
<1>3. MailOK' /\ task' \in Tasks /\ task'.kind = "none"
  BY <1>1, NoTaskType DEF MailOK
<1>4. Booleans'
  BY <1>1 DEF IInv, Booleans, history
<1>5. Shapes'
  BY <1>1, <1>3 DEF IInv, Shapes, Phases, saved
<1>6. Offering' /\ InstallShown' /\ CancelIsForThisTask'
  BY <1>1, <1>3 DEF IInv, Agreement, Offering, InstallShown, CancelIsForThisTask
<1>7. OnlyInstallShown' /\ Prefetching' /\ Asking'
  BY <1>1, <1>2 DEF OnlyInstallShown, Prefetching, Asking, history
<1> QED
  BY <1>3, <1>4, <1>5, <1>6, <1>7 DEF IInv, Agreement

-----------------------------------------------------------------------------
LEMMA NextStep ==
  ASSUME IInv, [Next]_vars
  PROVE  IInv'
<1>1. CASE Poll
  BY <1>1, CheckAnswerStep, FoundStep, ProgressStep, AppliedStep, PrefetchedStep,
     DisconnectedStep DEF Poll
<1>2. CASE Work
  BY <1>2, AnswerStep, InstallEndsStep DEF Work
<1>3. CASE User
  BY <1>3, CheckStep, NotifyStep, InstallStep, ConfirmYesStep, DialogStep DEF User
<1>4. CASE AutoCheck \/ Notify \/ WorkerDies \/ Outside
  BY <1>4, CheckStep, NotifyStep, WorkerDiesStep
<1>5. CASE UNCHANGED vars
  <2>1. UNCHANGED <<ui, thread, saved, history>>
    BY <1>5 DEF vars
  <2>2. MailOK' /\ Agreement'
    BY <2>1, ThreadStays, PhaseStays DEF IInv, ui, thread, history
  <2>3. Booleans' /\ Shapes'
    BY <2>1 DEF IInv, Booleans, Shapes, ui, thread, saved, history
  <2> QED
    BY <2>2, <2>3 DEF IInv
<1> QED
  BY <1>1, <1>2, <1>3, <1>4, <1>5 DEF Next

LEMMA Invariant == Spec => []IInv
<1>1. IInv /\ [Next]_vars => IInv'
  BY NextStep
<1> QED
  BY InitInvariant, <1>1, PTL DEF Spec

(* The fields of the window keep their shape, and never do more than two   *)
(* messages wait in the channel.                                           *)
THEOREM UiTypes == Spec => []TypeOK
<1>1. IInv => TypeOK
  BY InvariantParts
<1> QED
  BY Invariant, <1>1, PTL

(* The dialog, the flags and the thread agree, whatever is clicked, due or *)
(* answered in between, for any versions and offers.                       *)
THEOREM UiAgrees == Spec => []FlagsAgree
<1>1. IInv => FlagsAgree
  BY InvariantParts
<1> QED
  BY Invariant, <1>1, PTL

(* Cancel only ever stops the install it was clicked for.                  *)
THEOREM CancelFits == Spec => []CancelIsForThisTask
<1>1. IInv => CancelIsForThisTask
  BY InvariantParts
<1> QED
  BY Invariant, <1>1, PTL

(* An install that begins out of a background download was asked for by a  *)
(* click that was not used before.                                         *)
THEOREM InstallWasAsked == Spec => InstallAsked
<1>1. ASSUME IInv, [Next]_vars, ~died, task.kind = "prefetch", task'.kind = "install"
      PROVE  asked
  <2>1. Busy /\ prefetching /\ task' # task /\ task'.kind # "check"
    BY <1>1 DEF Busy, IInv, Agreement, Prefetching
  <2>2. PollPrefetched /\ queued
    <3>1. ~(TakeLast \/ task' = NoTask)
      BY <1>1, NoTaskType DEF TakeLast
    <3>2. ~PollUpToDate /\ ~PollCheckFailed /\ ~PollProgress /\ ~PollApplied
          /\ ~PollDisconnected
      BY <2>1, <3>1 DEF PollUpToDate, PollCheckFailed, PollProgress, PollApplied,
                        PollDisconnected
    <3>3. ~PollFound
      <4>1. ~Receiving({"found"})
        BY <1>1, HeadOfMail, MessageTypes
      <4> QED
        BY <4>1 DEF PollFound
    <3>4. ~InstallClick
      BY <2>1 DEF InstallClick
    <3>5. ~User
      BY <2>1, <3>4 DEF User, CheckNow, AnswerToast, Retry, Install, Cancel, Skip,
                        CloseDialog, Restart, ConfirmYes, ConfirmNo, thread
    <3>6. ~Work /\ ~WorkerDies /\ ~Outside /\ ~Notify /\ ~AutoCheck
      BY <2>1 DEF Work, CheckEnds, PrefetchEnds, DownloadEnds, InstallEnds, WorkerDies,
                  Outside, Notify, AutoCheck, thread
    <3>7. ~UNCHANGED vars
      BY <2>1 DEF vars, thread
    <3>8. PollPrefetched
      BY <1>1, <3>2, <3>3, <3>5, <3>6, <3>7 DEF Next, Poll
    <3> QED
      BY <3>1, <3>8 DEF PollPrefetched
  <2> QED
    BY <1>1, <2>2 DEF IInv, Agreement, Asking
<1>2. IInv /\ [Next]_vars =>
        (~died /\ task.kind = "prefetch" /\ task'.kind = "install" => asked)
  BY <1>1
<1> QED
  BY Invariant, <1>2, PTL DEF Spec, InstallAsked
=============================================================================
