------------------------- MODULE TransferQueueProofs -------------------------
(***************************************************************************)
(* Theorems about the transfers of the file panel, for any tabs, slots and *)
(* bounds.                                                                 *)
(*                                                                         *)
(* OneWorker is not inductive: that whatever is given up has been told to  *)
(* stop depends on which cancel flag belongs to the job the panel waits    *)
(* for.  Waiting says so: the flag of the queue is the one of an awaited   *)
(* transfer, the flag of the comparison the one of an awaited scan or      *)
(* preparation, and the view is in the phase of the job.                   *)
(*                                                                         *)
(* Two more invariants follow a job and its terminal.  Held: a job without *)
(* its answer is in the queue or in the hands of a pump that still runs,   *)
(* and in one place only.  HostsAgree: while no tab is closed, the number  *)
(* the panel remembers is the terminal its transfers were meant for.       *)
(***************************************************************************)
EXTENDS TransferQueue, TLAPS

Views == [open : BOOLEAN, phase : Phases, prep : BOOLEAN, batch : SUBSET Ids,
          flag : Slots \cup {None}]
Items == [host : Terminals, state : States]
Kinds == {"list", "transfer", "scan", "prepare"}

(* TypeOK in four parts, with the fields of the view.                      *)
WindowOK ==
  /\ tabs \in Seq(Terminals) /\ active \in 0 .. Len(tabs)
  /\ Len(tabs) <= Len(FirstTabs)
  /\ shown \in BOOLEAN /\ lastTab \in 0 .. Len(FirstTabs)
  /\ handle \in [Terminals -> 0 .. MaxConns]
  /\ used \in [Terminals -> 0 .. MaxConns]
  /\ over \subseteq Terminals
PumpsOK ==
  /\ job \in [Slots -> Jobs \cup {NoJob}]
  /\ queue \in [Connections -> Seq(Slots)]
PanelOK ==
  /\ rx \in Slots \cup {None} /\ prog \in Slots \cup {None}
  /\ cancel \in Slots \cup {None}
  /\ pushed \in 0 .. MaxPushes
  /\ DOMAIN items \subseteq 1 .. pushed
  /\ \A i \in DOMAIN items : items[i] \in Items
  /\ refresh \in BOOLEAN /\ listing \in BOOLEAN
  /\ diff \in Views /\ diff.batch \subseteq 1 .. pushed
Turns == {"open", "result", "gate", "act", "kick", "strip", "rest"}
CountsOK ==
  /\ turn \in Turns
  /\ ops \in 0 .. MaxOps /\ events \in 0 .. MaxEvents
  /\ refused \in 0 .. MaxRefusals
  /\ turn \in {"act", "kick", "strip"} => active # None

(* What the panel waits for exists, and its flags and phases fit.          *)
Waiting ==
  /\ rx # None => job[rx] \in Jobs
  /\ prog # None => prog = rx /\ Awaited("transfer")
  /\ Awaited("transfer") => cancel = rx
  /\ Awaited("scan") => diff.flag = rx /\ diff.phase = "scanning"
  /\ Awaited("prepare") => diff.flag = rx /\ diff.prep

(* OneWorker in three parts.                                               *)
Running == \A i \in DOMAIN items :
  items[i].state = "running" => Awaited("transfer") /\ job[rx].item = i
Viewing ==
  /\ diff.phase = "scanning" => Awaited("scan")
  /\ diff.prep => Awaited("prepare")
Told(s) == Unfinished(s) /\ job[s].kind # "list" => job[s].cancelled
Stopped == \A s \in Slots \ {rx} : Told(s)

Types == WindowOK /\ PumpsOK /\ PanelOK /\ CountsOK
Work == Waiting /\ Running /\ Viewing /\ Stopped
IInv == Types /\ Work

-----------------------------------------------------------------------------
LEMMA Bounds ==
  /\ FirstTabs \in Seq(Terminals) /\ FirstTabs # <<>>
  /\ Slots \subseteq Nat \ {0} /\ None \notin Slots /\ None = 0
  /\ MaxConns \in Nat /\ MaxConns > 0 /\ MaxPushes \in Nat /\ MaxOps \in Nat
  /\ MaxEvents \in Nat /\ MaxRefusals \in Nat
BY TransferAssumption DEF TransferAssumption, None

(* A function stays of its type when one value is replaced.                *)
LEMMA Replaced ==
  ASSUME NEW S, NEW R, NEW f \in [S -> R], NEW x, NEW y \in R
  PROVE  [f EXCEPT ![x] = y] \in [S -> R]
OBVIOUS

(* A sequence, by its elements and by its domain.                          *)
LEMMA Elements ==
  ASSUME NEW S, NEW s \in Seq(S)
  PROVE  /\ Len(s) \in Nat /\ DOMAIN s = 1 .. Len(s)
         /\ \A k \in 1 .. Len(s) : s[k] \in S
OBVIOUS

LEMMA NoJobIsNone == NoJob \notin Jobs /\ NoJob.kind = "none"
BY DEF NoJob, Jobs

LEMMA InvariantParts == IInv => TypeOK /\ OneWorker
<1> SUFFICES ASSUME IInv PROVE TypeOK /\ OneWorker
  OBVIOUS
<1>1. TypeOK
  BY DEF IInv, Types, WindowOK, PumpsOK, PanelOK, CountsOK, TypeOK, Views,
         Items, Turns
<1>2. OneWorker
  BY DEF IInv, Work, Running, Viewing, Stopped, Told, OneWorker
<1> QED
  BY <1>1, <1>2

LEMMA InitInvariant == Init => IInv
<1> SUFFICES ASSUME Init PROVE IInv
  OBVIOUS
<1> USE Bounds
<1>1. WindowOK
  <2>1. Len(FirstTabs) \in Nat /\ Len(FirstTabs) > 0
    OBVIOUS
  <2> QED
    BY <2>1 DEF Init, WindowOK
<1>2. PumpsOK
  BY DEF Init, PumpsOK
<1>3. diff \in Views /\ diff.batch = {} /\ diff.phase \in {"idle", "ready"}
      /\ diff.prep = FALSE /\ diff.open \in BOOLEAN
  <2>1. NoDiff \in Views /\ NoDiff.batch = {} /\ NoDiff.phase = "idle"
        /\ NoDiff.prep = FALSE
    BY DEF NoDiff, Views, Phases
  <2>2. LET d == [NoDiff EXCEPT !.open = TRUE, !.phase = "ready"]
        IN  d \in Views /\ d.batch = {} /\ d.phase = "ready" /\ d.prep = FALSE
    BY DEF NoDiff, Views, Phases
  <2>3. \A d \in Views : d.open \in BOOLEAN
    BY DEF Views
  <2> QED
    BY <2>1, <2>2, <2>3 DEF Init
<1>4. PanelOK
  <2>1. DOMAIN items = {}
    BY DEF Init
  <2>2. rx = 0 /\ prog = 0 /\ cancel = 0 /\ pushed = 0 /\ refresh = FALSE
        /\ listing \in BOOLEAN
    BY <1>3 DEF Init
  <2>3. rx \in Slots \cup {None} /\ prog \in Slots \cup {None}
        /\ cancel \in Slots \cup {None}
    BY <2>2
  <2>5. pushed \in 0 .. MaxPushes
    BY <2>2
  <2>6. refresh \in BOOLEAN /\ listing \in BOOLEAN
    BY <2>2
  <2>4. DOMAIN items \subseteq 1 .. pushed /\ diff.batch \subseteq 1 .. pushed
        /\ \A i \in DOMAIN items : items[i] \in Items
    BY <1>3, <2>1
  <2> QED
    BY <1>3, <2>3, <2>4, <2>5, <2>6 DEF PanelOK
<1>5. CountsOK
  BY DEF Init, CountsOK, Turns
<1>6. Work
  <2>1. DOMAIN items = {}
    BY DEF Init
  <2> QED
    BY <1>3, <2>1 DEF Init, Work, Waiting, Running, Viewing, Stopped, Told,
                      Awaited, Unfinished
<1> QED
  BY <1>1, <1>2, <1>4, <1>5, <1>6 DEF IInv, Types

-----------------------------------------------------------------------------
(* Steps that leave panel and pumps alone.                                 *)
LEMMA WorkStays ==
  ASSUME Work, UNCHANGED <<job, rx, prog, cancel, items, diff>>
  PROVE  Work'
BY DEF Work, Waiting, Running, Viewing, Stopped, Told, Awaited, Unfinished

LEMMA PanelStays ==
  ASSUME PanelOK, UNCHANGED panel
  PROVE  PanelOK'
BY DEF PanelOK, panel, transfer, lists

LEMMA PumpsStay ==
  ASSUME PumpsOK, UNCHANGED pumps
  PROVE  PumpsOK'
BY DEF PumpsOK, pumps

LEMMA WindowStays ==
  ASSUME WindowOK, UNCHANGED window
  PROVE  WindowOK'
BY DEF WindowOK, window

(* The tabs and sessions change, or a frame passes without the panel.      *)
LEMMA OutsideStep ==
  ASSUME IInv,
         \/ HiddenFrame \/ Toggle \/ SwitchTab \/ CloseTab \/ Disconnect
         \/ SessionLost \/ Reconnected
  PROVE  IInv'
<1> USE DEF IInv, Types
<1>1. UNCHANGED <<pumps, panel>>
  BY DEF HiddenFrame, Toggle, SwitchTab, CloseTab, Disconnect, SessionLost,
         Reconnected, Rest
<1>2. PumpsOK' /\ PanelOK' /\ Work'
  BY <1>1, PumpsStay, PanelStays, WorkStays DEF pumps, panel, transfer
<1>3. CountsOK'
  BY Bounds DEF CountsOK, Turns, HiddenFrame, Toggle, SwitchTab, CloseTab, Disconnect,
         SessionLost, Reconnected, Rest, Event, bounds
<1>4. WindowOK'
  <2>1. /\ Len(tabs) \in Nat /\ DOMAIN tabs = 1 .. Len(tabs)
        /\ \A k \in 1 .. Len(tabs) : tabs[k] \in Terminals
        /\ active \in 0 .. Len(tabs) /\ Len(tabs) <= Len(FirstTabs)
    BY Elements DEF WindowOK
  <2>2. 0 \in 0 .. MaxConns
    BY Bounds
  <2>3. ASSUME NEW k \in 1 .. Len(tabs), LetGo(tabs[k])
        PROVE  handle' \in [Terminals -> 0 .. MaxConns] /\ over' \subseteq Terminals
    BY <2>2, <2>3, Replaced DEF WindowOK, LetGo
  <2>4. CASE HiddenFrame
    BY <2>4, WindowStays DEF HiddenFrame
  <2>5. CASE Toggle
    BY <2>5 DEF Toggle, WindowOK, None
  <2>6. CASE SwitchTab
    BY <2>1, <2>6 DEF SwitchTab, WindowOK
  <2>7. ASSUME CloseTab PROVE WindowOK'
    <3>1. PICK i \in DOMAIN tabs :
            /\ tabs' = [k \in 1 .. Len(tabs) - 1 |->
                          IF k < i THEN tabs[k] ELSE tabs[k + 1]]
            /\ active' = IF active = i THEN Len(tabs) - 1
                         ELSE IF active > i THEN active - 1 ELSE active
            /\ LetGo(tabs[i])
      BY <2>7 DEF CloseTab
    <3>2. tabs' \in Seq(Terminals) /\ Len(tabs') = Len(tabs) - 1
      <4>1. \A k \in 1 .. Len(tabs) - 1 : tabs'[k] \in Terminals
        <5>1. SUFFICES ASSUME NEW k \in 1 .. Len(tabs) - 1
                       PROVE  tabs'[k] \in Terminals
          OBVIOUS
        <5>2. k \in 1 .. Len(tabs) /\ k + 1 \in 1 .. Len(tabs)
          BY <2>1
        <5> QED
          BY <2>1, <3>1, <5>2
      <4>2. Len(tabs) - 1 \in Nat
        BY <2>1, <3>1
      <4> QED
        BY <3>1, <4>1, <4>2
    <3>3. active' \in 0 .. Len(tabs')
      BY <2>1, <3>1, <3>2
    <3>4. Len(tabs') <= Len(FirstTabs)
      BY <2>1, <3>2, Elements, Bounds
    <3>5. handle' \in [Terminals -> 0 .. MaxConns] /\ over' \subseteq Terminals
      BY <2>1, <2>3, <3>1
    <3> QED
      BY <2>7, <3>2, <3>3, <3>4, <3>5 DEF CloseTab, WindowOK
  <2>8. CASE Disconnect
    BY <2>1, <2>3, <2>8 DEF Disconnect, WindowOK
  <2>9. CASE SessionLost
    BY <2>1, <2>3, <2>9 DEF SessionLost, WindowOK
  <2>10. ASSUME Reconnected PROVE WindowOK'
    <3>1. PICK k \in DOMAIN tabs :
            /\ used[tabs[k]] < MaxConns
            /\ used' = [used EXCEPT ![tabs[k]] = @ + 1]
            /\ handle' = [handle EXCEPT ![tabs[k]] = used'[tabs[k]]]
      BY <2>10 DEF Reconnected
    <3>2. tabs[k] \in Terminals
      BY <2>1, <3>1
    <3>3. used[tabs[k]] + 1 \in 0 .. MaxConns
      <4>1. used[tabs[k]] \in 0 .. MaxConns
        BY <3>2 DEF WindowOK
      <4> QED
        BY <3>1, <4>1, Bounds
    <3>4. used' \in [Terminals -> 0 .. MaxConns]
      BY <3>1, <3>3, Replaced DEF WindowOK
    <3>5. handle' \in [Terminals -> 0 .. MaxConns]
      BY <3>1, <3>2, <3>4, Replaced DEF WindowOK
    <3> QED
      BY <2>10, <3>4, <3>5 DEF Reconnected, WindowOK
  <2> QED
    BY <2>4, <2>5, <2>6, <2>7, <2>8, <2>9, <2>10
<1> QED
  BY <1>2, <1>3, <1>4
-----------------------------------------------------------------------------
(* How the jobs change.                                                    *)
LEMMA RaisedStep ==
  ASSUME PumpsOK, NEW F, NEW s \in Slots
  PROVE  /\ Raised(F)[s] \in Jobs \cup {NoJob}
         /\ job[s] = NoJob => Raised(F)[s] = NoJob
         /\ job[s] # NoJob =>
              /\ job[s] \in Jobs /\ Raised(F)[s] \in Jobs
              /\ Raised(F)[s].kind = job[s].kind
              /\ Raised(F)[s].item = job[s].item
              /\ Raised(F)[s].answer = job[s].answer
              /\ job[s].cancelled \/ s \in F => Raised(F)[s].cancelled
<1>1. CASE job[s] = NoJob
  BY <1>1 DEF Raised
<1>2. ASSUME job[s] # NoJob
      PROVE  /\ job[s] \in Jobs /\ Raised(F)[s] \in Jobs
             /\ Raised(F)[s].kind = job[s].kind
             /\ Raised(F)[s].item = job[s].item
             /\ Raised(F)[s].answer = job[s].answer
             /\ Raised(F)[s].cancelled = (job[s].cancelled \/ s \in F)
  <2>1. job[s] \in Jobs
    BY <1>2 DEF PumpsOK
  <2>2. Raised(F)[s] = [job[s] EXCEPT !.cancelled = @ \/ s \in F]
    BY <1>2 DEF Raised
  <2> QED
    BY <2>1, <2>2 DEF Jobs
<1> QED
  BY <1>1, <1>2

(* Every job that is left keeps what it is and what it was told.           *)
SameJob(s) ==
  \/ job'[s] = job[s]
  \/ /\ job[s] \in Jobs /\ job'[s] \in Jobs
     /\ job'[s].kind = job[s].kind /\ job'[s].item = job[s].item
     /\ job'[s].answer = "none" => job[s].answer = "none"
     /\ job[s].cancelled => job'[s].cancelled

LEMMA RaisedIsSame ==
  ASSUME PumpsOK, NEW F, job' = Raised(F)
  PROVE  job' \in [Slots -> Jobs \cup {NoJob}] /\ \A s \in Slots : SameJob(s)
<1>1. \A s \in Slots : SameJob(s) /\ job'[s] \in Jobs \cup {NoJob}
  BY RaisedStep DEF SameJob
<1> QED
  BY <1>1 DEF Raised

LEMMA AbandonStep ==
  ASSUME PumpsOK, NEW F, Abandon(F)
  PROVE  /\ job' \in [Slots -> Jobs \cup {NoJob}]
         /\ \A s \in Slots : job'[s] = NoJob \/ SameJob(s)
         /\ \A s \in Slots : Unfinished(s)' /\ s \in F => job'[s].cancelled
         /\ rx \in Slots /\ job[rx].answer # "none" => job'[rx] = NoJob
<1>1. ASSUME NEW s \in Slots
      PROVE  /\ job'[s] \in Jobs \cup {NoJob}
             /\ job'[s] = NoJob \/ SameJob(s)
             /\ job'[s] # NoJob /\ s \in F => job'[s].cancelled
             /\ s = rx /\ job[s].answer # "none" => job'[s] = NoJob
  <2>1. job'[s] = IF s = rx /\ job[s].answer # "none" THEN NoJob
                  ELSE Raised(F)[s]
    BY DEF Abandon
  <2>2. CASE s = rx /\ job[s].answer # "none"
    BY <2>1, <2>2
  <2>3. CASE ~(s = rx /\ job[s].answer # "none")
    BY <2>1, <2>3, RaisedStep DEF SameJob
  <2> QED
    BY <2>2, <2>3
<1>2. job' \in [Slots -> Jobs \cup {NoJob}]
  BY <1>1 DEF Abandon
<1> QED
  BY <1>1, <1>2 DEF Unfinished

-----------------------------------------------------------------------------
(* The panel waits for nothing.                                            *)
LEMMA Idle ==
  ASSUME IInv, rx = None
  PROVE  /\ prog = None
         /\ \A i \in DOMAIN items : items[i].state # "running"
         /\ diff.phase # "scanning" /\ ~diff.prep
         /\ \A s \in Slots : Told(s)
<1>1. rx \notin Slots
  BY Bounds
<1> QED
  BY <1>1 DEF IInv, Work, Waiting, Running, Viewing, Stopped, Awaited

NothingRuns(is, d) ==
  /\ \A i \in DOMAIN is : is[i].state # "running"
  /\ d.phase # "scanning" /\ ~d.prep

(* Whatever the panel waited for is let go: an answer was there, or both   *)
(* flags are raised.                                                       *)
LEMMA LetGoStep ==
  ASSUME IInv, NEW F, Abandon(F), rx' = None, prog' = None,
         rx # None /\ job[rx].answer = "none" => {cancel, diff.flag} \subseteq F,
         NothingRuns(items', diff')
  PROVE  Work' /\ job' \in [Slots -> Jobs \cup {NoJob}]
<1>1. /\ job' \in [Slots -> Jobs \cup {NoJob}]
      /\ \A s \in Slots : job'[s] = NoJob \/ SameJob(s)
      /\ \A s \in Slots : Unfinished(s)' /\ s \in F => job'[s].cancelled
      /\ rx \in Slots /\ job[rx].answer # "none" => job'[rx] = NoJob
  BY AbandonStep DEF IInv, Types
<1>2. Waiting' /\ Running' /\ Viewing'
  BY DEF Waiting, Running, Viewing, Awaited, NothingRuns
<1>3. ASSUME NEW s \in Slots, Unfinished(s)', job'[s].kind # "list"
      PROVE  job'[s].cancelled
  <2>1. Unfinished(s) /\ job'[s].kind = job[s].kind
        /\ (job[s].cancelled => job'[s].cancelled)
    BY <1>1, <1>3, NoJobIsNone DEF Unfinished, SameJob
  <2>2. CASE s # rx
    BY <1>3, <2>1, <2>2 DEF IInv, Work, Stopped, Told
  <2>3. ASSUME s = rx PROVE job'[s].cancelled
    <3>1. rx # None /\ job[rx].answer = "none" /\ job[rx] \in Jobs
      BY <2>1, <2>3, Bounds DEF Unfinished, IInv, Work, Waiting
    <3>2. job[rx].kind \in {"transfer", "scan", "prepare"}
      BY <1>3, <2>1, <2>3, <3>1 DEF Jobs
    <3>3. s \in {cancel, diff.flag}
      BY <2>3, <3>1, <3>2 DEF IInv, Work, Waiting, Awaited
    <3> QED
      BY <1>1, <1>3, <3>1, <3>3
  <2> QED
    BY <2>2, <2>3
<1>4. Stopped'
  BY <1>3 DEF Stopped, Told
<1> QED
  BY <1>1, <1>2, <1>4 DEF Work

(* The panel waits on for the same job.                                    *)
LEMMA WaitStep ==
  ASSUME IInv, UNCHANGED <<rx, prog, cancel>>,
         \A s \in Slots : (s # rx /\ job'[s] = NoJob) \/ SameJob(s),
         \A i \in DOMAIN items' : items'[i].state = "running" =>
           \/ i \in DOMAIN items /\ items[i].state = "running"
           \/ Awaited("transfer") /\ job[rx].item = i,
         Awaited("scan") => diff'.flag = diff.flag /\ diff'.phase = diff.phase,
         Awaited("prepare") => diff'.flag = diff.flag /\ diff'.prep = diff.prep,
         diff'.phase = "scanning" => diff.phase = "scanning",
         diff'.prep => diff.prep
  PROVE  Work'
<1>1. rx \in Slots \cup {None}
  BY DEF IInv, Types, PanelOK
<1>2. rx # None => /\ job'[rx].kind = job[rx].kind
                   /\ job'[rx].item = job[rx].item /\ job'[rx] \in Jobs
  <2>1. rx # None => rx \in Slots /\ job[rx] \in Jobs
    BY <1>1 DEF IInv, Work, Waiting
  <2> QED
    BY <2>1 DEF SameJob
<1>3. \A k : Awaited(k)' <=> Awaited(k)
  BY <1>2 DEF Awaited
<1>4. Waiting'
  BY <1>2, <1>3 DEF IInv, Work, Waiting
<1>5. Running'
  BY <1>2, <1>3 DEF IInv, Work, Running, Awaited
<1>6. Viewing'
  BY <1>3 DEF IInv, Work, Viewing
<1>7. ASSUME NEW s \in Slots \ {rx}, Unfinished(s)', job'[s].kind # "list"
      PROVE  job'[s].cancelled
  <2>1. SameJob(s) /\ job'[s] # NoJob
    BY <1>7 DEF Unfinished
  <2>2. Unfinished(s) /\ job[s].kind # "list" /\ (job[s].cancelled => job'[s].cancelled)
    BY <1>7, <2>1, NoJobIsNone DEF SameJob, Unfinished
  <2> QED
    BY <2>2 DEF IInv, Work, Stopped, Told
<1>8. Stopped'
  BY <1>7 DEF Stopped, Told
<1> QED
  BY <1>4, <1>5, <1>6, <1>8 DEF Work

-----------------------------------------------------------------------------
(* The pumps.                                                              *)
LEMMA HeadTail ==
  ASSUME NEW S, NEW q \in Seq(S), q # <<>>
  PROVE  Head(q) \in S /\ Tail(q) \in Seq(S)
OBVIOUS

LEMMA JobSaysStep ==
  ASSUME IInv, NEW c \in Connections, JobSays(c)
  PROVE  IInv'
<1> DEFINE s == Head(queue[c])
<1>1. s \in Slots /\ job[s] \in Jobs
  <2>1. queue[c] \in Seq(Slots) /\ queue[c] # <<>> /\ job[s].kind = "transfer"
    BY DEF JobSays, IInv, Types, PumpsOK
  <2> QED
    BY <2>1, HeadTail, NoJobIsNone DEF IInv, Types, PumpsOK
<1>2. job' = [job EXCEPT ![s] = [job[s] EXCEPT !.said = TRUE]]
  BY DEF JobSays
<1>3. /\ [job[s] EXCEPT !.said = TRUE] \in Jobs
      /\ [job[s] EXCEPT !.said = TRUE].kind = job[s].kind
      /\ [job[s] EXCEPT !.said = TRUE].item = job[s].item
      /\ [job[s] EXCEPT !.said = TRUE].answer = job[s].answer
      /\ [job[s] EXCEPT !.said = TRUE].cancelled = job[s].cancelled
  BY <1>1 DEF Jobs
<1>4. job' \in [Slots -> Jobs \cup {NoJob}] /\ \A t \in Slots : SameJob(t)
  BY <1>1, <1>2, <1>3 DEF SameJob, IInv, Types, PumpsOK
<1>5. UNCHANGED <<queue, window, panel, turn, bounds>>
  BY DEF JobSays
<1>6. Work'
  BY <1>4, <1>5, WaitStep DEF panel, transfer
<1>7. WindowOK' /\ PanelOK' /\ PumpsOK' /\ CountsOK'
  BY <1>4, <1>5, WindowStays, PanelStays
     DEF IInv, Types, PumpsOK, CountsOK, window, bounds
<1> QED
  BY <1>6, <1>7 DEF IInv, Types

LEMMA JobEndsStep ==
  ASSUME IInv, NEW c \in Connections, JobEnds(c)
  PROVE  IInv'
<1> DEFINE s == Head(queue[c])
<1>1. s \in Slots /\ Tail(queue[c]) \in Seq(Slots)
  BY HeadTail DEF JobEnds, IInv, Types, PumpsOK
<1>2. PICK answer \in Outcomes(job[s]) :
        job' = [job EXCEPT ![s] = IF s = rx THEN [job[s] EXCEPT !.answer = answer]
                                  ELSE NoJob]
  BY DEF JobEnds
<1>3. answer \in Answers /\ answer # "none"
  BY DEF Outcomes, Answers
<1>4. ASSUME s = rx
      PROVE  LET j == [job[s] EXCEPT !.answer = answer] IN
             /\ job[s] \in Jobs /\ j \in Jobs
             /\ j.kind = job[s].kind /\ j.item = job[s].item
             /\ j.answer # "none" /\ j.cancelled = job[s].cancelled
  <2>1. job[s] \in Jobs
    BY <1>1, <1>4, Bounds DEF IInv, Work, Waiting
  <2> QED
    BY <1>3, <2>1 DEF Jobs
<1>5. /\ job' \in [Slots -> Jobs \cup {NoJob}]
      /\ \A t \in Slots : (t # rx /\ job'[t] = NoJob) \/ SameJob(t)
  <2>1. job \in [Slots -> Jobs \cup {NoJob}]
    BY DEF IInv, Types, PumpsOK
  <2>2. CASE s = rx
    BY <1>1, <1>2, <1>4, <2>1, <2>2 DEF SameJob
  <2>3. CASE s # rx
    BY <1>1, <1>2, <2>1, <2>3 DEF SameJob
  <2> QED
    BY <2>2, <2>3
<1>6. UNCHANGED <<window, panel, turn, bounds>>
  BY DEF JobEnds
<1>7. Work'
  BY <1>5, <1>6, WaitStep DEF panel, transfer
<1>8. queue' \in [Connections -> Seq(Slots)]
  BY <1>1, Replaced DEF JobEnds, IInv, Types, PumpsOK
<1>9. WindowOK' /\ PanelOK' /\ CountsOK'
  BY <1>6, WindowStays, PanelStays DEF IInv, Types, CountsOK, window, bounds
<1> QED
  BY <1>5, <1>7, <1>8, <1>9 DEF IInv, Types, PumpsOK

LEMMA PumpEndsStep ==
  ASSUME IInv, NEW c \in Connections, PumpEnds(c)
  PROVE  IInv'
<1> DEFINE dropped == {queue[c][k] : k \in DOMAIN queue[c]}
<1>1. job' = [s \in Slots |-> IF s \notin dropped THEN job[s]
                              ELSE IF s = rx THEN [job[s] EXCEPT !.answer = "gone"]
                              ELSE NoJob]
  BY DEF PumpEnds
<1>2. ASSUME NEW s \in Slots
      PROVE  /\ job'[s] \in Jobs \cup {NoJob}
             /\ (s # rx /\ job'[s] = NoJob) \/ SameJob(s)
  <2>1. CASE s \notin dropped
    BY <1>1, <2>1 DEF SameJob, IInv, Types, PumpsOK
  <2>2. CASE s \in dropped /\ s # rx
    BY <1>1, <2>2
  <2>3. ASSUME s \in dropped, s = rx
        PROVE  job'[s] \in Jobs /\ SameJob(s)
    <3>1. job[s] \in Jobs
      BY <2>3, Bounds DEF IInv, Work, Waiting
    <3>2. job'[s] = [job[s] EXCEPT !.answer = "gone"]
      BY <1>1, <2>3
    <3> QED
      BY <3>1, <3>2 DEF Jobs, Answers, SameJob
  <2> QED
    BY <2>1, <2>2, <2>3
<1>3. job' \in [Slots -> Jobs \cup {NoJob}]
  BY <1>1, <1>2
<1>4. UNCHANGED <<tabs, active, shown, lastTab, handle, used, panel, turn, bounds>>
  BY DEF PumpEnds
<1>5. Work'
  BY <1>2, <1>4, WaitStep DEF panel, transfer
<1>6. queue' \in [Connections -> Seq(Slots)]
  BY Replaced DEF PumpEnds, IInv, Types, PumpsOK
<1>7. over' \subseteq Terminals
  BY DEF PumpEnds, IInv, Types, WindowOK, Connections
<1>8. WindowOK' /\ PanelOK' /\ CountsOK'
  BY <1>4, <1>7, PanelStays DEF IInv, Types, CountsOK, WindowOK, bounds
<1> QED
  BY <1>3, <1>5, <1>6, <1>8 DEF IInv, Types, PumpsOK

-----------------------------------------------------------------------------
(* A frame begins.                                                         *)
LEMMA OpenFrameStep ==
  ASSUME IInv, OpenFrame
  PROVE  IInv'
<1>1. WindowOK' /\ CountsOK' /\ queue' = queue
  <2>1. lastTab' \in 0 .. Len(FirstTabs)
    BY Elements, Bounds DEF OpenFrame, IInv, Types, WindowOK
  <2> QED
    BY <2>1 DEF OpenFrame, IInv, Types, WindowOK, CountsOK, Turns, bounds
<1>2. ASSUME Reset PROVE IInv'
  <2>1. NoDiff \in Views /\ NoDiff.batch = {} /\ NoDiff.phase = "idle"
        /\ NoDiff.prep = FALSE
    BY DEF NoDiff, Views, Phases
  <2>2. DOMAIN items' = {} /\ diff' = NoDiff
    BY <1>2 DEF Reset
  <2>3. NothingRuns(items', diff')
    BY <2>1, <2>2 DEF NothingRuns
  <2>4. Work' /\ job' \in [Slots -> Jobs \cup {NoJob}]
    BY <1>2, <2>3, LetGoStep DEF Reset
  <2>5. PanelOK'
    BY <1>2, <2>1, <2>2 DEF Reset, PanelOK, IInv, Types
  <2> QED
    BY <1>1, <2>4, <2>5 DEF IInv, Types, PumpsOK
<1>3. ASSUME Said, job' = [job EXCEPT ![prog].said = FALSE],
             items' = IF job[prog].item \in DOMAIN items
                      THEN [items EXCEPT ![job[prog].item].state = "running"]
                      ELSE items,
             UNCHANGED <<transfer, pushed, lists, diff>>
      PROVE  IInv'
  <2>1. prog = rx /\ prog \in Slots /\ job[prog] \in Jobs /\ Awaited("transfer")
    BY <1>3 DEF Said, IInv, Types, PanelOK, Work, Waiting
  <2>2. LET j == [job[prog] EXCEPT !.said = FALSE] IN
        /\ j \in Jobs /\ j.kind = job[prog].kind /\ j.item = job[prog].item
        /\ j.answer = job[prog].answer /\ j.cancelled = job[prog].cancelled
    BY <2>1 DEF Jobs
  <2>3. job' \in [Slots -> Jobs \cup {NoJob}] /\ \A s \in Slots : SameJob(s)
    BY <1>3, <2>1, <2>2 DEF SameJob, IInv, Types, PumpsOK
  <2>4. DOMAIN items' = DOMAIN items
        /\ \A i \in DOMAIN items :
             \/ items'[i] = items[i]
             \/ i = job[prog].item /\ items'[i] = [items[i] EXCEPT !.state = "running"]
    BY <1>3
  <2>5. \A x \in Items : [x EXCEPT !.state = "running"] \in Items
    BY DEF Items, States, Live
  <2>6. PanelOK'
    BY <1>3, <2>4, <2>5 DEF PanelOK, IInv, Types, transfer, lists
  <2>7. Work'
    BY <1>3, <2>1, <2>3, <2>4, WaitStep DEF transfer
  <2> QED
    BY <1>1, <2>3, <2>6, <2>7 DEF IInv, Types, PumpsOK
<1>4. ASSUME UNCHANGED <<job, items, transfer, pushed, lists, diff>> PROVE IInv'
  <2>1. PanelOK' /\ Work'
    BY <1>4, PanelStays, WorkStays DEF IInv, Types, panel, transfer
  <2> QED
    BY <1>1, <1>4, <2>1 DEF IInv, Types, PumpsOK
<1> QED
  BY <1>2, <1>3, <1>4 DEF OpenFrame

-----------------------------------------------------------------------------
(* The answer.                                                             *)
LEMMA SettleStep ==
  ASSUME NEW d \in Views, NEW is
  PROVE  /\ Settle(d, is) \in Views /\ Settle(d, is).batch \subseteq d.batch
         /\ Settle(d, is).prep = d.prep
         /\ Settle(d, is).phase = "scanning" => d.phase = "scanning"
         /\ d.phase # "syncing" \/ d.prep => Settle(d, is) = d
<1>1. CASE Settle(d, is) = d
  BY <1>1
<1>2. ASSUME Settle(d, is) = [d EXCEPT !.phase = Settled(d), !.batch = {},
                                       !.flag = None],
             d.phase = "syncing", ~d.prep
      PROVE  /\ Settle(d, is) \in Views /\ Settle(d, is).batch = {}
             /\ Settle(d, is).prep = d.prep
             /\ Settle(d, is).phase # "scanning"
  <2>1. Settled(d) \in Phases \ {"scanning"}
    BY DEF Settled, Phases
  <2> QED
    BY <1>2, <2>1 DEF Views
<1> QED
  BY <1>1, <1>2 DEF Settle

(* The four fields that a given-up comparison changes.                     *)
LEMMA GivenUpView ==
  ASSUME NEW d \in Views, NEW e,
         e = FailDiff(d) \/ (d.phase \notin {"scanning", "syncing"} /\
                             e = [d EXCEPT !.prep = FALSE, !.flag = None])
  PROVE  e \in Views /\ e.batch = d.batch /\ e.phase # "scanning" /\ ~e.prep
<1>1. Settled(d) \in Phases \ {"scanning"}
  BY DEF Settled, Phases
<1> QED
  BY <1>1 DEF FailDiff, Views

LEMMA FailedItems ==
  ASSUME PanelOK, GiveUp
  PROVE  /\ DOMAIN items' = DOMAIN items
         /\ \A i \in DOMAIN items : items'[i] \in Items /\ items'[i].state # "running"
<1>1. items' = [i \in DOMAIN items |->
                  IF items[i].state \in Live
                  THEN [items[i] EXCEPT !.state = "failed"] ELSE items[i]]
  BY DEF GiveUp, FailAll
<1>2. \A x \in Items : LET y == [x EXCEPT !.state = "failed"]
                       IN  y \in Items /\ y.state = "failed"
  BY DEF Items, States, Live
<1> QED
  BY <1>1, <1>2 DEF PanelOK, Live

LEMMA GiveUpStep ==
  ASSUME IInv, GiveUp,
         diff' = IF DiffBusy THEN FailDiff(diff)
                 ELSE [diff EXCEPT !.prep = FALSE, !.flag = None]
  PROVE  Work' /\ PanelOK' /\ job' \in [Slots -> Jobs \cup {NoJob}]
<1>1. diff' \in Views /\ diff'.batch = diff.batch /\ diff'.phase # "scanning" /\ ~diff'.prep
  BY GivenUpView DEF DiffBusy, IInv, Types, PanelOK
<1>2. /\ DOMAIN items' = DOMAIN items
      /\ \A i \in DOMAIN items : items'[i] \in Items /\ items'[i].state # "running"
  BY FailedItems DEF IInv, Types
<1>3. rx' = None /\ prog' = None /\ cancel' = None /\ Abandon({cancel, diff.flag})
      /\ pushed' = pushed /\ refresh' = refresh /\ listing' = listing
  BY DEF GiveUp, FailAll, lists
<1>4. NothingRuns(items', diff')
  BY <1>1, <1>2 DEF NothingRuns
<1>5. Work' /\ job' \in [Slots -> Jobs \cup {NoJob}]
  BY <1>3, <1>4, LetGoStep
<1>6. PanelOK'
  BY <1>1, <1>2, <1>3 DEF IInv, Types, PanelOK
<1> QED
  BY <1>5, <1>6

(* An answer is taken: with it the job has ended.                          *)
LEMMA TakenStep ==
  ASSUME IInv, NEW kind \in Kinds, Answered(kind), Taken, prog' = None,
         NothingRuns(items', diff')
  PROVE  Work' /\ job' \in [Slots -> Jobs \cup {NoJob}]
BY LetGoStep DEF Answered, Answer, Taken

(* Which answer it is says what else can be going on.                      *)
LEMMA OtherKind ==
  ASSUME IInv, NEW kind \in Kinds, Answered(kind)
  PROVE  /\ kind # "transfer" =>
              /\ prog = None
              /\ \A i \in DOMAIN items : items[i].state # "running"
         /\ kind # "scan" => diff.phase # "scanning"
         /\ kind # "prepare" => ~diff.prep
         /\ rx \in Slots /\ job[rx] \in Jobs
BY DEF IInv, Types, PanelOK, Work, Waiting, Running, Viewing, Awaited, Answered

LEMMA PollResultStep ==
  ASSUME IInv, PollResult
  PROVE  IInv'
<1>1. WindowOK' /\ CountsOK' /\ queue' = queue
  BY WindowStays DEF PollResult, IInv, Types, CountsOK, Turns, window, bounds
<1>2. SUFFICES Work' /\ PanelOK' /\ job' \in [Slots -> Jobs \cup {NoJob}]
  BY <1>1 DEF IInv, Types, PumpsOK
<1>3. PanelOK /\ diff \in Views /\ diff.batch \subseteq 1 .. pushed
  BY DEF IInv, Types, PanelOK
<1>4. ASSUME NoAnswer PROVE Work' /\ PanelOK' /\ job' = job
  <2>1. diff' = diff \/ diff' = Settle(diff, items)
    BY <1>4 DEF NoAnswer
  <2>2. /\ diff' \in Views /\ diff'.batch \subseteq diff.batch /\ diff'.prep = diff.prep
        /\ diff'.phase = "scanning" => diff.phase = "scanning"
        /\ diff.phase # "syncing" \/ diff.prep => diff' = diff
    BY <1>3, <2>1, SettleStep
  <2>3. UNCHANGED <<job, rx, prog, cancel, items, pushed, refresh, listing>>
    BY <1>4 DEF NoAnswer, transfer, lists
  <2>4. /\ Awaited("scan") => diff' = diff
        /\ Awaited("prepare") => diff' = diff
    BY <2>2 DEF IInv, Work, Waiting
  <2>5. \A s \in Slots : SameJob(s)
    BY <2>3 DEF SameJob
  <2>6. Work'
    BY <2>2, <2>3, <2>4, <2>5, WaitStep
  <2>7. PanelOK'
    BY <1>3, <2>2, <2>3 DEF PanelOK
  <2> QED
    BY <2>3, <2>6, <2>7
<1>5. ASSUME ListAnswer PROVE Work' /\ PanelOK' /\ job' \in [Slots -> Jobs \cup {NoJob}]
  <2>1. Answered("list") /\ Taken /\ diff' = Settle(diff, items)
        /\ UNCHANGED <<prog, cancel, items, pushed, refresh, listing>>
    BY <1>5 DEF ListAnswer, lists
  <2>2. /\ prog = None /\ \A i \in DOMAIN items : items[i].state # "running"
        /\ diff.phase # "scanning" /\ ~diff.prep
    BY <2>1, OtherKind DEF Kinds
  <2>3. diff' \in Views /\ diff'.batch \subseteq diff.batch /\ diff'.phase # "scanning"
        /\ ~diff'.prep
    BY <1>3, <2>1, <2>2, SettleStep
  <2>4. NothingRuns(items', diff')
    BY <2>1, <2>2, <2>3 DEF NothingRuns
  <2>5. Work' /\ job' \in [Slots -> Jobs \cup {NoJob}]
    BY <2>1, <2>2, <2>4, TakenStep DEF Kinds
  <2>6. PanelOK'
    BY <1>3, <2>1, <2>3 DEF PanelOK, Taken
  <2> QED
    BY <2>5, <2>6
<1>6. ASSUME TransferAnswer
      PROVE  Work' /\ PanelOK' /\ job' \in [Slots -> Jobs \cup {NoJob}]
  <2>1. Answered("transfer") /\ Taken /\ prog' = None /\ cancel' = None
        /\ diff' = Settle(diff, items') /\ Finish
        /\ UNCHANGED <<pushed, listing>> /\ refresh' = (refresh \/ Answer = "ok")
    BY <1>6 DEF TransferAnswer, Finish
  <2>2. /\ diff.phase # "scanning" /\ ~diff.prep /\ job[rx] \in Jobs
    BY <2>1, OtherKind DEF Kinds
  <2>3. diff' \in Views /\ diff'.batch \subseteq diff.batch /\ diff'.phase # "scanning"
        /\ ~diff'.prep
    BY <1>3, <2>1, <2>2, SettleStep
  <2>4. PICK end \in {"done", "failed", "cancelled", "skipped"} :
          items' = IF job[rx].item \in DOMAIN items
                   THEN [items EXCEPT ![job[rx].item].state = end] ELSE items
    <3>1. (IF Answer = "ok" THEN "done" ELSE Answer)
            \in {"done", "failed", "cancelled", "skipped"}
      BY <2>1, <2>2 DEF Answered, Answer, Jobs, Answers
    <3> QED
      BY <2>1, <3>1 DEF Finish
  <2>5. \A x \in Items : LET y == [x EXCEPT !.state = end]
                         IN  y \in Items /\ y.state # "running"
    BY DEF Items, States, Live
  <2>6. \A i \in DOMAIN items : items[i].state = "running" => i = job[rx].item
    BY DEF IInv, Work, Running
  <2>7. /\ DOMAIN items' = DOMAIN items
        /\ \A i \in DOMAIN items : items'[i] \in Items /\ items'[i].state # "running"
    BY <1>3, <2>4, <2>5, <2>6 DEF PanelOK
  <2>8. NothingRuns(items', diff')
    BY <2>3, <2>7 DEF NothingRuns
  <2>9. Work' /\ job' \in [Slots -> Jobs \cup {NoJob}]
    BY <2>1, <2>8, TakenStep DEF Kinds
  <2>10. refresh' \in BOOLEAN
    BY <2>1
  <2>11. PanelOK'
    BY <1>3, <2>1, <2>3, <2>7, <2>10 DEF PanelOK, Taken
  <2> QED
    BY <2>9, <2>11
<1>7. ASSUME ScanAnswer PROVE Work' /\ PanelOK' /\ job' \in [Slots -> Jobs \cup {NoJob}]
  <2>1. Answered("scan") /\ Taken
        /\ diff' = [diff EXCEPT !.flag = None, !.phase = Settled(diff)]
        /\ UNCHANGED <<prog, cancel, items, pushed, refresh, listing>>
    BY <1>7 DEF ScanAnswer, lists
  <2>2. /\ prog = None /\ \A i \in DOMAIN items : items[i].state # "running"
        /\ ~diff.prep
    BY <2>1, OtherKind DEF Kinds
  <2>3. Settled(diff) \in Phases \ {"scanning"}
    BY DEF Settled, Phases
  <2>4. diff' \in Views /\ diff'.batch = diff.batch /\ diff'.phase # "scanning"
        /\ diff'.prep = diff.prep
    BY <1>3, <2>1, <2>3 DEF Views
  <2>5. NothingRuns(items', diff')
    BY <2>1, <2>2, <2>4 DEF NothingRuns
  <2>6. Work' /\ job' \in [Slots -> Jobs \cup {NoJob}]
    BY <2>1, <2>2, <2>5, TakenStep DEF Kinds
  <2>7. PanelOK'
    BY <1>3, <2>1, <2>4 DEF PanelOK, Taken
  <2> QED
    BY <2>6, <2>7
<1>8. ASSUME PrepareAnswer
      PROVE  Work' /\ PanelOK' /\ job' \in [Slots -> Jobs \cup {NoJob}]
  <2>1. Answered("prepare") /\ Taken /\ UNCHANGED <<prog, cancel, listing>>
    BY <1>8 DEF PrepareAnswer
  <2>2. /\ prog = None /\ \A i \in DOMAIN items : items[i].state # "running"
        /\ diff.phase # "scanning" /\ job[rx] \in Jobs
    BY <2>1, OtherKind DEF Kinds
  <2>3. PICK n \in 0 .. MaxPushes - pushed :
          /\ pushed' = pushed + n
          /\ items' = [i \in DOMAIN items \cup (pushed + 1 .. pushed + n) |->
                         IF i \in pushed + 1 .. pushed + n
                         THEN [host |-> job[rx].meant, state |-> "queued"]
                         ELSE items[i]]
          /\ diff' = [diff EXCEPT !.flag = None, !.prep = FALSE,
                        !.batch = pushed + 1 .. pushed + n,
                        !.phase = IF n = 0 THEN Settled(diff) ELSE "syncing"]
          /\ refresh' = (refresh \/ (Answer = "ok" /\ n = 0))
    <3>1. pushed \in 0 .. MaxPushes /\ MaxPushes \in Nat
      BY <1>3, Bounds DEF PanelOK
    <3>2. 0 \in 0 .. MaxPushes - pushed
      BY <3>1
    <3> QED
      BY <1>8, <3>2 DEF PrepareAnswer
  <2>4. /\ pushed' \in 0 .. MaxPushes /\ 1 .. pushed \subseteq 1 .. pushed'
        /\ pushed + 1 .. pushed + n \subseteq 1 .. pushed'
        /\ 1 .. pushed' \subseteq Ids
    <3>1. pushed \in Nat /\ n \in Nat /\ pushed + n <= MaxPushes /\ MaxPushes \in Nat
      BY <1>3, Bounds DEF PanelOK
    <3> QED
      BY <2>3, <3>1 DEF Ids
  <2>5. (IF n = 0 THEN Settled(diff) ELSE "syncing") \in Phases \ {"scanning"}
    BY DEF Settled, Phases
  <2>6. diff' \in Views /\ diff'.batch \subseteq 1 .. pushed' /\ diff'.phase # "scanning"
        /\ ~diff'.prep
    <3>1. pushed + 1 .. pushed + n \in SUBSET Ids
      BY <2>4
    <3> QED
      BY <1>3, <2>3, <2>4, <2>5, <3>1 DEF Views
  <2>7. LET new == [host |-> job[rx].meant, state |-> "queued"]
        IN  new \in Items /\ new.state # "running"
    BY <2>2 DEF Jobs, Items, States, Live
  <2>8. /\ DOMAIN items' \subseteq 1 .. pushed'
        /\ \A i \in DOMAIN items' : items'[i] \in Items /\ items'[i].state # "running"
    BY <1>3, <2>2, <2>3, <2>4, <2>7 DEF PanelOK
  <2>9. NothingRuns(items', diff')
    BY <2>6, <2>8 DEF NothingRuns
  <2>10. Work' /\ job' \in [Slots -> Jobs \cup {NoJob}]
    BY <2>1, <2>2, <2>9, TakenStep DEF Kinds
  <2>11. refresh' \in BOOLEAN
    BY <2>3
  <2>12. PanelOK'
    BY <1>3, <2>1, <2>4, <2>6, <2>8, <2>11 DEF PanelOK, Taken
  <2> QED
    BY <2>10, <2>12
<1>9. ASSUME WorkerGone PROVE Work' /\ PanelOK' /\ job' \in [Slots -> Jobs \cup {NoJob}]
  BY <1>9, GiveUpStep DEF WorkerGone
<1> QED
  BY <1>4, <1>5, <1>6, <1>7, <1>8, <1>9 DEF PollResult, IInv, Types, PumpsOK

-----------------------------------------------------------------------------
(* A job is given to the pump, or refused.                                 *)
LEMMA AcceptStep ==
  ASSUME IInv, active # None, NEW s \in Slots, NEW kind \in Kinds,
         NEW item \in 0 .. MaxPushes, NEW meant \in Terminals,
         Accept(s, kind, item, meant)
  PROVE  /\ PumpsOK' /\ rx' = s /\ refused' = refused
         /\ job'[s] \in Jobs /\ job'[s].kind = kind /\ job'[s].item = item
         /\ \A t \in Slots \ {s} : job'[t] = job[t]
<1> DEFINE new == [kind |-> kind, item |-> item, meant |-> meant, on |-> Current,
                   cancelled |-> FALSE, said |-> FALSE, answer |-> "none"]
<1>1. Current \in Terminals
  <2>1. tabs \in Seq(Terminals) /\ active \in 1 .. Len(tabs)
    BY Elements DEF IInv, Types, WindowOK, None
  <2> QED
    BY <2>1, Elements DEF Current
<1>2. new \in Jobs
  BY <1>1 DEF Jobs, Kinds, Answers
<1>3. job' = [job EXCEPT ![s] = new] /\ rx' = s /\ refused' = refused
      /\ queue' = [queue EXCEPT ![Here] = Append(queue[Here], s)]
  BY DEF Accept
<1>4. job' \in [Slots -> Jobs \cup {NoJob}] /\ job'[s] = new
      /\ \A t \in Slots \ {s} : job'[t] = job[t]
  BY <1>2, <1>3 DEF IInv, Types, PumpsOK
<1>5. queue' \in [Connections -> Seq(Slots)]
  <2>1. queue \in [Connections -> Seq(Slots)]
    BY DEF IInv, Types, PumpsOK
  <2>2. CASE Here \in Connections
    <3>1. Append(queue[Here], s) \in Seq(Slots)
      BY <2>1, <2>2
    <3> QED
      BY <1>3, <2>1, <3>1, Replaced
  <2>3. CASE Here \notin Connections
    BY <1>3, <2>1, <2>3
  <2> QED
    BY <2>2, <2>3
<1> QED
  BY <1>2, <1>3, <1>4, <1>5 DEF PumpsOK

(* The panel, which waited for nothing, waits for the new job.             *)
LEMMA StartStep ==
  ASSUME IInv, rx = None, active # None, NEW s \in Slots, NEW kind \in Kinds,
         NEW item \in 0 .. MaxPushes, NEW meant \in Terminals,
         Accept(s, kind, item, meant),
         IF kind = "transfer" THEN prog' = s /\ cancel' = s ELSE prog' = prog,
         \A i \in DOMAIN items' :
           items'[i].state = "running" => kind = "transfer" /\ item = i,
         kind = "scan" => diff'.flag = s /\ diff'.phase = "scanning",
         kind = "prepare" => diff'.flag = s /\ diff'.prep,
         diff'.phase = "scanning" => kind = "scan",
         diff'.prep => kind = "prepare"
  PROVE  Work' /\ PumpsOK' /\ rx' = s /\ refused' = refused
<1>1. /\ PumpsOK' /\ rx' = s /\ refused' = refused
      /\ job'[s] \in Jobs /\ job'[s].kind = kind /\ job'[s].item = item
      /\ \A t \in Slots \ {s} : job'[t] = job[t]
  BY AcceptStep
<1>2. prog = None /\ s # None /\ \A t \in Slots : Told(t)
  BY Idle, Bounds
<1>3. \A k : Awaited(k)' <=> k = kind
  BY <1>1, <1>2 DEF Awaited
<1>4. Waiting' /\ Running' /\ Viewing'
  BY <1>1, <1>2, <1>3 DEF Waiting, Running, Viewing
<1>5. Stopped'
  BY <1>1, <1>2 DEF Stopped, Told, Unfinished
<1> QED
  BY <1>1, <1>4, <1>5 DEF Work

LEMMA RefuseStep ==
  ASSUME IInv, rx = None, Refuse, prog' = None, NothingRuns(items', diff')
  PROVE  Work' /\ PumpsOK' /\ rx' = None /\ refused' \in 0 .. MaxRefusals
<1>1. rx' = None /\ job' = job /\ queue' = queue
  BY DEF Refuse, pumps
<1>2. \A t \in Slots : Told(t)
  BY Idle
<1>3. Work'
  BY <1>1, <1>2 DEF Work, Waiting, Running, Viewing, Stopped, Told, Unfinished,
                    Awaited, NothingRuns
<1>4. refused' \in 0 .. MaxRefusals
  <2>1. refused \in 0 .. MaxRefusals /\ MaxRefusals \in Nat
    BY Bounds DEF IInv, Types, CountsOK
  <2> QED
    BY <2>1 DEF Refuse
<1> QED
  BY <1>1, <1>3, <1>4 DEF PumpsOK, IInv, Types

LEMMA ListStep ==
  ASSUME IInv, rx = None, active # None, List, UNCHANGED <<items, diff>>
  PROVE  Work' /\ PumpsOK' /\ rx' \in Slots \cup {None} /\ prog' = prog
         /\ cancel' = cancel /\ refused' \in 0 .. MaxRefusals
<1>1. /\ prog = None /\ \A i \in DOMAIN items : items[i].state # "running"
      /\ diff.phase # "scanning" /\ ~diff.prep
  BY Idle
<1>2. prog' = prog /\ cancel' = cancel
  BY DEF List
<1>3. ASSUME NEW s \in Slots, Accept(s, "list", 0, Current)
      PROVE  Work' /\ PumpsOK' /\ rx' = s /\ refused' = refused
  <2>1. Current \in Terminals /\ 0 \in 0 .. MaxPushes
    BY Elements, Bounds DEF IInv, Types, WindowOK, Current
  <2> QED
    BY <1>1, <1>2, <1>3, <2>1, StartStep DEF Kinds
<1>4. ASSUME Refuse
      PROVE  Work' /\ PumpsOK' /\ rx' = None /\ refused' \in 0 .. MaxRefusals
  <2>1. NothingRuns(items', diff')
    BY <1>1 DEF NothingRuns
  <2> QED
    BY <1>1, <1>2, <1>4, <2>1, RefuseStep
<1> QED
  BY <1>2, <1>3, <1>4 DEF List, IInv, Types, CountsOK

LEMMA GateStep ==
  ASSUME IInv, Unavailable \/ Available
  PROVE  IInv'
<1>1. WindowOK'
  BY WindowStays DEF Unavailable, Available, IInv, Types
<1>2. ASSUME Unavailable PROVE IInv'
  <2>1. CountsOK' /\ queue' = queue
    BY <1>2 DEF Unavailable, IInv, Types, CountsOK, Turns, window, bounds
  <2>2. CASE /\ GiveUp
             /\ diff' = IF DiffBusy THEN FailDiff(diff)
                        ELSE [diff EXCEPT !.prep = FALSE, !.flag = None]
    BY <1>1, <2>1, <2>2, GiveUpStep DEF IInv, Types, PumpsOK
  <2>3. CASE UNCHANGED <<job, panel>>
    BY <1>1, <2>1, <2>3, PanelStays, WorkStays
       DEF IInv, Types, PumpsOK, panel, transfer
  <2> QED
    BY <1>2, <2>2, <2>3 DEF Unavailable
<1>3. ASSUME Available PROVE IInv'
  <2>1. active # None /\ turn' = "act"
        /\ UNCHANGED <<window, items, pushed, diff, ops, events>>
    BY <1>3 DEF Available, Ready
  <2>2. ASSUME rx = None, refresh' = FALSE, listing' = (listing /\ refresh), List
        PROVE  IInv'
    <3>1. /\ Work' /\ PumpsOK' /\ rx' \in Slots \cup {None} /\ prog' = prog
          /\ cancel' = cancel /\ refused' \in 0 .. MaxRefusals
      BY <2>1, <2>2, ListStep
    <3>2. refresh' \in BOOLEAN /\ listing' \in BOOLEAN
      BY <2>2
    <3>3. PanelOK' /\ CountsOK'
      BY <2>1, <3>1, <3>2 DEF IInv, Types, PanelOK, CountsOK, Turns, window
    <3> QED
      BY <1>1, <3>1, <3>3 DEF IInv, Types
  <2>3. ASSUME UNCHANGED <<transfer, pumps, lists, refused>> PROVE IInv'
    <3>1. PanelOK' /\ CountsOK' /\ Work' /\ PumpsOK'
      BY <2>1, <2>3, PanelStays, PumpsStay, WorkStays
         DEF IInv, Types, CountsOK, Turns, window, panel, pumps, transfer
    <3> QED
      BY <1>1, <3>1 DEF IInv, Types
  <2> QED
    BY <1>3, <2>2, <2>3 DEF Available
<1> QED
  BY <1>2, <1>3

-----------------------------------------------------------------------------
(* The user acts.                                                          *)
LEMMA NewItem ==
  ASSUME PanelOK, pushed < MaxPushes, active # None, WindowOK,
         items' = [i \in DOMAIN items \cup {pushed + 1} |->
                     IF i = pushed + 1
                     THEN [host |-> Current, state |-> "queued"] ELSE items[i]]
  PROVE  /\ pushed + 1 \in 0 .. MaxPushes /\ 1 .. pushed \subseteq 1 .. pushed + 1
         /\ DOMAIN items' \subseteq 1 .. pushed + 1
         /\ \A i \in DOMAIN items' :
              /\ items'[i] \in Items
              /\ items'[i].state = "running" =>
                   i \in DOMAIN items /\ items[i].state = "running"
<1>1. pushed \in Nat /\ MaxPushes \in Nat
  BY Bounds DEF PanelOK
<1>2. Current \in Terminals
  BY Elements DEF WindowOK, None, Current
<1>3. LET new == [host |-> Current, state |-> "queued"]
      IN  new \in Items /\ new.state # "running"
  BY <1>2 DEF Items, States, Live
<1>4. \A i \in DOMAIN items' :
        /\ items'[i] \in Items
        /\ items'[i].state = "running" => i \in DOMAIN items /\ items[i].state = "running"
  BY <1>3 DEF PanelOK
<1>5. pushed + 1 \in 0 .. MaxPushes /\ 1 .. pushed \subseteq 1 .. pushed + 1
      /\ pushed + 1 \in 1 .. pushed + 1
  BY <1>1
<1>6. DOMAIN items' = DOMAIN items \cup {pushed + 1}
  OBVIOUS
<1>7. DOMAIN items' \subseteq 1 .. pushed + 1
  BY <1>5, <1>6 DEF PanelOK
<1> QED
  BY <1>4, <1>5, <1>7

LEMMA PushStep ==
  ASSUME IInv, active # None, Push
  PROVE  Work' /\ PumpsOK' /\ PanelOK' /\ refused' = refused
<1>1. /\ pushed < MaxPushes /\ pushed' = pushed + 1
      /\ items' = [i \in DOMAIN items \cup {pushed + 1} |->
                     IF i = pushed + 1
                     THEN [host |-> Current, state |-> "queued"] ELSE items[i]]
      /\ UNCHANGED <<job, queue, rx, prog, cancel, refresh, listing, diff, refused>>
  BY DEF Push, pumps, transfer, lists
<1>2. /\ pushed' \in 0 .. MaxPushes /\ 1 .. pushed \subseteq 1 .. pushed'
      /\ DOMAIN items' \subseteq 1 .. pushed'
      /\ \A i \in DOMAIN items' :
           /\ items'[i] \in Items
           /\ items'[i].state = "running" =>
                i \in DOMAIN items /\ items[i].state = "running"
  BY <1>1, NewItem DEF IInv, Types
<1>3. \A s \in Slots : SameJob(s)
  BY <1>1 DEF SameJob
<1>4. Work'
  BY <1>1, <1>2, <1>3, WaitStep
<1>5. PanelOK' /\ PumpsOK'
  BY <1>1, <1>2 DEF IInv, Types, PanelOK, PumpsOK
<1> QED
  BY <1>1, <1>4, <1>5

LEMMA ScanOrSyncStep ==
  ASSUME IInv, active # None, Scan \/ Sync
  PROVE  Work' /\ PumpsOK' /\ PanelOK' /\ refused' \in 0 .. MaxRefusals
<1> DEFINE scanned == [diff EXCEPT !.open = TRUE, !.phase = "scanning", !.batch = {},
                                   !.prep = FALSE]
           synced == [diff EXCEPT !.phase = "syncing", !.batch = {}, !.prep = TRUE]
<1>1. rx = None /\ UNCHANGED <<prog, cancel, items, pushed, refresh, listing>>
  BY DEF Scan, Sync, lists
<1>2. /\ prog = None /\ \A i \in DOMAIN items : items[i].state # "running"
      /\ diff.phase # "scanning" /\ ~diff.prep
  BY <1>1, Idle
<1>3. diff \in Views
  BY DEF IInv, Types, PanelOK
<1>4. /\ scanned \in Views /\ scanned.batch = {} /\ scanned.phase = "scanning" /\ ~scanned.prep
      /\ synced \in Views /\ synced.batch = {} /\ synced.phase = "syncing" /\ synced.prep
  BY <1>3 DEF Views, Phases
<1>5. Current \in Terminals /\ 0 \in 0 .. MaxPushes
  BY Elements, Bounds DEF IInv, Types, WindowOK, Current, None
<1>6. ASSUME NEW d \in {scanned, synced}, Refuse, diff' = FailDiff(d)
      PROVE  Work' /\ PumpsOK' /\ PanelOK' /\ refused' \in 0 .. MaxRefusals
  <2>1. diff' \in Views /\ diff'.batch = {} /\ diff'.phase # "scanning" /\ ~diff'.prep
    BY <1>4, <1>6, GivenUpView
  <2>2. NothingRuns(items', diff')
    BY <1>1, <1>2, <2>1 DEF NothingRuns
  <2>3. Work' /\ PumpsOK' /\ rx' = None /\ refused' \in 0 .. MaxRefusals
    BY <1>1, <1>2, <1>6, <2>2, RefuseStep
  <2>4. PanelOK'
    BY <1>1, <2>1, <2>3 DEF IInv, Types, PanelOK
  <2> QED
    BY <2>3, <2>4
<1>7. \A d \in Views, s \in Slots :
        LET e == [d EXCEPT !.flag = s]
        IN  /\ e \in Views /\ e.flag = s /\ e.batch = d.batch
            /\ e.phase = d.phase /\ e.prep = d.prep
  BY DEF Views
<1>8. ASSUME NEW s \in Slots, Accept(s, "scan", 0, Current),
             diff' = [scanned EXCEPT !.flag = s]
      PROVE  Work' /\ PumpsOK' /\ PanelOK' /\ refused' \in 0 .. MaxRefusals
  <2>1. diff' \in Views /\ diff'.flag = s /\ diff'.batch = {} /\ diff'.phase = "scanning"
        /\ ~diff'.prep
    BY <1>4, <1>7, <1>8
  <2>2. Work' /\ PumpsOK' /\ rx' = s /\ refused' = refused
    BY <1>1, <1>2, <1>5, <1>8, <2>1, StartStep DEF Kinds
  <2>3. PanelOK'
    BY <1>1, <2>1, <2>2 DEF IInv, Types, PanelOK
  <2> QED
    BY <2>2, <2>3 DEF IInv, Types, CountsOK
<1>9. ASSUME NEW s \in Slots, Accept(s, "prepare", 0, Current),
             diff' = [synced EXCEPT !.flag = s]
      PROVE  Work' /\ PumpsOK' /\ PanelOK' /\ refused' \in 0 .. MaxRefusals
  <2>1. diff' \in Views /\ diff'.flag = s /\ diff'.batch = {} /\ diff'.phase = "syncing"
        /\ diff'.prep
    BY <1>4, <1>7, <1>9
  <2>2. Work' /\ PumpsOK' /\ rx' = s /\ refused' = refused
    BY <1>1, <1>2, <1>5, <1>9, <2>1, StartStep DEF Kinds
  <2>3. PanelOK'
    BY <1>1, <2>1, <2>2 DEF IInv, Types, PanelOK
  <2> QED
    BY <2>2, <2>3 DEF IInv, Types, CountsOK
<1> QED
  BY <1>6, <1>8, <1>9 DEF Scan, Sync

LEMMA CancelOrBackStep ==
  ASSUME IInv, CancelOrBack
  PROVE  Work' /\ PumpsOK' /\ PanelOK' /\ refused' = refused
<1>1. UNCHANGED <<queue, rx, prog, cancel, pushed, refresh, listing, refused>>
  BY DEF CancelOrBack, transfer, lists
<1>2. diff \in Views /\ PumpsOK /\ PanelOK
  BY DEF IInv, Types, PanelOK
<1> DEFINE closed == [diff EXCEPT !.open = FALSE]
<1>3. /\ closed \in Views /\ closed.batch = diff.batch /\ closed.phase = diff.phase
      /\ closed.prep = diff.prep /\ closed.flag = diff.flag
  BY <1>2 DEF Views
<1>4. ASSUME NEW d \in {diff, closed}, CancelDiff(d)
      PROVE  Work' /\ PumpsOK' /\ PanelOK'
  <2>1. d \in Views /\ d.batch = diff.batch /\ d.phase = diff.phase
        /\ d.prep = diff.prep /\ d.flag = diff.flag
    BY <1>2, <1>3
  <2>2. items' = [i \in DOMAIN items |->
                    IF i \in diff.batch /\ items[i].state = "queued"
                    THEN [items[i] EXCEPT !.state = "cancelled"] ELSE items[i]]
    BY <1>4 DEF CancelDiff
  <2>3. \A x \in Items : LET y == [x EXCEPT !.state = "cancelled"]
                         IN  y \in Items /\ y.state # "running"
    BY DEF Items, States, Live
  <2>4. /\ DOMAIN items' = DOMAIN items
        /\ \A i \in DOMAIN items :
             /\ items'[i] \in Items
             /\ items'[i].state = "running" => items[i].state = "running"
    BY <1>2, <2>2, <2>3 DEF PanelOK
  <2>5. PICK F : job' = Raised(F)
    BY <1>4 DEF CancelDiff
  <2>6. job' \in [Slots -> Jobs \cup {NoJob}] /\ \A s \in Slots : SameJob(s)
    BY <1>2, <2>5, RaisedIsSame
  <2>7. \/ diff' = d
        \/ diff.phase = "syncing" /\ ~diff.prep /\ diff' = Settle(d, items')
    BY <1>4, <2>2 DEF CancelDiff
  <2>8. /\ diff' \in Views /\ diff'.batch \subseteq diff.batch /\ diff'.prep = diff.prep
        /\ diff'.phase = "scanning" => diff.phase = "scanning"
        /\ diff.phase # "syncing" \/ diff.prep => diff' = d
    BY <2>1, <2>7, SettleStep
  <2>9. /\ Awaited("scan") => diff.phase = "scanning"
        /\ Awaited("prepare") => diff.prep
    BY DEF IInv, Work, Waiting
  <2>10. Work'
    BY <1>1, <2>1, <2>4, <2>6, <2>8, <2>9, WaitStep
  <2>11. PanelOK'
    BY <1>1, <1>2, <2>4, <2>8 DEF PanelOK
  <2> QED
    BY <1>1, <1>2, <2>6, <2>10, <2>11 DEF PumpsOK
<1>5. ASSUME diff' = closed, UNCHANGED <<job, items>>
      PROVE  Work' /\ PumpsOK' /\ PanelOK'
  <2>1. \A s \in Slots : SameJob(s)
    BY <1>5 DEF SameJob
  <2>2. Work'
    BY <1>1, <1>3, <1>5, <2>1, WaitStep
  <2>3. PanelOK' /\ PumpsOK'
    BY <1>1, <1>2, <1>3, <1>5 DEF PanelOK, PumpsOK
  <2> QED
    BY <2>2, <2>3
<1> QED
  BY <1>1, <1>4, <1>5 DEF CancelOrBack

LEMMA EnterDirectoryStep ==
  ASSUME IInv, active # None, EnterDirectory
  PROVE  Work' /\ PumpsOK' /\ PanelOK' /\ refused' \in 0 .. MaxRefusals
<1>1. rx = None /\ List /\ UNCHANGED <<items, pushed, refresh, listing, diff>>
  BY DEF EnterDirectory, lists
<1>2. /\ Work' /\ PumpsOK' /\ rx' \in Slots \cup {None} /\ prog' = prog
      /\ cancel' = cancel /\ refused' \in 0 .. MaxRefusals
  BY <1>1, ListStep
<1>3. PanelOK'
  BY <1>1, <1>2 DEF IInv, Types, PanelOK
<1> QED
  BY <1>2, <1>3

(* The next transfer starts, from the queue as it is or with one more try. *)
LEMMA KickStep ==
  ASSUME IInv, active # None, NEW is, DOMAIN is = DOMAIN items,
         \A i \in DOMAIN items : is[i] \in Items /\
           (is[i].state = "running" => items[i].state = "running"),
         Kick(is), UNCHANGED <<pushed, lists, diff>>
  PROVE  Work' /\ PumpsOK' /\ PanelOK' /\ refused' \in 0 .. MaxRefusals
<1>1. PanelOK /\ diff' = diff /\ pushed' = pushed /\ refresh' = refresh
      /\ listing' = listing
  BY DEF IInv, Types, lists
<1>2. ASSUME items' = is, UNCHANGED <<transfer, pumps, refused>>
      PROVE  Work' /\ PumpsOK' /\ PanelOK' /\ refused' \in 0 .. MaxRefusals
  <2>1. UNCHANGED <<rx, prog, cancel, job, queue>>
    BY <1>2 DEF transfer, pumps
  <2>2. \A s \in Slots : SameJob(s)
    BY <2>1 DEF SameJob
  <2>3. Work'
    BY <1>1, <1>2, <2>1, <2>2, WaitStep
  <2>4. PanelOK'
    BY <1>1, <1>2, <2>1 DEF PanelOK
  <2> QED
    BY <1>2, <2>1, <2>3, <2>4 DEF IInv, Types, PumpsOK, CountsOK
<1>3. ASSUME rx = None, NEW first \in DOMAIN is,
             \/ \E s \in Slots :
                  /\ Accept(s, "transfer", first, is[first].host)
                  /\ prog' = s /\ cancel' = s
                  /\ items' = [is EXCEPT ![first].state = "running"]
             \/ /\ Refuse /\ prog' = None /\ cancel' = None
                /\ items' = [is EXCEPT ![first].state = "failed"]
      PROVE  Work' /\ PumpsOK' /\ PanelOK' /\ refused' \in 0 .. MaxRefusals
  <2>1. /\ \A i \in DOMAIN items : items[i].state # "running"
        /\ diff.phase # "scanning" /\ ~diff.prep
    BY <1>3, Idle
  <2>2. \A x \in Items, k \in States : LET y == [x EXCEPT !.state = k]
                                       IN  y \in Items /\ y.state = k
    BY DEF Items
  <2>3. is[first] \in Items /\ "running" \in States /\ "failed" \in States
    BY <1>3 DEF States, Live
  <2>4. \A k \in States :
          LET new == [is EXCEPT ![first].state = k]
          IN  /\ DOMAIN new = DOMAIN items
              /\ \A i \in DOMAIN items :
                   /\ new[i] \in Items
                   /\ new[i].state = "running" => i = first /\ k = "running"
    BY <1>3, <2>1, <2>2, <2>3
  <2>5. ASSUME NEW s \in Slots, Accept(s, "transfer", first, is[first].host),
               prog' = s, cancel' = s, items' = [is EXCEPT ![first].state = "running"]
        PROVE  Work' /\ PumpsOK' /\ PanelOK' /\ refused' \in 0 .. MaxRefusals
    <3>1. first \in 0 .. MaxPushes
      <4>1. first \in 1 .. pushed /\ pushed \in 0 .. MaxPushes /\ MaxPushes \in Nat
        BY <1>1, <1>3, Bounds DEF PanelOK
      <4> QED
        BY <4>1
    <3>2. is[first].host \in Terminals
      BY <2>3 DEF Items
    <3>3. DOMAIN items' = DOMAIN items
          /\ \A i \in DOMAIN items :
               items'[i] \in Items /\ (items'[i].state = "running" => i = first)
      BY <2>3, <2>4, <2>5
    <3>4. Work' /\ PumpsOK' /\ rx' = s /\ refused' = refused
      BY <1>1, <1>3, <2>1, <2>5, <3>1, <3>2, <3>3, StartStep DEF Kinds
    <3>5. PanelOK'
      BY <1>1, <2>5, <3>3, <3>4 DEF PanelOK
    <3> QED
      BY <3>4, <3>5 DEF IInv, Types, CountsOK
  <2>6. ASSUME Refuse, prog' = None, cancel' = None,
               items' = [is EXCEPT ![first].state = "failed"]
        PROVE  Work' /\ PumpsOK' /\ PanelOK' /\ refused' \in 0 .. MaxRefusals
    <3>1. DOMAIN items' = DOMAIN items
          /\ \A i \in DOMAIN items :
               items'[i] \in Items /\ items'[i].state # "running"
      BY <2>3, <2>4, <2>6
    <3>2. NothingRuns(items', diff')
      BY <1>1, <2>1, <3>1 DEF NothingRuns
    <3>3. Work' /\ PumpsOK' /\ rx' = None /\ refused' \in 0 .. MaxRefusals
      BY <1>3, <2>6, <3>2, RefuseStep
    <3>4. PanelOK'
      BY <1>1, <2>6, <3>1, <3>3 DEF PanelOK
    <3> QED
      BY <3>3, <3>4
  <2> QED
    BY <1>3, <2>5, <2>6
<1> QED
  BY <1>2, <1>3 DEF Kick, NextQueued

LEMMA ClickCounts ==
  ASSUME IInv, Click
  PROVE  ops' \in 0 .. MaxOps
BY Bounds DEF Click, IInv, Types, CountsOK

LEMMA ActStep ==
  ASSUME IInv, Push \/ EnterDirectory \/ Scan \/ Sync \/ CancelOrBack
  PROVE  IInv'
<1>1. turn = "act" /\ turn' = "kick" /\ UNCHANGED <<window, events>> /\ Click
  BY DEF Push, EnterDirectory, Scan, Sync, CancelOrBack, Act
<1>2. active # None /\ refused \in 0 .. MaxRefusals /\ events \in 0 .. MaxEvents
  BY <1>1 DEF IInv, Types, CountsOK
<1>3. Work' /\ PumpsOK' /\ PanelOK' /\ refused' \in 0 .. MaxRefusals
  BY <1>2, PushStep, EnterDirectoryStep, ScanOrSyncStep, CancelOrBackStep
<1>4. WindowOK' /\ ops' \in 0 .. MaxOps
  BY <1>1, WindowStays, ClickCounts DEF IInv, Types
<1>5. CountsOK'
  BY <1>1, <1>2, <1>3, <1>4 DEF CountsOK, Turns, window
<1> QED
  BY <1>3, <1>4, <1>5 DEF IInv, Types

LEMMA PickStep ==
  ASSUME IInv, Pick
  PROVE  IInv'
<1>1. /\ turn \in {"act", "kick"} /\ turn' = "strip" /\ Kick(items)
      /\ UNCHANGED <<window, ops, events>> /\ UNCHANGED <<pushed, lists, diff>>
  BY DEF Pick
<1>2. active # None
  BY <1>1 DEF IInv, Types, CountsOK
<1>3. \A i \in DOMAIN items : items[i] \in Items
  BY DEF IInv, Types, PanelOK
<1>4. Work' /\ PumpsOK' /\ PanelOK' /\ refused' \in 0 .. MaxRefusals
  BY <1>1, <1>2, <1>3, KickStep
<1>5. WindowOK' /\ CountsOK'
  BY <1>1, <1>2, <1>4, WindowStays DEF IInv, Types, CountsOK, Turns, window
<1> QED
  BY <1>4, <1>5 DEF IInv, Types

LEMMA StripStep ==
  ASSUME IInv, CancelActive \/ Retry \/ RemoveOrPrune
  PROVE  IInv'
<1>1. turn = "strip" /\ turn' = "rest" /\ UNCHANGED <<window, events>> /\ Click
  BY DEF CancelActive, Retry, RemoveOrPrune, Strip
<1>2. active # None /\ refused \in 0 .. MaxRefusals /\ PanelOK /\ PumpsOK
  BY <1>1 DEF IInv, Types, CountsOK
<1>3. ASSUME CancelActive
      PROVE  Work' /\ PumpsOK' /\ PanelOK' /\ refused' \in 0 .. MaxRefusals
  <2>1. job' = Raised({cancel}) /\ UNCHANGED <<queue, panel, refused>>
    BY <1>3 DEF CancelActive
  <2>2. job' \in [Slots -> Jobs \cup {NoJob}] /\ \A s \in Slots : SameJob(s)
    BY <1>2, <2>1, RaisedIsSame
  <2>3. Work'
    BY <2>1, <2>2, WaitStep DEF panel, transfer
  <2> QED
    BY <1>2, <2>1, <2>2, <2>3, PanelStays DEF PumpsOK
<1>4. ASSUME Retry
      PROVE  Work' /\ PumpsOK' /\ PanelOK' /\ refused' \in 0 .. MaxRefusals
  <2>1. PICK i \in DOMAIN items : Kick([items EXCEPT ![i].state = "queued"])
    BY <1>4 DEF Retry
  <2> DEFINE is == [items EXCEPT ![i].state = "queued"]
  <2>2. \A x \in Items : LET y == [x EXCEPT !.state = "queued"]
                         IN  y \in Items /\ y.state # "running"
    BY DEF Items, States, Live
  <2>3. DOMAIN is = DOMAIN items /\ \A k \in DOMAIN items :
          is[k] \in Items /\ (is[k].state = "running" => items[k].state = "running")
    BY <1>2, <2>2 DEF PanelOK
  <2>4. UNCHANGED <<pushed, lists, diff>>
    BY <1>4 DEF Retry
  <2> QED
    BY <1>2, <2>1, <2>3, <2>4, KickStep
<1>5. ASSUME RemoveOrPrune
      PROVE  Work' /\ PumpsOK' /\ PanelOK' /\ refused' \in 0 .. MaxRefusals
  <2>1. UNCHANGED <<job, queue, rx, prog, cancel, pushed, refresh, listing, diff, refused>>
    BY <1>5 DEF RemoveOrPrune, pumps, transfer, lists
  <2>2. DOMAIN items' \subseteq DOMAIN items
        /\ \A i \in DOMAIN items' : items'[i] = items[i]
    BY <1>5 DEF RemoveOrPrune, Keep
  <2>3. \A s \in Slots : SameJob(s)
    BY <2>1 DEF SameJob
  <2>4. Work'
    BY <2>1, <2>2, <2>3, WaitStep
  <2>5. PanelOK' /\ PumpsOK'
    BY <1>2, <2>1, <2>2 DEF PanelOK, PumpsOK
  <2> QED
    BY <1>2, <2>1, <2>4, <2>5
<1>6. Work' /\ PumpsOK' /\ PanelOK' /\ refused' \in 0 .. MaxRefusals
  BY <1>3, <1>4, <1>5
<1>7. WindowOK' /\ ops' \in 0 .. MaxOps
  BY <1>1, WindowStays, ClickCounts DEF IInv, Types
<1>8. CountsOK'
  BY <1>1, <1>2, <1>6, <1>7 DEF IInv, Types, CountsOK, Turns, window
<1> QED
  BY <1>6, <1>7, <1>8 DEF IInv, Types

-----------------------------------------------------------------------------
LEMMA StutterStep ==
  ASSUME IInv, UNCHANGED vars
  PROVE  IInv'
<1>1. UNCHANGED <<window, pumps, panel, turn, bounds>>
  BY DEF vars
<1>2. WindowOK' /\ PumpsOK' /\ PanelOK'
  BY <1>1, WindowStays, PumpsStay, PanelStays DEF IInv, Types
<1>3. CountsOK' /\ Work'
  BY <1>1, WorkStays DEF IInv, Types, CountsOK, window, bounds, pumps, panel, transfer
<1> QED
  BY <1>2, <1>3 DEF IInv, Types

LEMMA NextStep ==
  ASSUME IInv, [Next]_vars
  PROVE  IInv'
<1>1. CASE Frame
  BY <1>1, OutsideStep, OpenFrameStep, PollResultStep, GateStep, ActStep, PickStep,
     StripStep DEF Frame
<1>2. ASSUME NEW c \in Connections, JobSays(c) \/ JobEnds(c) \/ PumpEnds(c)
      PROVE  IInv'
  BY <1>2, JobSaysStep, JobEndsStep, PumpEndsStep
<1>3. CASE UNCHANGED vars
  BY <1>3, StutterStep
<1> QED
  BY <1>1, <1>2, <1>3 DEF Next

LEMMA Invariant == Spec => []IInv
<1>1. IInv /\ [Next]_vars => IInv'
  BY NextStep
<1> QED
  BY InitInvariant, <1>1, PTL DEF Spec

(* The state of panel and pumps keeps its shape, whatever tabs and         *)
(* sessions do in between.                                                 *)
THEOREM TransferTypes == Spec => []TypeOK
<1>1. IInv => TypeOK
  BY InvariantParts
<1> QED
  BY Invariant, <1>1, PTL

(* A running item, a scan and a preparation have the one job that the      *)
(* panel waits for; every other job that could still copy or scan has been *)
(* told to stop, through every reset, loss and cancellation (#94).         *)
THEOREM OneWorkerAtATime == Spec => []OneWorker
<1>1. IInv => OneWorker
  BY InvariantParts
<1> QED
  BY Invariant, <1>1, PTL

-----------------------------------------------------------------------------
(* A job is with one pump, that of its session, until it has an answer.    *)

InAPump(s) == \E c \in Connections : \E k \in DOMAIN queue[c] : queue[c][k] = s

InItsPump(c, k) ==
  LET s == queue[c][k] IN
  s \in Slots /\ job[s] \in Jobs /\ job[s].on = c[1] /\ job[s].answer = "none"

Held ==
  /\ turn \in {"act", "kick", "strip"} => Ready
  /\ \A c \in Connections : \A k \in DOMAIN queue[c] : InItsPump(c, k)
  /\ \A c1, c2 \in Connections : \A k1 \in DOMAIN queue[c1], k2 \in DOMAIN queue[c2] :
       queue[c1][k1] = queue[c2][k2] => c1 = c2 /\ k1 = k2
  /\ \A s \in Slots : Unfinished(s) => InAPump(s)
  /\ \A s \in Slots : job[s] \in Jobs /\ job[s].answer # "none" => s = rx

(* How a step changes the jobs: each keeps what it is; an answer is taken  *)
(* or what was awaited is given up; a job is given to the session shown.   *)
KeptJob(s) ==
  \/ job'[s] = job[s]
  \/ /\ job[s] \in Jobs /\ job'[s] \in Jobs
     /\ job'[s].on = job[s].on /\ job'[s].meant = job[s].meant
     /\ job'[s].answer = job[s].answer

JobsKept == queue' = queue /\ rx' = rx /\ \A s \in Slots : KeptJob(s)

JobFreed ==
  /\ queue' = queue /\ rx' = None
  /\ \A s \in Slots : IF s = rx /\ job[s].answer # "none" THEN job'[s] = NoJob
                      ELSE KeptJob(s)

JobGiven ==
  /\ rx = None /\ Ready /\ turn \in {"gate", "act", "kick", "strip"}
  /\ \E s \in Slots, kind \in Kinds : \E item, meant :
       /\ meant = Current \/ \E i \in DOMAIN items : meant = items[i].host
       /\ Accept(s, kind, item, meant)

JobsMove == JobsKept \/ JobFreed \/ JobGiven

LEMMA RaisedKeeps ==
  ASSUME PumpsOK, NEW F, NEW s \in Slots
  PROVE  \/ Raised(F)[s] = job[s]
         \/ /\ job[s] \in Jobs /\ Raised(F)[s] \in Jobs
            /\ Raised(F)[s].on = job[s].on /\ Raised(F)[s].meant = job[s].meant
            /\ Raised(F)[s].answer = job[s].answer
<1>1. CASE job[s] = NoJob
  BY <1>1 DEF Raised
<1>2. CASE job[s] # NoJob
  <2>1. job[s] \in Jobs
    BY <1>2 DEF PumpsOK
  <2>2. Raised(F)[s] = [job[s] EXCEPT !.cancelled = @ \/ s \in F]
    BY <1>2 DEF Raised
  <2> QED
    BY <2>1, <2>2 DEF Jobs
<1> QED
  BY <1>1, <1>2

LEMMA AbandonFrees ==
  ASSUME PumpsOK, NEW F, Abandon(F), queue' = queue, rx' = None
  PROVE  JobFreed
<1>1. ASSUME NEW s \in Slots
      PROVE  IF s = rx /\ job[s].answer # "none" THEN job'[s] = NoJob
             ELSE KeptJob(s)
  BY RaisedKeeps DEF Abandon, KeptJob
<1> QED
  BY <1>1 DEF JobFreed

LEMMA RefuseKeeps ==
  ASSUME rx = None, Refuse
  PROVE  JobsKept
BY DEF Refuse, pumps, JobsKept, KeptJob

LEMMA SameKeeps ==
  ASSUME UNCHANGED <<job, queue, rx>>
  PROVE  JobsKept
BY DEF JobsKept, KeptJob

LEMMA KickMoves ==
  ASSUME Ready, turn \in {"act", "kick", "strip"}, NEW is, DOMAIN is = DOMAIN items,
         \A i \in DOMAIN items : is[i].host = items[i].host, Kick(is)
  PROVE  JobsMove
<1>1. CASE UNCHANGED <<transfer, pumps, refused>>
  BY <1>1, SameKeeps DEF transfer, pumps, JobsMove
<1>2. ASSUME rx = None, NEW first \in DOMAIN is,
             \/ \E s \in Slots : Accept(s, "transfer", first, is[first].host)
             \/ Refuse
      PROVE  JobsMove
  <2>1. CASE Refuse
    BY <1>2, <2>1, RefuseKeeps DEF JobsMove
  <2>2. CASE \E s \in Slots : Accept(s, "transfer", first, is[first].host)
    BY <1>2, <2>2 DEF JobGiven, JobsMove, Kinds
  <2> QED
    BY <1>2, <2>1, <2>2
<1> QED
  BY <1>1, <1>2 DEF Kick, NextQueued

LEMMA ListMoves ==
  ASSUME Ready, turn \in {"gate", "act"}, rx = None, List
  PROVE  JobsMove
<1>1. CASE Refuse
  BY <1>1, RefuseKeeps DEF JobsMove
<1>2. CASE \E s \in Slots : Accept(s, "list", 0, Current)
  BY <1>2 DEF JobGiven, JobsMove, Kinds
<1> QED
  BY <1>1, <1>2 DEF List

LEMMA FrameMoves ==
  ASSUME IInv, Held, Frame
  PROVE  JobsMove
<1>1. PumpsOK /\ \A i \in DOMAIN items : items[i] \in Items
  BY DEF IInv, Types, PanelOK
<1>2. turn \in {"act", "kick", "strip"} => Ready
  BY DEF Held
<1>3. CASE OpenFrame
  <2>1. queue' = queue
    BY <1>3 DEF OpenFrame
  <2>2. CASE Reset
    BY <1>1, <2>1, <2>2, AbandonFrees DEF Reset, JobsMove
  <2>3. ASSUME Said, job' = [job EXCEPT ![prog].said = FALSE], UNCHANGED transfer
        PROVE  JobsMove
    <3>1. prog \in Slots /\ job[prog] \in Jobs
      BY <2>3 DEF Said, IInv, Types, PanelOK, Work, Waiting
    <3>2. LET j == [job[prog] EXCEPT !.said = FALSE] IN
          j \in Jobs /\ j.on = job[prog].on /\ j.meant = job[prog].meant
          /\ j.answer = job[prog].answer
      BY <3>1 DEF Jobs
    <3>3. \A s \in Slots : KeptJob(s)
      BY <1>1, <2>3, <3>1, <3>2 DEF KeptJob, PumpsOK
    <3> QED
      BY <2>1, <2>3, <3>3 DEF JobsKept, JobsMove, transfer
  <2>4. CASE job' = job /\ UNCHANGED transfer
    BY <2>1, <2>4, SameKeeps DEF JobsMove, transfer
  <2> QED
    BY <1>3, <2>2, <2>3, <2>4 DEF OpenFrame
<1>4. CASE PollResult
  <2>1. queue' = queue
    BY <1>4 DEF PollResult
  <2>2. CASE NoAnswer
    BY <2>1, <2>2, SameKeeps DEF NoAnswer, transfer, JobsMove
  <2>3. CASE Taken
    BY <1>1, <2>1, <2>3, AbandonFrees DEF Taken, JobsMove
  <2>4. CASE GiveUp
    BY <1>1, <2>1, <2>4, AbandonFrees DEF GiveUp, FailAll, JobsMove
  <2> QED
    BY <1>4, <2>2, <2>3, <2>4 DEF PollResult, ListAnswer, TransferAnswer, ScanAnswer,
       PrepareAnswer, WorkerGone
<1>5. CASE Unavailable
  <2>1. queue' = queue
    BY <1>5 DEF Unavailable
  <2>2. CASE GiveUp
    BY <1>1, <2>1, <2>2, AbandonFrees DEF GiveUp, FailAll, JobsMove
  <2>3. CASE UNCHANGED <<job, panel>>
    BY <2>1, <2>3, SameKeeps DEF JobsMove, panel, transfer
  <2> QED
    BY <1>5, <2>2, <2>3 DEF Unavailable
<1>6. CASE Available
  <2>1. CASE rx = None /\ List
    BY <1>6, <2>1, ListMoves DEF Available
  <2>2. CASE UNCHANGED <<transfer, pumps>>
    BY <2>2, SameKeeps DEF transfer, pumps, JobsMove
  <2> QED
    BY <1>6, <2>1, <2>2 DEF Available
<1>7. CASE Push \/ RemoveOrPrune
  BY <1>7, SameKeeps DEF Push, RemoveOrPrune, transfer, pumps, JobsMove
<1>8. CASE EnterDirectory
  BY <1>2, <1>8, ListMoves DEF EnterDirectory, Act
<1>9. CASE Scan
  <2>1. rx = None /\ Ready /\ turn = "act"
    BY <1>2, <1>9 DEF Scan, Act
  <2>2. CASE Refuse
    BY <2>1, <2>2, RefuseKeeps DEF JobsMove
  <2>3. CASE \E s \in Slots : Accept(s, "scan", 0, Current)
    BY <2>1, <2>3 DEF JobGiven, JobsMove, Kinds
  <2> QED
    BY <1>9, <2>2, <2>3 DEF Scan
<1>10. CASE Sync
  <2>1. rx = None /\ Ready /\ turn = "act"
    BY <1>2, <1>10 DEF Sync, Act
  <2>2. CASE Refuse
    BY <2>1, <2>2, RefuseKeeps DEF JobsMove
  <2>3. CASE \E s \in Slots : Accept(s, "prepare", 0, Current)
    BY <2>1, <2>3 DEF JobGiven, JobsMove, Kinds
  <2> QED
    BY <1>10, <2>2, <2>3 DEF Sync
<1>11. CASE CancelOrBack \/ CancelActive
  <2>1. queue' = queue /\ rx' = rx
    BY <1>11 DEF CancelOrBack, CancelActive, panel, transfer
  <2>2. \/ job' = job
        \/ \E F : job' = Raised(F)
    BY <1>11 DEF CancelOrBack, CancelActive, CancelDiff
  <2>3. \A s \in Slots : KeptJob(s)
    BY <1>1, <2>2, RaisedKeeps DEF KeptJob
  <2> QED
    BY <2>1, <2>3 DEF JobsKept, JobsMove
<1>12. CASE Pick
  BY <1>1, <1>2, <1>12, KickMoves DEF Pick
<1>13. CASE Retry
  <2>1. PICK i \in DOMAIN items : Kick([items EXCEPT ![i].state = "queued"])
    BY <1>13 DEF Retry
  <2> DEFINE is == [items EXCEPT ![i].state = "queued"]
  <2>2. \A x \in Items : [x EXCEPT !.state = "queued"].host = x.host
    BY DEF Items
  <2>3. DOMAIN is = DOMAIN items /\ \A k \in DOMAIN items : is[k].host = items[k].host
    BY <1>1, <2>2
  <2>4. Ready /\ turn = "strip"
    BY <1>2, <1>13 DEF Retry, Strip
  <2> QED
    BY <2>1, <2>3, <2>4, KickMoves
<1>14. CASE HiddenFrame \/ Toggle \/ SwitchTab \/ CloseTab \/ Disconnect \/ SessionLost
            \/ Reconnected
  BY <1>14, SameKeeps DEF HiddenFrame, Toggle, SwitchTab, CloseTab, Disconnect,
     SessionLost, Reconnected, Rest, pumps, panel, transfer, JobsMove
<1> QED
  BY <1>3, <1>4, <1>5, <1>6, <1>7, <1>8, <1>9, <1>10, <1>11, <1>12, <1>13, <1>14
     DEF Frame

(* What a pump does.                                                       *)
LEMMA SaysKeeps ==
  ASSUME IInv, NEW c \in Connections, JobSays(c)
  PROVE  JobsKept
<1> DEFINE s == Head(queue[c])
<1>1. s \in Slots /\ job[s] \in Jobs
  <2>1. queue[c] \in Seq(Slots) /\ queue[c] # <<>> /\ job[s].kind = "transfer"
    BY DEF JobSays, IInv, Types, PumpsOK
  <2> QED
    BY <2>1, HeadTail, NoJobIsNone DEF IInv, Types, PumpsOK
<1>2. /\ job' = [job EXCEPT ![s] = [job[s] EXCEPT !.said = TRUE]]
      /\ queue' = queue /\ rx' = rx
  BY DEF JobSays, panel, transfer
<1>3. LET j == [job[s] EXCEPT !.said = TRUE] IN
      j \in Jobs /\ j.on = job[s].on /\ j.meant = job[s].meant /\ j.answer = job[s].answer
  BY <1>1 DEF Jobs
<1>4. \A t \in Slots : KeptJob(t)
  BY <1>1, <1>2, <1>3 DEF KeptJob, IInv, Types, PumpsOK
<1> QED
  BY <1>2, <1>4 DEF JobsKept

LEMMA KeptHolds ==
  ASSUME IInv, Held, JobsKept \/ JobFreed,
         turn' \in {"act", "kick", "strip"} => Ready'
  PROVE  Held'
<1>1. queue' = queue /\ \A s \in Slots : KeptJob(s) \/
        (s = rx /\ job[s].answer # "none" /\ job'[s] = NoJob)
  BY DEF JobsKept, JobFreed
<1>2. ASSUME NEW c \in Connections, NEW k \in DOMAIN queue[c]
      PROVE  InItsPump(c, k)'
  <2>1. InItsPump(c, k)
    BY DEF Held
  <2> QED
    BY <1>1, <2>1 DEF InItsPump, KeptJob
<1>3. ASSUME NEW s \in Slots, Unfinished(s)' PROVE InAPump(s)'
  <2>1. Unfinished(s)
    BY <1>1, <1>3, NoJobIsNone DEF Unfinished, KeptJob
  <2> QED
    BY <1>1, <2>1 DEF Held, InAPump
<1>4. ASSUME NEW s \in Slots, job'[s] \in Jobs, job'[s].answer # "none"
      PROVE  s = rx'
  <2>1. KeptJob(s)
    BY <1>1, <1>4, NoJobIsNone
  <2>2. job[s] \in Jobs /\ job[s].answer # "none"
    BY <1>4, <2>1 DEF KeptJob
  <2>3. s = rx
    BY <2>2 DEF Held
  <2>4. ~JobFreed
    BY <1>4, <2>2, <2>3, NoJobIsNone DEF JobFreed
  <2> QED
    BY <2>3, <2>4 DEF JobsKept
<1> QED
  BY <1>1, <1>2, <1>3, <1>4 DEF Held

LEMMA GivenHolds ==
  ASSUME IInv, IInv', Held, JobGiven,
         turn' \in {"act", "kick", "strip"} => Ready'
  PROVE  Held'
<1>1. PICK s \in Slots, kind \in Kinds :
        Ready /\ rx = None /\ \E item, meant : Accept(s, kind, item, meant)
  BY DEF JobGiven
<1>2. PICK item, meant : Accept(s, kind, item, meant)
  BY <1>1
<1> DEFINE new == [kind |-> kind, item |-> item, meant |-> meant, on |-> Current,
                   cancelled |-> FALSE, said |-> FALSE, answer |-> "none"]
<1>3. /\ job[s] = NoJob /\ rx' = s /\ job' = [job EXCEPT ![s] = new]
      /\ queue' = [queue EXCEPT ![Here] = Append(queue[Here], s)]
  BY <1>2 DEF Accept, Free
<1>4. job'[s] = new /\ \A t \in Slots \ {s} : job'[t] = job[t]
  BY <1>3 DEF IInv, Types, PumpsOK
<1>5. new \in Jobs
  <2>1. new.kind # "none"
    BY DEF Kinds
  <2>2. new # NoJob
    BY <2>1, NoJobIsNone
  <2> QED
    BY <1>4, <2>2 DEF IInv, Types, PumpsOK
<1>6. Here \in Connections /\ Here[1] = Current
  <2>1. Current \in Terminals
    BY <1>1, Elements DEF IInv, Types, WindowOK, Current, Ready, None
  <2>2. handle[Current] \in 1 .. MaxConns
    BY <1>1, <2>1, Bounds DEF IInv, Types, WindowOK, Ready
  <2> QED
    BY <2>1, <2>2 DEF Here, Connections
<1> DEFINE q == queue[Here]
<1>7. q \in Seq(Slots) /\ queue \in [Connections -> Seq(Slots)]
  BY <1>6 DEF IInv, Types, PumpsOK
<1>8. /\ queue'[Here] = Append(q, s)
      /\ \A c \in Connections \ {Here} : queue'[c] = queue[c]
  BY <1>3, <1>6, <1>7
<1>9. /\ DOMAIN queue'[Here] = DOMAIN q \cup {Len(q) + 1}
      /\ Len(q) + 1 \notin DOMAIN q
      /\ queue'[Here][Len(q) + 1] = s
      /\ \A k \in DOMAIN q : queue'[Here][k] = q[k]
  BY <1>7, <1>8
<1>10. \A c \in Connections : \A k \in DOMAIN queue[c] :
         /\ queue[c][k] # s /\ InItsPump(c, k)
         /\ k \in DOMAIN queue'[c] /\ queue'[c][k] = queue[c][k]
  BY <1>3, <1>8, <1>9, NoJobIsNone DEF Held, InItsPump
<1>11. ASSUME NEW c \in Connections, NEW k \in DOMAIN queue'[c]
       PROVE  \/ c = Here /\ k = Len(q) + 1 /\ queue'[c][k] = s
              \/ k \in DOMAIN queue[c] /\ queue'[c][k] = queue[c][k]
  BY <1>8, <1>9
<1> HIDE DEF q
<1>12. ASSUME NEW c \in Connections, NEW k \in DOMAIN queue'[c]
       PROVE  InItsPump(c, k)'
  <2>1. CASE c = Here /\ queue'[c][k] = s
    BY <1>4, <1>5, <1>6, <2>1 DEF InItsPump
  <2>2. CASE k \in DOMAIN queue[c] /\ queue'[c][k] = queue[c][k]
    BY <1>4, <1>10, <2>2 DEF InItsPump
  <2> QED
    BY <1>11, <2>1, <2>2
<1>13. ASSUME NEW c1 \in Connections, NEW c2 \in Connections,
              NEW k1 \in DOMAIN queue'[c1], NEW k2 \in DOMAIN queue'[c2],
              queue'[c1][k1] = queue'[c2][k2]
       PROVE  c1 = c2 /\ k1 = k2
  BY <1>10, <1>11, <1>13 DEF Held
<1>14. ASSUME NEW t \in Slots, Unfinished(t)' PROVE InAPump(t)'
  <2>1. CASE t = s
    BY <1>6, <1>9, <2>1 DEF InAPump
  <2>2. CASE t # s
    <3>1. InAPump(t)
      BY <1>4, <1>14, <2>2 DEF Unfinished, Held
    <3> QED
      BY <1>10, <3>1 DEF InAPump
  <2> QED
    BY <2>1, <2>2
<1>15. ASSUME NEW t \in Slots, job'[t] \in Jobs, job'[t].answer # "none"
       PROVE  t = rx'
  BY <1>1, <1>4, <1>15, Bounds DEF Held
<1> QED
  BY <1>12, <1>13, <1>14, <1>15 DEF Held

LEMMA EndsHolds ==
  ASSUME IInv, Held, NEW c \in Connections, JobEnds(c),
         turn' \in {"act", "kick", "strip"} => Ready'
  PROVE  Held'
<1> DEFINE s == Head(queue[c])
           q == Tail(queue[c])
<1>1. /\ queue \in [Connections -> Seq(Slots)] /\ queue[c] \in Seq(Slots)
      /\ queue[c] # <<>> /\ job \in [Slots -> Jobs \cup {NoJob}]
  BY DEF JobEnds, IInv, Types, PumpsOK
<1>2. /\ 1 \in DOMAIN queue[c] /\ queue[c][1] = s /\ s \in Slots
      /\ \A k \in DOMAIN q : /\ k + 1 \in DOMAIN queue[c] /\ k + 1 # 1
                             /\ q[k] = queue[c][k + 1] /\ k \in Nat
      /\ \A k \in DOMAIN queue[c] : k = 1 \/ (k - 1 \in DOMAIN q /\ q[k - 1] = queue[c][k])
  BY <1>1
<1>3. queue'[c] = q /\ \A e \in Connections \ {c} : queue'[e] = queue[e]
  BY <1>1 DEF JobEnds
<1>4. PICK answer \in Outcomes(job[s]) :
        job' = [job EXCEPT ![s] = IF s = rx THEN [job[s] EXCEPT !.answer = answer]
                                  ELSE NoJob]
  BY DEF JobEnds
<1>5. rx' = rx
  BY DEF JobEnds, panel, transfer
<1>6. job[s] \in Jobs /\ \A t \in Slots \ {s} : job'[t] = job[t]
  BY <1>1, <1>2, <1>4 DEF Held, InItsPump
<1>7. \/ s = rx /\ job'[s] \in Jobs /\ job'[s].answer # "none"
      \/ job'[s] = NoJob
  <2>1. answer # "none" /\ answer \in Answers
    BY DEF Outcomes, Answers
  <2>2. LET j == [job[s] EXCEPT !.answer = answer]
        IN  j \in Jobs /\ j.answer # "none"
    BY <1>6, <2>1 DEF Jobs
  <2> QED
    BY <1>1, <1>2, <1>4, <2>2
<1>8. ASSUME NEW e \in Connections, NEW k \in DOMAIN queue'[e]
      PROVE  \E j \in DOMAIN queue[e] :
               /\ queue'[e][k] = queue[e][j]
               /\ e = c => j = k + 1 /\ j # 1 /\ k \in Nat
               /\ e # c => j = k
  <2>1. CASE e = c
    <3>1. k \in DOMAIN q /\ queue'[e][k] = q[k]
      BY <1>3, <2>1
    <3> HIDE DEF q
    <3>2. k + 1 \in DOMAIN queue[e] /\ queue'[e][k] = queue[e][k + 1]
          /\ k + 1 # 1 /\ k \in Nat
      BY <1>2, <2>1, <3>1
    <3> QED
      BY <2>1, <3>2
  <2>2. CASE e # c
    BY <1>3, <2>2
  <2> QED
    BY <2>1, <2>2
<1> HIDE DEF s, q
<1>9. \A e \in Connections : \A j \in DOMAIN queue[e] :
        queue[e][j] = s => e = c /\ j = 1
  BY <1>2 DEF Held
<1>10. ASSUME NEW e \in Connections, NEW k \in DOMAIN queue'[e]
       PROVE  InItsPump(e, k)'
  <2>1. PICK j \in DOMAIN queue[e] : /\ queue'[e][k] = queue[e][j]
                                     /\ e = c => j # 1
    BY <1>8
  <2>2. queue[e][j] # s /\ InItsPump(e, j)
    BY <1>9, <2>1 DEF Held
  <2> QED
    BY <1>6, <2>1, <2>2 DEF InItsPump
<1>11. ASSUME NEW c1 \in Connections, NEW c2 \in Connections,
              NEW k1 \in DOMAIN queue'[c1], NEW k2 \in DOMAIN queue'[c2],
              queue'[c1][k1] = queue'[c2][k2]
       PROVE  c1 = c2 /\ k1 = k2
  <2>1. PICK j1 \in DOMAIN queue[c1] :
          /\ queue'[c1][k1] = queue[c1][j1]
          /\ c1 = c => j1 = k1 + 1 /\ k1 \in Nat
          /\ c1 # c => j1 = k1
    BY <1>8
  <2>2. PICK j2 \in DOMAIN queue[c2] :
          /\ queue'[c2][k2] = queue[c2][j2]
          /\ c2 = c => j2 = k2 + 1 /\ k2 \in Nat
          /\ c2 # c => j2 = k2
    BY <1>8
  <2>3. c1 = c2 /\ j1 = j2
    BY <1>11, <2>1, <2>2 DEF Held
  <2> QED
    BY <2>1, <2>2, <2>3
<1>12. ASSUME NEW t \in Slots, Unfinished(t)' PROVE InAPump(t)'
  <2>1. t # s /\ Unfinished(t)
    BY <1>6, <1>7, <1>12, NoJobIsNone DEF Unfinished
  <2>2. PICK e \in Connections : \E j \in DOMAIN queue[e] : queue[e][j] = t
    BY <2>1 DEF Held, InAPump
  <2>3. PICK j \in DOMAIN queue[e] : queue[e][j] = t
    BY <2>2
  <2>4. CASE e = c
    <3>1. j - 1 \in DOMAIN q /\ q[j - 1] = t
      BY <1>2, <2>1, <2>3, <2>4
    <3> QED
      BY <1>3, <2>4, <3>1 DEF InAPump
  <2>5. CASE e # c
    BY <1>3, <2>3, <2>5 DEF InAPump
  <2> QED
    BY <2>4, <2>5
<1>13. ASSUME NEW t \in Slots, job'[t] \in Jobs, job'[t].answer # "none"
       PROVE  t = rx'
  BY <1>5, <1>6, <1>7, <1>13, NoJobIsNone DEF Held
<1> QED
  BY <1>10, <1>11, <1>12, <1>13 DEF Held

LEMMA DropsHolds ==
  ASSUME IInv, Held, NEW c \in Connections, PumpEnds(c),
         turn' \in {"act", "kick", "strip"} => Ready'
  PROVE  Held'
<1> DEFINE dropped == {queue[c][k] : k \in DOMAIN queue[c]}
<1>1. /\ queue \in [Connections -> Seq(Slots)]
      /\ job' = [s \in Slots |-> IF s \notin dropped THEN job[s]
                                 ELSE IF s = rx THEN [job[s] EXCEPT !.answer = "gone"]
                                 ELSE NoJob]
      /\ queue' = [queue EXCEPT ![c] = <<>>]
      /\ rx' = rx
  BY DEF PumpEnds, IInv, Types, PumpsOK, panel, transfer
<1>2. DOMAIN queue'[c] = {} /\ \A e \in Connections \ {c} : queue'[e] = queue[e]
  BY <1>1
<1>3. \A e \in Connections \ {c} : \A k \in DOMAIN queue[e] : queue[e][k] \notin dropped
  BY DEF Held
<1>4. \A t \in Slots \ dropped : job'[t] = job[t]
  BY <1>1
<1>5. ASSUME NEW t \in dropped
      PROVE  \/ t = rx /\ job'[t] \in Jobs /\ job'[t].answer # "none"
             \/ job'[t] = NoJob
  <2>1. t \in Slots /\ job[t] \in Jobs
    BY DEF Held, InItsPump
  <2>2. LET j == [job[t] EXCEPT !.answer = "gone"]
        IN  j \in Jobs /\ j.answer # "none"
    BY <2>1 DEF Jobs, Answers
  <2> QED
    BY <1>1, <2>1, <2>2
<1>6. ASSUME NEW e \in Connections, NEW k \in DOMAIN queue'[e]
      PROVE  InItsPump(e, k)'
  <2>1. e # c /\ k \in DOMAIN queue[e] /\ queue'[e][k] = queue[e][k]
    BY <1>2
  <2>2. InItsPump(e, k) /\ queue[e][k] \notin dropped
    BY <1>3, <2>1 DEF Held
  <2> HIDE DEF dropped
  <2> QED
    BY <1>4, <2>1, <2>2 DEF InItsPump
<1>7. ASSUME NEW c1 \in Connections, NEW c2 \in Connections,
             NEW k1 \in DOMAIN queue'[c1], NEW k2 \in DOMAIN queue'[c2],
             queue'[c1][k1] = queue'[c2][k2]
      PROVE  c1 = c2 /\ k1 = k2
  BY <1>2, <1>7 DEF Held
<1>8. ASSUME NEW t \in Slots, Unfinished(t)' PROVE InAPump(t)'
  <2>1. t \notin dropped
    <3> HIDE DEF dropped
    <3> QED
      BY <1>5, <1>8, NoJobIsNone DEF Unfinished
  <2>2. InAPump(t)
    BY <1>4, <1>8, <2>1 DEF Unfinished, Held
  <2>3. PICK e \in Connections : \E k \in DOMAIN queue[e] : queue[e][k] = t
    BY <2>2 DEF InAPump
  <2>4. e # c
    BY <2>1, <2>3
  <2> QED
    BY <1>2, <2>3, <2>4 DEF InAPump
<1>9. ASSUME NEW t \in Slots, job'[t] \in Jobs, job'[t].answer # "none"
      PROVE  t = rx'
  <2> HIDE DEF dropped
  <2> QED
    BY <1>1, <1>4, <1>5, <1>9, NoJobIsNone DEF Held
<1> QED
  BY <1>6, <1>7, <1>8, <1>9 DEF Held

(* A session is there from the look at it until the frame has ended.       *)
LEMMA SessionStays ==
  ASSUME IInv, Held, [Next]_vars
  PROVE  turn' \in {"act", "kick", "strip"} => Ready'
<1>1. SUFFICES ASSUME turn' \in {"act", "kick", "strip"}
               PROVE  Ready /\ UNCHANGED <<tabs, active, handle>>
  BY DEF Ready, Current
<1>2. turn \in {"act", "kick", "strip"} => Ready
  BY DEF Held
<1>3. CASE Available \/ Push \/ EnterDirectory \/ Scan \/ Sync \/ CancelOrBack \/ Pick
  BY <1>2, <1>3 DEF Available, Push, EnterDirectory, Scan, Sync, CancelOrBack, Pick,
     Act, window
<1>4. CASE UNCHANGED vars \/ \E c \in Connections : JobSays(c) \/ JobEnds(c) \/ PumpEnds(c)
  BY <1>1, <1>2, <1>4 DEF vars, window, JobSays, JobEnds, PumpEnds
<1>5. CASE OpenFrame \/ HiddenFrame \/ PollResult \/ Unavailable \/ CancelActive \/ Retry
           \/ RemoveOrPrune \/ Toggle \/ SwitchTab \/ CloseTab \/ Disconnect \/ SessionLost
           \/ Reconnected
  BY <1>1, <1>5 DEF OpenFrame, HiddenFrame, PollResult, Unavailable, CancelActive, Retry,
     RemoveOrPrune, Strip, Toggle, SwitchTab, CloseTab, Disconnect, SessionLost,
     Reconnected, Rest
<1> QED
  BY <1>3, <1>4, <1>5 DEF Next, Frame

LEMMA HeldStep ==
  ASSUME IInv, IInv', Held, [Next]_vars
  PROVE  Held'
<1>1. turn' \in {"act", "kick", "strip"} => Ready'
  BY SessionStays
<1>2. CASE Frame
  BY <1>1, <1>2, FrameMoves, KeptHolds, GivenHolds DEF JobsMove
<1>3. ASSUME NEW c \in Connections, JobSays(c) PROVE Held'
  BY <1>1, <1>3, SaysKeeps, KeptHolds
<1>4. ASSUME NEW c \in Connections, JobEnds(c) \/ PumpEnds(c) PROVE Held'
  BY <1>1, <1>4, EndsHolds, DropsHolds
<1>5. CASE UNCHANGED vars
  BY <1>1, <1>5, SameKeeps, KeptHolds DEF vars, pumps, panel, transfer
<1> QED
  BY <1>2, <1>3, <1>4, <1>5 DEF Next

LEMMA HeldInit == Init => Held
<1> SUFFICES ASSUME Init PROVE Held
  OBVIOUS
<1>1. /\ \A s \in Slots : job[s] = NoJob
      /\ \A c \in Connections : DOMAIN queue[c] = {}
      /\ turn = "open"
  BY DEF Init
<1> QED
  BY <1>1, NoJobIsNone DEF Held, Unfinished

LEMMA HeldInvariant == Spec => [](IInv /\ Held)
<1>1. IInv /\ Held /\ IInv' /\ [Next]_vars => Held'
  BY HeldStep
<1> QED
  BY HeldInit, Invariant, <1>1, PTL DEF Spec

(* What the panel waits for comes: through every reset, loss, disconnect   *)
(* and reconnection, the job behind rx has its answer or is with a pump,   *)
(* whose end, or whose work on it, brings one.                             *)
AnswerComes == rx # None => job[rx].answer # "none" \/ InAPump(rx)

THEOREM NoAnswerIsLost == Spec => []AnswerComes
<1>1. IInv /\ Held => AnswerComes
  <2> SUFFICES ASSUME IInv, Held, rx # None, job[rx].answer = "none"
               PROVE  InAPump(rx)
    BY DEF AnswerComes
  <2>1. rx \in Slots /\ job[rx] \in Jobs
    BY DEF IInv, Types, PanelOK, Work, Waiting
  <2> QED
    BY <2>1, NoJobIsNone DEF Held, Unfinished
<1> QED
  BY HeldInvariant, <1>1, PTL

(* No job is done twice or by the pump of another session: a job without   *)
(* an answer stands once in one queue, that of the terminal it was given.  *)
OncePerJob ==
  \A s \in Slots : Unfinished(s) =>
    \E c \in Connections : \E k \in DOMAIN queue[c] :
      /\ queue[c][k] = s /\ c[1] = job[s].on
      /\ \A d \in Connections : \A j \in DOMAIN queue[d] :
           queue[d][j] = s => d = c /\ j = k

THEOREM JobsAreDoneOnce == Spec => []OncePerJob
<1>1. Held => OncePerJob
  <2> SUFFICES ASSUME Held, NEW s \in Slots, Unfinished(s)
               PROVE  \E c \in Connections : \E k \in DOMAIN queue[c] :
                        /\ queue[c][k] = s /\ c[1] = job[s].on
                        /\ \A d \in Connections : \A j \in DOMAIN queue[d] :
                             queue[d][j] = s => d = c /\ j = k
    BY DEF OncePerJob
  <2>1. PICK c \in Connections : \E k \in DOMAIN queue[c] : queue[c][k] = s
    BY DEF Held, InAPump
  <2>2. PICK k \in DOMAIN queue[c] : queue[c][k] = s
    BY <2>1
  <2>3. InItsPump(c, k)
    BY DEF Held
  <2> QED
    BY <2>2, <2>3 DEF Held, InItsPump
<1> QED
  BY HeldInvariant, <1>1, PTL

-----------------------------------------------------------------------------
(* While no tab is closed, every transfer runs on the host it was meant    *)
(* for.  The panel knows its tab by the index (sftp_last_tab); the         *)
(* invariant says that in the frame this is the tab shown, and that all    *)
(* there is to transfer is meant for its host.                             *)

InFrame == {"result", "gate", "act", "kick", "strip"}

HostsAgree ==
  /\ active \in DOMAIN tabs
  /\ turn \in InFrame => lastTab = active
  /\ lastTab # None =>
       /\ \A i \in DOMAIN items : items[i].host = tabs[lastTab]
       /\ rx # None => job[rx].meant = tabs[lastTab]
  /\ \A s \in Slots : job[s] \in Jobs => job[s].meant = job[s].on

(* How a step changes the items: the panel is reset, or each item is an    *)
(* old one, or is meant for the host shown or for that of a preparation.   *)
ItemsReset == DOMAIN items' = {} /\ rx' = None /\ lastTab' = active

HostKept(i) ==
  \/ i \in DOMAIN items /\ items'[i].host = items[i].host
  \/ turn = "act" /\ items'[i].host = Current
  \/ rx # None /\ items'[i].host = job[rx].meant

ItemsKept ==
  lastTab' \in {lastTab, None} /\ \A i \in DOMAIN items' : HostKept(i)

(* Changing the states of items changes no host.                           *)
LEMMA StatesOnly ==
  ASSUME IInv, NEW i \in DOMAIN items, NEW k
  PROVE  /\ [items[i] EXCEPT !.state = k].host = items[i].host
         /\ DOMAIN [items EXCEPT ![i].state = k] = DOMAIN items
         /\ \A j \in DOMAIN items : [items EXCEPT ![i].state = k][j].host = items[j].host
<1>1. \A j \in DOMAIN items : items[j] \in Items
  BY DEF IInv, Types, PanelOK
<1>2. \A x \in Items : [x EXCEPT !.state = k].host = x.host
  BY DEF Items
<1> QED
  BY <1>1, <1>2

LEMMA KickKeepsHosts ==
  ASSUME NEW is, DOMAIN is = DOMAIN items,
         \A i \in DOMAIN items : is[i] \in Items /\ is[i].host = items[i].host,
         Kick(is), lastTab' = lastTab
  PROVE  ItemsKept
<1>1. CASE items' = is
  BY <1>1 DEF ItemsKept, HostKept
<1>2. ASSUME NEW first \in DOMAIN is, NEW k, items' = [is EXCEPT ![first].state = k]
      PROVE  ItemsKept
  <2>1. \A x \in Items : [x EXCEPT !.state = k].host = x.host
    BY DEF Items
  <2>2. DOMAIN items' = DOMAIN items /\ \A i \in DOMAIN items : items'[i].host = items[i].host
    BY <1>2, <2>1
  <2> QED
    BY <2>2 DEF ItemsKept, HostKept
<1> QED
  BY <1>1, <1>2 DEF Kick, NextQueued

LEMMA StatesKeepHosts ==
  ASSUME IInv, DOMAIN items' = DOMAIN items, lastTab' = lastTab,
         \A i \in DOMAIN items :
           items'[i] = items[i] \/ \E k : items'[i] = [items[i] EXCEPT !.state = k]
  PROVE  ItemsKept
<1>1. ASSUME NEW i \in DOMAIN items PROVE items'[i].host = items[i].host
  <2>1. ASSUME NEW k, items'[i] = [items[i] EXCEPT !.state = k]
        PROVE  items'[i].host = items[i].host
    BY <2>1, StatesOnly
  <2> QED
    BY <2>1
<1> QED
  BY <1>1 DEF ItemsKept, HostKept

LEMMA FailAllKeepsHosts ==
  ASSUME IInv, FailAll(items), lastTab' = lastTab
  PROVE  ItemsKept
<1>1. /\ DOMAIN items' = DOMAIN items
      /\ \A i \in DOMAIN items :
           items'[i] = items[i] \/ items'[i] = [items[i] EXCEPT !.state = "failed"]
  BY DEF FailAll
<1> QED
  BY <1>1, StatesKeepHosts

LEMMA SameItems ==
  ASSUME items' = items, lastTab' \in {lastTab, None}
  PROVE  ItemsKept
BY DEF ItemsKept, HostKept

LEMMA FrameItems ==
  ASSUME IInv, Frame
  PROVE  ItemsReset \/ ItemsKept
<1>1. \A i \in DOMAIN items : items[i] \in Items
  BY DEF IInv, Types, PanelOK
<1>2. CASE OpenFrame
  <2>1. lastTab' = active
    BY <1>2 DEF OpenFrame
  <2>2. CASE Reset
    BY <2>1, <2>2 DEF Reset, ItemsReset
  <2>3. CASE lastTab = active /\ items' = items
    BY <2>1, <2>3, SameItems
  <2>4. ASSUME lastTab = active, NEW i \in DOMAIN items,
               items' = [items EXCEPT ![i].state = "running"]
        PROVE  ItemsKept
    BY <2>1, <2>4, StatesOnly DEF ItemsKept, HostKept
  <2> QED
    BY <1>2, <2>2, <2>3, <2>4 DEF OpenFrame
<1>3. CASE PollResult
  <2>1. lastTab' = lastTab
    BY <1>3 DEF PollResult, window
  <2>2. CASE NoAnswer \/ ListAnswer \/ ScanAnswer
    BY <2>1, <2>2, SameItems DEF NoAnswer, ListAnswer, ScanAnswer
  <2>3. CASE TransferAnswer
    <3> DEFINE i == job[rx].item
               k == IF Answer = "ok" THEN "done" ELSE Answer
    <3>1. items' = IF i \in DOMAIN items THEN [items EXCEPT ![i].state = k] ELSE items
      BY <2>3 DEF TransferAnswer, Finish
    <3> HIDE DEF i, k
    <3>2. CASE i \in DOMAIN items
      BY <2>1, <3>1, <3>2, StatesOnly DEF ItemsKept, HostKept
    <3>3. CASE i \notin DOMAIN items
      BY <2>1, <3>1, <3>3, SameItems
    <3> QED
      BY <3>2, <3>3
  <2>4. CASE PrepareAnswer
    <3>1. rx # None
      BY <2>4 DEF PrepareAnswer, Answered
    <3>2. PICK n : LET new == pushed + 1 .. pushed + n IN
                   items' = [i \in DOMAIN items \cup new |->
                               IF i \in new
                               THEN [host |-> job[rx].meant, state |-> "queued"]
                               ELSE items[i]]
      BY <2>4 DEF PrepareAnswer
    <3>3. \A i \in DOMAIN items' : HostKept(i)
      BY <3>1, <3>2 DEF HostKept
    <3> QED
      BY <2>1, <3>3 DEF ItemsKept
  <2>5. CASE WorkerGone
    BY <2>1, <2>5, FailAllKeepsHosts DEF WorkerGone, GiveUp
  <2> QED
    BY <1>3, <2>2, <2>3, <2>4, <2>5 DEF PollResult
<1>4. CASE Unavailable
  <2>1. lastTab' = lastTab
    BY <1>4 DEF Unavailable, window
  <2>2. CASE GiveUp
    BY <2>1, <2>2, FailAllKeepsHosts DEF GiveUp
  <2>3. CASE UNCHANGED <<job, panel>>
    BY <2>1, <2>3, SameItems DEF panel
  <2> QED
    BY <1>4, <2>2, <2>3 DEF Unavailable
<1>5. CASE Available \/ EnterDirectory \/ Scan \/ Sync \/ CancelActive
  BY <1>5, SameItems DEF Available, EnterDirectory, Scan, Sync, CancelActive, Strip, Act,
     window, panel
<1>6. CASE Push
  <2>1. /\ turn = "act" /\ lastTab' = lastTab
        /\ items' = [i \in DOMAIN items \cup {pushed'} |->
                       IF i = pushed' THEN [host |-> Current, state |-> "queued"]
                       ELSE items[i]]
    BY <1>6 DEF Push, Act, window
  <2> QED
    BY <2>1 DEF ItemsKept, HostKept
<1>7. CASE CancelOrBack
  <2>1. lastTab' = lastTab
    BY <1>7 DEF CancelOrBack, Act, window
  <2>2. \/ items' = items
        \/ items' = [i \in DOMAIN items |->
                       IF i \in diff.batch /\ items[i].state = "queued"
                       THEN [items[i] EXCEPT !.state = "cancelled"] ELSE items[i]]
    BY <1>7 DEF CancelOrBack, CancelDiff
  <2>3. CASE items' = items
    BY <2>1, <2>3, SameItems
  <2>4. CASE items' = [i \in DOMAIN items |->
                         IF i \in diff.batch /\ items[i].state = "queued"
                         THEN [items[i] EXCEPT !.state = "cancelled"] ELSE items[i]]
    <3>1. DOMAIN items' = DOMAIN items
          /\ \A i \in DOMAIN items :
               items'[i] = items[i] \/ items'[i] = [items[i] EXCEPT !.state = "cancelled"]
      BY <2>4
    <3> QED
      BY <2>1, <3>1, StatesKeepHosts
  <2> QED
    BY <2>2, <2>3, <2>4
<1>8. CASE Pick
  BY <1>1, <1>8, KickKeepsHosts DEF Pick, window
<1>9. CASE Retry
  <2>1. PICK i \in DOMAIN items : Kick([items EXCEPT ![i].state = "queued"])
    BY <1>9 DEF Retry
  <2> DEFINE is == [items EXCEPT ![i].state = "queued"]
  <2>2. \A x \in Items : LET y == [x EXCEPT !.state = "queued"]
                         IN  y \in Items /\ y.host = x.host
    BY DEF Items, States, Live
  <2>3. DOMAIN is = DOMAIN items
        /\ \A k \in DOMAIN items : is[k] \in Items /\ is[k].host = items[k].host
    BY <1>1, <2>2
  <2>4. lastTab' = lastTab
    BY <1>9 DEF Retry, Strip, window
  <2> QED
    BY <2>1, <2>3, <2>4, KickKeepsHosts
<1>10. CASE RemoveOrPrune
  <2>1. DOMAIN items' \subseteq DOMAIN items
        /\ \A i \in DOMAIN items' : items'[i] = items[i]
    BY <1>10 DEF RemoveOrPrune, Keep
  <2>2. lastTab' = lastTab
    BY <1>10 DEF RemoveOrPrune, Strip, window
  <2> QED
    BY <2>1, <2>2 DEF ItemsKept, HostKept
<1>11. CASE HiddenFrame \/ Toggle \/ SwitchTab \/ CloseTab \/ Disconnect \/ SessionLost
            \/ Reconnected
  BY <1>11, SameItems DEF HiddenFrame, Toggle, SwitchTab, CloseTab, Disconnect,
     SessionLost, Reconnected, Rest, window, panel
<1> QED
  BY <1>2, <1>3, <1>4, <1>5, <1>6, <1>7, <1>8, <1>9, <1>10, <1>11 DEF Frame

(* What the pumps do to the jobs changes no host either.                   *)
LEMMA PumpJobs ==
  ASSUME IInv, Held, NEW c \in Connections, JobEnds(c) \/ PumpEnds(c)
  PROVE  /\ rx' = rx
         /\ \A s \in Slots :
              \/ job'[s] = job[s]
              \/ s # rx /\ job'[s] = NoJob
              \/ /\ job[s] \in Jobs /\ job'[s] \in Jobs
                 /\ job'[s].on = job[s].on /\ job'[s].meant = job[s].meant
<1>1. rx' = rx /\ job \in [Slots -> Jobs \cup {NoJob}]
  BY DEF JobEnds, PumpEnds, panel, transfer, IInv, Types, PumpsOK
<1>2. \A s \in Slots, a \in Answers : job[s] \in Jobs =>
        LET j == [job[s] EXCEPT !.answer = a]
        IN  j \in Jobs /\ j.on = job[s].on /\ j.meant = job[s].meant
  BY DEF Jobs
<1>3. rx \in Slots => job[rx] \in Jobs
  BY Bounds DEF IInv, Work, Waiting
<1>4. CASE JobEnds(c)
  <2> DEFINE s == Head(queue[c])
  <2>1. PICK answer \in Outcomes(job[s]) :
          job' = [job EXCEPT ![s] = IF s = rx THEN [job[s] EXCEPT !.answer = answer]
                                    ELSE NoJob]
    BY <1>4 DEF JobEnds
  <2>2. answer \in Answers
    BY DEF Outcomes, Answers
  <2> HIDE DEF s
  <2> QED
    BY <1>1, <1>2, <1>3, <2>1, <2>2
<1>5. CASE PumpEnds(c)
  <2> DEFINE dropped == {queue[c][k] : k \in DOMAIN queue[c]}
  <2>1. job' = [s \in Slots |-> IF s \notin dropped THEN job[s]
                                ELSE IF s = rx THEN [job[s] EXCEPT !.answer = "gone"]
                                ELSE NoJob]
    BY <1>5 DEF PumpEnds
  <2>2. "gone" \in Answers
    BY DEF Answers
  <2> HIDE DEF dropped
  <2> QED
    BY <1>1, <1>2, <1>3, <2>1, <2>2
<1> QED
  BY <1>4, <1>5, <1>1

(* Which tab the panel is on.                                              *)
LEMMA TabsStep ==
  ASSUME IInv, HostsAgree, [Next]_vars, tabs' = tabs
  PROVE  /\ active' \in DOMAIN tabs
         /\ turn' \in InFrame => lastTab' = active'
<1>1. active \in DOMAIN tabs /\ (turn \in InFrame => lastTab = active)
  BY DEF HostsAgree
<1>2. CASE OpenFrame
  BY <1>1, <1>2 DEF OpenFrame
<1>3. CASE PollResult \/ Unavailable \/ Available \/ Push \/ EnterDirectory \/ Scan \/ Sync
           \/ CancelOrBack \/ Pick
  BY <1>1, <1>3 DEF PollResult, Unavailable, Available, Push, EnterDirectory, Scan, Sync,
     CancelOrBack, Pick, Act, window, InFrame
<1>4. CASE HiddenFrame \/ CancelActive \/ Retry \/ RemoveOrPrune \/ Toggle \/ SwitchTab
           \/ Disconnect \/ SessionLost \/ Reconnected
  BY <1>1, <1>4 DEF HiddenFrame, CancelActive, Retry, RemoveOrPrune, Strip, Toggle,
     SwitchTab, Disconnect, SessionLost, Reconnected, Rest, window, InFrame
<1>5. ASSUME CloseTab PROVE FALSE
  <2>1. Len(tabs) \in Nat /\ DOMAIN tabs = 1 .. Len(tabs)
    BY Elements DEF IInv, Types, WindowOK
  <2>2. DOMAIN tabs' = 1 .. Len(tabs) - 1 /\ Len(tabs) \in DOMAIN tabs
    BY <1>1, <1>5, <2>1 DEF CloseTab
  <2>3. Len(tabs) \in 1 .. Len(tabs) - 1
    BY <2>2
  <2> QED
    BY <2>1, <2>3
<1>6. CASE UNCHANGED vars \/ \E c \in Connections : JobSays(c) \/ JobEnds(c) \/ PumpEnds(c)
  BY <1>1, <1>6 DEF vars, window, JobSays, JobEnds, PumpEnds
<1> QED
  BY <1>2, <1>3, <1>4, <1>5, <1>6 DEF Next, Frame

LEMMA SameHosts ==
  ASSUME IInv, HostsAgree, tabs' = tabs, lastTab' \in {lastTab, None}, rx' = rx,
         items' = items,
         active' \in DOMAIN tabs, turn' \in InFrame => lastTab' = active',
         \A s \in Slots :
           \/ job'[s] = job[s]
           \/ s # rx /\ job'[s] = NoJob
           \/ /\ job[s] \in Jobs /\ job'[s] \in Jobs
              /\ job'[s].on = job[s].on /\ job'[s].meant = job[s].meant
  PROVE  HostsAgree'
<1>1. rx # None => job'[rx].meant = job[rx].meant
  BY DEF IInv, Types, PanelOK
<1>2. \A s \in Slots : job'[s] \in Jobs => job'[s].meant = job'[s].on
  BY NoJobIsNone DEF HostsAgree
<1> QED
  BY <1>1, <1>2 DEF HostsAgree

LEMMA FrameHosts ==
  ASSUME IInv, Held, HostsAgree, Frame, tabs' = tabs,
         active' \in DOMAIN tabs, turn' \in InFrame => lastTab' = active'
  PROVE  HostsAgree'
<1>1. JobsMove /\ (ItemsReset \/ ItemsKept)
  BY FrameMoves, FrameItems
<1>2. /\ active \in DOMAIN tabs /\ (turn \in InFrame => lastTab = active)
      /\ lastTab # None =>
           /\ \A i \in DOMAIN items : items[i].host = tabs[lastTab]
           /\ rx # None => job[rx].meant = tabs[lastTab]
      /\ \A s \in Slots : job[s] \in Jobs => job[s].meant = job[s].on
  BY DEF HostsAgree
<1>3. ASSUME JobGiven
      PROVE  \E s \in Slots :
               /\ rx' = s /\ job'[s].meant = Current /\ job'[s].on = Current
               /\ lastTab = active
               /\ \A t \in Slots \ {s} : job'[t] = job[t]
  <2>1. turn \in InFrame
    BY <1>3 DEF JobGiven, InFrame
  <2>2. lastTab = active /\ active # None /\ Current = tabs[lastTab]
    BY <1>2, <1>3, <2>1 DEF JobGiven, Ready, Current
  <2>3. PICK s \in Slots, kind \in Kinds : \E item, meant :
          /\ meant = Current \/ \E i \in DOMAIN items : meant = items[i].host
          /\ Accept(s, kind, item, meant)
    BY <1>3 DEF JobGiven
  <2>4. PICK item, meant :
          /\ meant = Current \/ \E i \in DOMAIN items : meant = items[i].host
          /\ Accept(s, kind, item, meant)
    BY <2>3
  <2>5. meant = Current
    BY <1>2, <2>2, <2>4
  <2>6. rx' = s /\ job' = [job EXCEPT ![s] =
                 [kind |-> kind, item |-> item, meant |-> meant, on |-> Current,
                  cancelled |-> FALSE, said |-> FALSE, answer |-> "none"]]
    BY <2>4 DEF Accept
  <2>7. job'[s] = [kind |-> kind, item |-> item, meant |-> meant, on |-> Current,
                   cancelled |-> FALSE, said |-> FALSE, answer |-> "none"]
        /\ \A t \in Slots \ {s} : job'[t] = job[t]
    BY <2>6 DEF IInv, Types, PumpsOK
  <2> QED
    BY <2>2, <2>5, <2>6, <2>7
<1>4. \A s \in Slots : job'[s] \in Jobs => job'[s].meant = job'[s].on
  <2>1. CASE JobGiven
    BY <1>2, <1>3, <2>1
  <2>2. CASE JobsKept \/ JobFreed
    <3>1. \A s \in Slots : KeptJob(s) \/ job'[s] = NoJob
      BY <2>2 DEF JobsKept, JobFreed
    <3> QED
      BY <1>2, <3>1, NoJobIsNone DEF KeptJob
  <2> QED
    BY <1>1, <2>1, <2>2 DEF JobsMove
<1>5. CASE ItemsReset
  BY <1>4, <1>5 DEF ItemsReset, HostsAgree
<1>6. CASE ItemsKept
  <2> SUFFICES ASSUME lastTab' # None
               PROVE  /\ \A i \in DOMAIN items' : items'[i].host = tabs[lastTab]
                      /\ rx' # None => job'[rx'].meant = tabs[lastTab]
                      /\ lastTab' = lastTab
    BY <1>4 DEF HostsAgree
  <2>1. lastTab' = lastTab /\ lastTab # None
    BY <1>6 DEF ItemsKept
  <2>2. ASSUME NEW i \in DOMAIN items' PROVE items'[i].host = tabs[lastTab]
    <3>1. HostKept(i)
      BY <1>6 DEF ItemsKept
    <3>2. turn = "act" => Current = tabs[lastTab]
      BY <1>2 DEF InFrame, Current
    <3> QED
      BY <1>2, <2>1, <3>1, <3>2 DEF HostKept
  <2>3. ASSUME rx' # None PROVE job'[rx'].meant = tabs[lastTab]
    <3>1. CASE JobGiven
      BY <1>3, <3>1 DEF Current
    <3>2. CASE JobsKept
      <4>1. rx' = rx /\ rx \in Slots /\ job[rx] \in Jobs /\ KeptJob(rx)
        BY <2>3, <3>2 DEF JobsKept, IInv, Types, PanelOK, Work, Waiting
      <4> QED
        BY <1>2, <2>1, <2>3, <4>1 DEF KeptJob
    <3>3. ~JobFreed
      BY <2>3 DEF JobFreed
    <3> QED
      BY <1>1, <3>1, <3>2, <3>3 DEF JobsMove
  <2> QED
    BY <2>1, <2>2, <2>3
<1> QED
  BY <1>1, <1>5, <1>6

LEMMA HostsStep ==
  ASSUME IInv, Held, HostsAgree, [Next]_vars, tabs' = tabs
  PROVE  HostsAgree'
<1>1. active' \in DOMAIN tabs /\ (turn' \in InFrame => lastTab' = active')
  BY TabsStep
<1>2. CASE Frame
  BY <1>1, <1>2, FrameHosts
<1>3. ASSUME NEW c \in Connections, JobEnds(c) \/ PumpEnds(c) PROVE HostsAgree'
  <2>1. lastTab' = lastTab /\ items' = items
    BY <1>3 DEF JobEnds, PumpEnds, window, panel
  <2> QED
    BY <1>1, <1>3, <2>1, PumpJobs, SameHosts
<1>4. ASSUME NEW c \in Connections, JobSays(c) PROVE HostsAgree'
  <2>1. lastTab' = lastTab /\ items' = items
    BY <1>4 DEF JobSays, window, panel
  <2>2. rx' = rx /\ \A s \in Slots : KeptJob(s)
    BY <1>4, SaysKeeps DEF JobsKept
  <2> QED
    BY <1>1, <2>1, <2>2, SameHosts DEF KeptJob
<1>5. CASE UNCHANGED vars
  BY <1>1, <1>5, SameHosts DEF vars, window, pumps, panel, transfer
<1> QED
  BY <1>2, <1>3, <1>4, <1>5 DEF Next

LEMMA HostsInit == Init => HostsAgree
<1> SUFFICES ASSUME Init PROVE HostsAgree
  OBVIOUS
<1>1. /\ \A s \in Slots : job[s] = NoJob
      /\ DOMAIN items = {} /\ rx = None /\ turn \notin InFrame
  BY DEF Init, InFrame
<1>2. active \in DOMAIN tabs
  BY Bounds DEF Init
<1> QED
  BY <1>1, <1>2, NoJobIsNone DEF HostsAgree

(* "Reset the remote path and list again when the terminal tab changes":   *)
(* while no tab is closed, that is enough: through all switches, losses    *)
(* and reconnections every transfer runs on the host it was meant for.     *)
(* With a closed tab it need not (the run xfer_other_host).                *)
THEOREM TransfersKeepHost == Spec /\ [][tabs' = tabs]_vars => []TransferToItsHost
<1>1. IInv /\ Held /\ HostsAgree /\ [Next]_vars /\ [tabs' = tabs]_vars => HostsAgree'
  <2>1. UNCHANGED vars => tabs' = tabs
    BY DEF vars, window
  <2> QED
    BY <2>1, HostsStep
<1>2. IInv /\ HostsAgree => TransferToItsHost
  BY DEF HostsAgree, TransferToItsHost, Unfinished, IInv, Types, PumpsOK
<1> QED
  BY HeldInvariant, HostsInit, <1>1, <1>2, PTL DEF Spec
=============================================================================
