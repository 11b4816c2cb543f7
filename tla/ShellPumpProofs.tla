-------------------------- MODULE ShellPumpProofs --------------------------
(***************************************************************************)
(* Theorems about the shell pump, for queues, caps and bounds of any size. *)
(*                                                                         *)
(* The inductive invariant IInv adds to the types what the steps of the    *)
(* pump rely on: a command is at hand where one is prepared and bytes where*)
(* one writes; the end is told only of a channel that has ended; and a     *)
(* command that overtook an interrupt was itself prepared when none waited.*)
(*                                                                         *)
(* A second invariant, ExecInv, follows the one-off commands: each place   *)
(* of the loop holds the kind of command its step is for, so that none is  *)
(* taken for keys, overwritten where it is put aside, or dropped unheard.  *)
(***************************************************************************)
EXTENDS ShellPump, TLAPS

AtHand ==
  /\ pc \in {"merge", "dispatch", "join", "process"} => cur # <<>>
  /\ pc = "write" => rest # <<>>
  /\ pc = "write" /\ back = "dispatch" => cur # <<>>

ToldOfEnd == told => remote # "open" /\ inbound = 0

OvertakenOnce ==
  /\ late <= 1
  /\ late > 0 => interrupts > 0
  /\ pc \in {"join", "process"} => late = 0

IInv == TypeOK /\ AtHand /\ ToldOfEnd /\ OvertakenOnce /\ NoSilentEnd

-----------------------------------------------------------------------------
(* The first element of a sequence and what remains without it.            *)
LEMMA HeadTail ==
  ASSUME NEW S, NEW s \in Seq(S), s # <<>>
  PROVE  /\ Head(s) \in S /\ Tail(s) \in Seq(S)
         /\ Len(Tail(s)) = Len(s) - 1 /\ Len(s) \in Nat /\ Len(s) > 0
OBVIOUS

LEMMA Remains ==
  ASSUME NEW S, NEW s \in Seq(S), Len(s) > 1
  PROVE  Tail(s) \in Seq(S) /\ Tail(s) # <<>>
<1>1. Tail(s) \in Seq(S) /\ Len(Tail(s)) = Len(s) - 1 /\ Len(s) \in Nat
  BY HeadTail
<1>2. Len(Tail(s)) > 0
  BY <1>1
<1>3. ASSUME NEW t, Len(t) > 0 PROVE t # <<>>
  BY <1>3
<1> QED
  BY <1>1, <1>2, <1>3

(* A sequence of one element.                                              *)
LEMMA One ==
  ASSUME NEW S, NEW e \in S
  PROVE  <<e>> \in Seq(S) /\ Len(<<e>>) = 1 /\ <<e>> # <<>>
OBVIOUS

(* A sequence with one more element.                                       *)
LEMMA Appended ==
  ASSUME NEW S, NEW s \in Seq(S), NEW e \in S
  PROVE  /\ Append(s, e) \in Seq(S) /\ Append(s, e) # <<>>
         /\ Len(Append(s, e)) = Len(s) + 1 /\ Len(s) \in Nat
OBVIOUS

LEMMA Empty == ASSUME NEW S PROVE <<>> \in Seq(S) /\ Len(<<>>) = 0
OBVIOUS

(* The constants, one by one.                                              *)
LEMMA Bounds ==
  /\ QueueCap \in Nat /\ QueueCap > 0 /\ InterruptCap \in Nat
  /\ ResizeCap \in Nat /\ ResizeCap > 0 /\ MergeCap \in Nat /\ MergeCap > 0
  /\ ReadCap \in Nat /\ ReadCap > 0 /\ MaxStalls \in Nat /\ MaxSent \in Nat
  /\ MaxInterrupts \in Nat /\ MaxResizes \in Nat /\ MaxInbound \in Nat
BY PumpAssumption DEF PumpAssumption

LEMMA InitInvariant == Init => IInv
<1> SUFFICES ASSUME Init PROVE IInv
  OBVIOUS
<1>1. TypeOK
  <2>1. /\ queue \in Seq(Commands) /\ resizes \in Seq(0 .. MaxResizes)
        /\ cur \in Seq(Commands) /\ other \in Seq(Commands)
        /\ deferred \in Seq(Commands) /\ rest \in Seq(Commands \cup {Interrupt})
        /\ Len(queue) = 0 /\ Len(resizes) = 0 /\ Len(cur) = 0
        /\ Len(other) = 0 /\ Len(deferred) = 0
    BY Empty DEF Init
  <2>2. /\ interrupts = 0 /\ cols = 0 /\ size = 0 /\ missed = 0
        /\ inbound = 0 /\ stalls = 0
        /\ sent = 0 /\ given = 0 /\ typed = 0 /\ late = 0
        /\ held \in BOOLEAN /\ told \in BOOLEAN /\ remote = "open"
        /\ pc = "top" /\ back = "top" /\ unanswered \subseteq 1 .. MaxSent
    BY DEF Init
  <2> QED
    BY Bounds, <2>1, <2>2 DEF TypeOK
<1> QED
  BY <1>1 DEF Init, IInv, AtHand, ToldOfEnd, OvertakenOnce, NoSilentEnd

(* The senders and the remote host.                                        *)
LEMMA OutsideStep ==
  ASSUME IInv,
         \/ \E kind \in Kinds : Send(kind)
         \/ SendInterrupt \/ Resize \/ DropHandle \/ Output \/ Eof \/ Break
  PROVE  IInv'
<1> USE DEF IInv, AtHand, ToldOfEnd, OvertakenOnce, NoSilentEnd
<1> USE Bounds
<1>1. ASSUME NEW kind \in Kinds, Send(kind) PROVE IInv'
  <2>1. [id |-> sent', kind |-> kind] \in Commands
    BY <1>1 DEF Send, Commands, TypeOK
  <2>2. queue' \in Seq(Commands) /\ Len(queue') <= QueueCap
    BY <1>1, <2>1 DEF Send, TypeOK
  <2>3. TypeOK'
    BY <1>1, <2>2 DEF Send, TypeOK, pump, channel, taken, writing
  <2> QED
    BY <1>1, <2>3 DEF Send, pump, channel, taken, writing, TypeOK
<1>2. CASE SendInterrupt
  BY <1>2 DEF SendInterrupt, TypeOK, pump, channel, taken, writing, history
<1>3. CASE Resize
  <2>1. cols' \in 0 .. MaxResizes
    BY <1>3 DEF Resize, TypeOK
  <2>2. resizes' \in Seq(0 .. MaxResizes) /\ Len(resizes') <= ResizeCap
    <3>1. resizes \in Seq(0 .. MaxResizes) /\ Len(resizes) <= ResizeCap
      BY DEF TypeOK
    <3>2. Append(resizes, cols') \in Seq(0 .. MaxResizes)
      BY <3>1, <2>1
    <3>3. Len(Append(resizes, cols')) = Len(resizes) + 1 /\ Len(resizes) \in Nat
      BY <3>1, <2>1
    <3>4. \/ resizes' = resizes
          \/ Len(resizes) < ResizeCap /\ resizes' = Append(resizes, cols')
      BY <1>3 DEF Resize
    <3> QED
      BY Bounds, <3>1, <3>2, <3>3, <3>4, SMTT(20)
  <2> QED
    BY <1>3, <2>1, <2>2 DEF Resize, TypeOK, pump, channel, taken, writing, history
<1>4. CASE DropHandle
  BY <1>4, ZenonT(60) DEF DropHandle, TypeOK, pump, channel, taken, writing, history
<1>5. CASE Output
  BY <1>5 DEF Output, TypeOK, input, owner, pump, taken, writing, history
<1>6. CASE Eof
  BY <1>6 DEF Eof, TypeOK, input, owner, pump, taken, writing, history
<1>7. CASE Break
  BY <1>7 DEF Break, TypeOK, input, owner, pump, taken, writing, history
<1> QED
  BY <1>1, <1>2, <1>3, <1>4, <1>5, <1>6, <1>7

-----------------------------------------------------------------------------
(* What a read finds: the end is told of a channel that has ended, when    *)
(* nothing is left to read; a pump that has told it reads no more.         *)
LEMMA Reads ==
  ASSUME TypeOK, ToldOfEnd, remote' = remote
  PROVE  /\ ReadOk => /\ inbound' \in 0 .. MaxInbound /\ told' = told
                      /\ ~told /\ told' \in BOOLEAN
         /\ ReadEnd => inbound' = 0 /\ told' = TRUE /\ remote # "open"
         /\ ReadOk \/ ReadEnd =>
              /\ inbound' \in 0 .. MaxInbound /\ told' \in BOOLEAN
              /\ told' => remote # "open" /\ inbound' = 0
<1>1. ReadOk => /\ inbound' \in 0 .. MaxInbound /\ told' = told
                /\ ~told /\ told' \in BOOLEAN /\ ~told'
  BY Bounds DEF TypeOK, ToldOfEnd, ReadOk
<1>2. ReadEnd => /\ inbound' = 0 /\ told' = TRUE /\ remote # "open"
                 /\ inbound' \in 0 .. MaxInbound /\ told' \in BOOLEAN
  BY Bounds DEF ReadEnd
<1> QED
  BY <1>1, <1>2

(* A thread that returns leaves a state of the invariant, when it has told *)
(* the end of the channel or nobody holds the handle.                      *)
LEMMA Exits ==
  ASSUME TypeOK, Exit, UNCHANGED <<remote, size, missed, typed>>,
         inbound' \in 0 .. MaxInbound, told' \in BOOLEAN,
         told' => remote # "open" /\ inbound' = 0,
         told' \/ ~held
  PROVE  IInv'
<1> USE Bounds
<1>1. /\ queue' \in Seq(Commands) /\ Len(queue') = 0
      /\ resizes' \in Seq(0 .. MaxResizes) /\ Len(resizes') = 0
      /\ cur' \in Seq(Commands) /\ Len(cur') = 0
      /\ other' \in Seq(Commands) /\ Len(other') = 0
      /\ deferred' \in Seq(Commands) /\ Len(deferred') = 0
      /\ rest' \in Seq(Commands \cup {Interrupt})
  BY Empty DEF Exit
<1>2. /\ interrupts' = 0 /\ stalls' = 0 /\ late' = 0 /\ pc' = "done"
      /\ back' = "top" /\ unanswered' \subseteq 1 .. MaxSent
      /\ held' = held /\ cols' = cols /\ sent' = sent /\ given' = given
  BY DEF Exit, owner
<1>3. TypeOK'
  BY <1>1, <1>2 DEF TypeOK
<1> QED
  BY <1>2, <1>3 DEF IInv, AtHand, ToldOfEnd, OvertakenOnce, NoSilentEnd

(* An interrupt is taken at the head of the loop or of a dispatch.         *)
LEMMA TakesInterrupt ==
  ASSUME IInv, NEW after \in {"top", "dispatch"}, pc = after,
         TakeInterrupt(after)
  PROVE  IInv'
<1> USE Bounds
<1>1. rest' \in Seq(Commands \cup {Interrupt}) /\ rest' # <<>>
  BY One DEF TakeInterrupt, BeginWrite
<1>2. /\ interrupts' \in 0 .. InterruptCap /\ late' = 0 /\ pc' = "write"
      /\ back' = after /\ stalls' = 0
      /\ UNCHANGED <<queue, resizes, held, cols, sent, given, remote, inbound,
                     size, missed, told, cur, other, deferred, typed,
                     unanswered>>
  BY DEF TakeInterrupt, BeginWrite, IInv, TypeOK, owner, channel, taken
<1>3. TypeOK'
  BY <1>1, <1>2 DEF IInv, TypeOK
<1> QED
  BY <1>1, <1>2, <1>3 DEF IInv, AtHand, ToldOfEnd, OvertakenOnce, NoSilentEnd

LEMMA TopStep == ASSUME IInv, Top PROVE IInv'
<1> USE Bounds
<1>1. ASSUME TakeInterrupt("top"), pc = "top" PROVE IInv'
  BY <1>1, TakesInterrupt
<1>2. ASSUME pc = "top", interrupts = 0,
             NEW i \in 0 .. Len(resizes), Requested(i),
             resizes' = <<>>, pc' = "take",
             UNCHANGED <<queue, interrupts, owner, remote, inbound, taken,
                         writing, told, history>>
      PROVE  IInv'
  <2>1. {size', missed'} \subseteq 0 .. MaxResizes
    <3>1. resizes \in Seq(0 .. MaxResizes) /\ {size, missed} \subseteq 0 .. MaxResizes
      BY DEF IInv, TypeOK
    <3>2. \A j \in 1 .. Len(resizes) : resizes[j] \in 0 .. MaxResizes
      BY <3>1
    <3>3. Len(resizes) \in Nat
      BY <3>1
    <3> QED
      BY <1>2, <3>1, <3>2, <3>3 DEF Requested
  <2>2. resizes' \in Seq(0 .. MaxResizes) /\ Len(resizes') = 0
    BY <1>2, Empty
  <2>3. TypeOK'
    BY <1>2, <2>1, <2>2 DEF IInv, TypeOK, owner, taken, writing, history
  <2> QED
    BY <1>2, <2>3 DEF IInv, AtHand, ToldOfEnd, OvertakenOnce, NoSilentEnd,
                      owner, taken, writing, history
<1> QED
  BY <1>1, <1>2 DEF Top, TopWith

LEMMA TakeStep == ASSUME IInv, Take PROVE IInv'
<1> USE Bounds
<1>1. /\ Head(queue) \in Commands
      /\ queue' \in Seq(Commands) /\ Len(queue') <= QueueCap
  BY HeadTail DEF IInv, TypeOK, Take
<1>2. cur' \in Seq(Commands) /\ Len(cur') = 1 /\ cur' # <<>>
  BY <1>1, One DEF Take
<1>3. /\ pc = "take" /\ pc' \in {"merge", "dispatch"}
      /\ UNCHANGED <<interrupts, resizes, held, cols, sent, given, remote,
                     inbound, size, missed, told, other, deferred, rest, back, stalls,
                     typed, unanswered, late>>
  BY DEF Take, owner, channel, writing, history
<1>4. TypeOK'
  BY <1>1, <1>2, <1>3 DEF IInv, TypeOK
<1> QED
  BY <1>2, <1>3, <1>4 DEF IInv, AtHand, ToldOfEnd, OvertakenOnce, NoSilentEnd

LEMMA IdleReadStep == ASSUME IInv, IdleRead PROVE IInv'
<1>1. TypeOK /\ ToldOfEnd /\ UNCHANGED <<remote, size, missed, typed>>
  BY DEF IInv, IdleRead
<1>2. ASSUME pc = "take", ReadOk, pc' = "top",
             UNCHANGED <<input, taken, writing, unanswered, late>>
      PROVE  IInv'
  <2>1. inbound' \in 0 .. MaxInbound /\ told' = told /\ ~told
    BY <1>1, <1>2, Reads
  <2>2. TypeOK'
    BY <1>1, <1>2, <2>1 DEF TypeOK, input, owner, taken, writing
  <2> QED
    BY <1>1, <1>2, <2>1, <2>2
    DEF IInv, AtHand, ToldOfEnd, OvertakenOnce, NoSilentEnd, input, owner,
        taken, writing
<1>3. ASSUME ReadEnd, Exit PROVE IInv'
  BY <1>1, <1>3, Reads, Exits, Bounds
<1> QED
  BY <1>2, <1>3 DEF IdleRead

LEMMA SendersGoneStep == ASSUME IInv, SendersGone PROVE IInv'
BY Exits DEF IInv, SendersGone, TypeOK, ToldOfEnd, channel

(* The merging of inputs and the joining of ZMODEM writes.  Both take the  *)
(* head of the queue, to merge it or to put it aside.                      *)
LEMMA MergeStep == ASSUME IInv, Merge PROVE IInv'
<1> USE Bounds
<1>1. pc = "merge" /\ cur # <<>> /\ TypeOK
  BY DEF Merge, MergeInputs, IInv, AtHand
<1>2. UNCHANGED <<interrupts, resizes, held, cols, sent, given, remote,
                  inbound, size, missed, told, deferred, rest, back, stalls, typed, unanswered, late>>
  BY DEF Merge, MergeInputs, owner, channel, writing, history
<1> DEFINE Sound ==
      /\ queue' \in Seq(Commands) /\ Len(queue') <= QueueCap
      /\ cur' \in Seq(Commands) /\ Len(cur') <= MergeCap /\ cur' # <<>>
      /\ other' \in Seq(Commands) /\ Len(other') <= 1
      /\ pc' \in {"merge", "dispatch"}
<1>3. Sound
  <2>1. ASSUME Len(cur) < MergeCap, queue # <<>>,
               cur' = Append(cur, Head(queue)), queue' = Tail(queue),
               UNCHANGED <<pc, other>>
        PROVE  Sound
    <3>1. /\ queue \in Seq(Commands) /\ Len(queue) <= QueueCap
          /\ cur \in Seq(Commands) /\ other \in Seq(Commands) /\ Len(other) <= 1
      BY <1>1 DEF TypeOK
    <3>2. /\ Head(queue) \in Commands /\ queue' \in Seq(Commands)
          /\ Len(queue') <= QueueCap
      BY <2>1, <3>1, HeadTail
    <3>3. cur' \in Seq(Commands) /\ Len(cur') = Len(cur) + 1 /\ cur' # <<>>
          /\ Len(cur) \in Nat
      BY <2>1, <3>1, <3>2, Appended
    <3> QED
      BY <1>1, <2>1, <3>1, <3>2, <3>3
  <2>2. ASSUME queue # <<>>, other' = <<Head(queue)>>, queue' = Tail(queue),
               pc' = "dispatch", UNCHANGED cur
        PROVE  Sound
    BY <1>1, <2>2, HeadTail, One DEF TypeOK
  <2>3. ASSUME pc' = "dispatch", UNCHANGED <<cur, queue, other>>
        PROVE  Sound
    BY <1>1, <2>3 DEF TypeOK
  <2> QED
    BY <2>1, <2>2, <2>3 DEF Merge, MergeInputs
<1>4. TypeOK'
  BY <1>1, <1>2, <1>3 DEF TypeOK
<1> QED
  BY <1>1, <1>2, <1>3, <1>4
  DEF IInv, AtHand, ToldOfEnd, OvertakenOnce, NoSilentEnd

LEMMA DispatchStep == ASSUME IInv, Dispatch PROVE IInv'
<1>1. ASSUME TakeInterrupt("dispatch"), pc = "dispatch" PROVE IInv'
  BY <1>1, TakesInterrupt
<1>2. ASSUME pc = "dispatch", interrupts = 0, pc' \in {"join", "process"},
             UNCHANGED <<input, channel, taken, writing, history>>
      PROVE  IInv'
  BY <1>2 DEF IInv, TypeOK, AtHand, ToldOfEnd, OvertakenOnce, NoSilentEnd,
              input, owner, channel, taken, writing, history
<1> QED
  BY <1>1, <1>2 DEF Dispatch

LEMMA JoinStep == ASSUME IInv, Join PROVE IInv'
<1> USE Bounds
<1>1. pc = "join" /\ cur # <<>> /\ TypeOK
  BY DEF Join, IInv, AtHand
<1>2. UNCHANGED <<interrupts, resizes, held, cols, sent, given, remote,
                  inbound, size, missed, told, other, rest, back, stalls, typed, unanswered, late>>
  BY DEF Join, owner, channel, writing, history
<1> DEFINE Sound ==
      /\ queue' \in Seq(Commands) /\ Len(queue') <= QueueCap
      /\ cur' \in Seq(Commands) /\ Len(cur') <= MergeCap /\ cur' # <<>>
      /\ deferred' \in Seq(Commands) /\ Len(deferred') <= 1
      /\ pc' \in {"join", "process"}
<1>3. Sound
  <2>1. ASSUME Len(cur) < MergeCap, queue # <<>>,
               cur' = Append(cur, Head(queue)), queue' = Tail(queue),
               UNCHANGED <<pc, deferred>>
        PROVE  Sound
    <3>1. /\ queue \in Seq(Commands) /\ Len(queue) <= QueueCap
          /\ cur \in Seq(Commands) /\ deferred \in Seq(Commands) /\ Len(deferred) <= 1
      BY <1>1 DEF TypeOK
    <3>2. /\ Head(queue) \in Commands /\ queue' \in Seq(Commands)
          /\ Len(queue') <= QueueCap
      BY <2>1, <3>1, HeadTail
    <3>3. cur' \in Seq(Commands) /\ Len(cur') = Len(cur) + 1 /\ cur' # <<>>
          /\ Len(cur) \in Nat
      BY <2>1, <3>1, <3>2, Appended
    <3> QED
      BY <1>1, <2>1, <3>1, <3>2, <3>3
  <2>2. ASSUME queue # <<>>, deferred' = <<Head(queue)>>,
               queue' = Tail(queue), pc' = "process", UNCHANGED cur
        PROVE  Sound
    BY <1>1, <2>2, HeadTail, One DEF TypeOK
  <2>3. ASSUME pc' = "process", UNCHANGED <<cur, queue, deferred>>
        PROVE  Sound
    BY <1>1, <2>3 DEF TypeOK
  <2> QED
    BY <2>1, <2>2, <2>3 DEF Join
<1>4. TypeOK'
  BY <1>1, <1>2, <1>3 DEF TypeOK
<1> QED
  BY <1>1, <1>2, <1>3, <1>4
  DEF IInv, AtHand, ToldOfEnd, OvertakenOnce, NoSilentEnd

(* The command at hand is run or becomes a write, and nothing is at hand.  *)
LEMMA ProcessStep == ASSUME IInv, Process PROVE IInv'
<1> USE Bounds
<1>1. /\ pc = "process" /\ cur # <<>> /\ TypeOK /\ ToldOfEnd /\ late = 0
      /\ UNCHANGED <<remote, size, missed, typed>>
  BY DEF Process, IInv, AtHand, OvertakenOnce
<1>2. ASSUME pc' \in {"write", "next"}, rest' \in Seq(Commands \cup {Interrupt}),
             pc' = "write" => rest' # <<>> /\ back' = "next",
             back' \in {"next", "top", "dispatch"}, stalls' \in 0 .. MaxStalls,
             Taken, unanswered' \subseteq unanswered,
             inbound' \in 0 .. MaxInbound, told' \in BOOLEAN,
             told' => remote # "open" /\ inbound' = 0,
             UNCHANGED <<input, other, deferred>>
      PROVE  IInv'
  <2>1. /\ cur' \in Seq(Commands) /\ Len(cur') = 0
        /\ late' \in 0 .. 1 /\ (late' > 0 => interrupts > 0)
    BY <1>1, <1>2, Empty DEF Taken, Overtakes, TypeOK
  <2>2. UNCHANGED <<queue, interrupts, resizes, held, cols, sent, given, other,
                    deferred>>
    BY <1>2 DEF input, owner
  <2>3. TypeOK'
    BY <1>1, <1>2, <2>1, <2>2, SMTT(20) DEF TypeOK
  <2> QED
    BY <1>1, <1>2, <2>1, <2>2, <2>3
    DEF IInv, AtHand, ToldOfEnd, OvertakenOnce, NoSilentEnd
<1>3. cur \in Seq(Commands \cup {Interrupt})
  BY <1>1 DEF TypeOK
<1>4. ASSUME ReadOk, BeginWrite(cur, "next"), Taken,
             UNCHANGED <<input, other, deferred, unanswered>>
      PROVE  IInv'
  <2>1. inbound' \in 0 .. MaxInbound /\ told' = told /\ ~told
    BY <1>1, <1>4, Reads
  <2>2. /\ pc' = "write" /\ rest' = cur /\ back' = "next" /\ stalls' = 0
        /\ unanswered' = unanswered
    BY <1>4 DEF BeginWrite
  <2>3. stalls' \in 0 .. MaxStalls /\ told' \in BOOLEAN
    BY <1>1, <2>1, <2>2 DEF TypeOK
  <2> QED
    BY <1>1, <1>2, <1>3, <1>4, <2>1, <2>2, <2>3
<1>5. ASSUME ReadEnd, Exit PROVE IInv'
  BY <1>1, <1>5, Reads, Exits
<1>6. ASSUME BeginWrite(cur, "next"), Taken,
             UNCHANGED <<input, inbound, told, other, deferred, unanswered>>
      PROVE  IInv'
  <2>1. inbound' \in 0 .. MaxInbound /\ told' \in BOOLEAN
        /\ (told' => remote # "open" /\ inbound' = 0)
    BY <1>1, <1>6 DEF TypeOK, ToldOfEnd
  <2> QED
    BY <1>1, <1>2, <1>3, <1>6, <2>1 DEF BeginWrite
<1>7. ASSUME unanswered' = unanswered \ Ids(cur), pc' = "next", Taken,
             UNCHANGED <<input, inbound, told, other, deferred, writing>>
      PROVE  IInv'
  <2>1. /\ inbound' \in 0 .. MaxInbound /\ told' \in BOOLEAN
        /\ (told' => remote # "open" /\ inbound' = 0)
        /\ rest' \in Seq(Commands \cup {Interrupt})
        /\ back' \in {"next", "top", "dispatch"} /\ stalls' \in 0 .. MaxStalls
    BY <1>1, <1>7 DEF TypeOK, ToldOfEnd, writing
  <2>2. unanswered' \subseteq unanswered
    BY <1>7
  <2> QED
    BY <1>2, <1>7, <2>1, <2>2
<1> QED
  BY <1>4, <1>5, <1>6, <1>7 DEF Process

(* The steps of a write: each goes on with bytes at hand, or returns to    *)
(* where the write began, and may have found the end of the channel.       *)
LEMMA WriteGoesOn ==
  ASSUME IInv, pc = "write",
         \/ /\ pc' = pc /\ back' = back /\ rest' # <<>>
            /\ rest' \in Seq(Commands \cup {Interrupt})
         \/ pc' = back /\ rest' = <<>> /\ back' = "top",
         stalls' \in 0 .. MaxStalls,
         inbound' \in 0 .. MaxInbound, told' \in BOOLEAN,
         told' => remote # "open" /\ inbound' = 0,
         typed' \in 0 .. MaxSent,
         UNCHANGED <<input, remote, size, missed, taken, unanswered, late>>
  PROVE  IInv'
<1>1. rest' \in Seq(Commands \cup {Interrupt})
  BY Empty
<1>2. back' \in {"top", "dispatch", "next"}
  BY DEF IInv, TypeOK
<1>3. pc' \in {"write", "top", "dispatch", "next"}
  BY DEF IInv, TypeOK
<1>4. UNCHANGED <<queue, interrupts, resizes, held, cols, sent, given, remote,
                  size, missed, cur, other, deferred, unanswered, late>>
  BY DEF input, owner, taken
<1>5. TypeOK'
  BY <1>1, <1>2, <1>3, <1>4 DEF IInv, TypeOK
<1>6. AtHand'
  <2>1. back \in {"top", "dispatch", "next"}
    BY DEF IInv, TypeOK
  <2>2. cur' = cur /\ (back = "dispatch" => cur # <<>>)
    BY <1>4 DEF IInv, AtHand
  <2>3. pc' = "write" => rest' # <<>> /\ back' = back
    BY <2>1
  <2>4. pc' = "dispatch" => back = "dispatch"
    BY <2>1
  <2> QED
    BY <1>3, <2>2, <2>3, <2>4 DEF AtHand
<1> QED
  BY <1>3, <1>4, <1>5, <1>6
  DEF IInv, ToldOfEnd, OvertakenOnce, NoSilentEnd

LEMMA WriteSomeStep == ASSUME IInv, WriteSome PROVE IInv'
<1> USE Bounds
<1>1. /\ pc = "write" /\ rest # <<>> /\ TypeOK /\ ToldOfEnd
      /\ UNCHANGED <<input, remote, size, missed, taken, unanswered, late>>
  BY DEF WriteSome, IInv, AtHand
<1>2. rest \in Seq(Commands \cup {Interrupt})
  BY <1>1 DEF TypeOK
<1>3. typed' \in 0 .. MaxSent
  <2>1. Head(rest) \in Commands \cup {Interrupt}
    BY <1>1, <1>2, HeadTail
  <2>2. ASSUME NEW c \in Commands PROVE c.id \in 0 .. MaxSent
    BY DEF Commands
  <2>3. Interrupt.kind # "input"
    BY DEF Interrupt
  <2>4. typed \in 0 .. MaxSent
    BY <1>1 DEF TypeOK
  <2>5. typed' = IF Head(rest).kind = "input" THEN Head(rest).id ELSE typed
    BY DEF WriteSome
  <2> QED
    BY <2>1, <2>2, <2>3, <2>4, <2>5
<1>4. ASSUME EndWrite, UNCHANGED <<inbound, told>> PROVE IInv'
  <2>1. /\ stalls' \in 0 .. MaxStalls /\ inbound' \in 0 .. MaxInbound
        /\ told' \in BOOLEAN /\ (told' => remote # "open" /\ inbound' = 0)
    BY <1>1, <1>4 DEF TypeOK, ToldOfEnd, EndWrite
  <2> QED
    BY <1>1, <1>3, <1>4, <2>1, WriteGoesOn DEF EndWrite
<1>5. ASSUME Len(rest) > 1, ReadOk \/ ReadEnd, rest' = Tail(rest),
             stalls' = 0, UNCHANGED <<pc, back>>
      PROVE  IInv'
  <2>1. /\ inbound' \in 0 .. MaxInbound /\ told' \in BOOLEAN
        /\ (told' => remote # "open" /\ inbound' = 0)
    <3>1. remote' = remote
      BY <1>1
    <3> QED
      BY <1>1, <1>5, <3>1, Reads
  <2>2. rest' \in Seq(Commands \cup {Interrupt}) /\ rest' # <<>>
    BY <1>1, <1>2, <1>5, Remains
  <2>3. stalls' \in 0 .. MaxStalls
    BY <1>5
  <2> QED
    BY <1>1, <1>3, <1>5, <2>1, <2>2, <2>3, WriteGoesOn
<1> QED
  BY <1>4, <1>5 DEF WriteSome

LEMMA WriteBlockedStep == ASSUME IInv, WriteBlocked PROVE IInv'
<1> USE Bounds
<1>1. /\ pc = "write" /\ rest # <<>> /\ TypeOK /\ ToldOfEnd
      /\ UNCHANGED <<input, remote, size, missed, taken, history>>
  BY DEF WriteBlocked, IInv, AtHand
<1>2. /\ UNCHANGED <<unanswered, late>>
      /\ typed' \in 0 .. MaxSent
      /\ rest \in Seq(Commands \cup {Interrupt})
  BY <1>1 DEF TypeOK, history
<1>3. /\ inbound' \in 0 .. MaxInbound /\ told' \in BOOLEAN
      /\ (told' => remote # "open" /\ inbound' = 0)
  <2>1. remote' = remote /\ (ReadOk \/ ReadEnd)
    BY <1>1 DEF WriteBlocked
  <2> QED
    BY <1>1, <2>1, Reads
<1>4. ASSUME stalls < MaxStalls, stalls' = stalls + 1,
             UNCHANGED <<pc, rest, back>>
      PROVE  IInv'
  <2>1. stalls' \in 0 .. MaxStalls
    BY <1>1, <1>4 DEF TypeOK
  <2> QED
    BY <1>1, <1>2, <1>3, <1>4, <2>1, WriteGoesOn
<1>5. ASSUME EndWrite PROVE IInv'
  <2>1. stalls' \in 0 .. MaxStalls
    BY <1>5 DEF EndWrite
  <2> QED
    BY <1>1, <1>2, <1>3, <1>5, <2>1, WriteGoesOn DEF EndWrite
<1> QED
  BY <1>4, <1>5 DEF WriteBlocked

LEMMA WriteFailsStep == ASSUME IInv, WriteFails PROVE IInv'
<1> USE Bounds
<1>1. /\ pc = "write" /\ TypeOK /\ ToldOfEnd /\ EndWrite
      /\ UNCHANGED <<input, channel, taken, history>>
  BY DEF WriteFails, IInv
<1>2. /\ UNCHANGED <<remote, size, missed, unanswered, late>>
      /\ stalls' \in 0 .. MaxStalls /\ inbound' \in 0 .. MaxInbound
      /\ told' \in BOOLEAN /\ (told' => remote # "open" /\ inbound' = 0)
      /\ typed' \in 0 .. MaxSent
  BY <1>1 DEF TypeOK, ToldOfEnd, EndWrite, channel, history
<1> QED
  BY <1>1, <1>2, WriteGoesOn DEF EndWrite

(* The next command is the one put aside by Join, one of the queue, or the *)
(* one put aside by Merge.                                                 *)
LEMMA TakeNextStep == ASSUME IInv, TakeNext PROVE IInv'
<1> USE Bounds
<1>1. TypeOK
  BY DEF IInv
<1>2. ASSUME pc = "next", cur' \in Seq(Commands), Len(cur') <= 1,
             queue' \in Seq(Commands), Len(queue') <= QueueCap,
             deferred' \in Seq(Commands), Len(deferred') <= 1,
             other' \in Seq(Commands), Len(other') <= 1,
             pc' = IF cur' = <<>> THEN "top" ELSE "dispatch",
             UNCHANGED <<interrupts, resizes, owner, channel, writing, history>>
      PROVE  IInv'
  <2>1. UNCHANGED <<interrupts, resizes, held, cols, sent, given, remote,
                    inbound, size, missed, told, rest, back, stalls, typed,
                    unanswered, late>>
    BY <1>2 DEF owner, channel, writing, history
  <2>2. TypeOK'
    BY <1>1, <1>2, <2>1 DEF TypeOK
  <2> QED
    BY <1>2, <2>1, <2>2 DEF IInv, AtHand, ToldOfEnd, OvertakenOnce, NoSilentEnd
<1>3. /\ queue \in Seq(Commands) /\ Len(queue) <= QueueCap
      /\ deferred \in Seq(Commands) /\ Len(deferred) <= 1
      /\ other \in Seq(Commands) /\ Len(other) <= 1
      /\ <<>> \in Seq(Commands) /\ Len(<<>>) = 0
  BY <1>1, Empty DEF TypeOK
<1>4. CASE NextIs(deferred, queue, <<>>, other)
  BY <1>2, <1>3, <1>4 DEF NextIs
<1>5. CASE queue # <<>> /\ NextIs(<<Head(queue)>>, Tail(queue), <<>>, other)
  <2>1. /\ <<Head(queue)>> \in Seq(Commands) /\ Len(<<Head(queue)>>) = 1
        /\ Tail(queue) \in Seq(Commands) /\ Len(Tail(queue)) <= QueueCap
    BY <1>3, <1>5, HeadTail, One
  <2> QED
    BY <1>2, <1>3, <1>5, <2>1 DEF NextIs
<1>6. CASE NextIs(other, <<>>, <<>>, <<>>)
  BY <1>2, <1>3, <1>6 DEF NextIs
<1> QED
  BY <1>4, <1>5, <1>6 DEF TakeNext

-----------------------------------------------------------------------------
LEMMA Stutter == ASSUME IInv, UNCHANGED vars PROVE IInv'
BY DEF IInv, TypeOK, AtHand, ToldOfEnd, OvertakenOnce, NoSilentEnd, vars,
       input, owner, channel, pump, taken, writing, history

(* The conjunction of all of the above holds of every reachable state.     *)
THEOREM Invariant == Spec => []IInv
<1>1. Init => IInv
  BY InitInvariant
<1>2. ASSUME IInv, [Next]_vars PROVE IInv'
  <2>1. ASSUME Pump PROVE IInv'
    BY <1>2, <2>1, TopStep, TakeStep, IdleReadStep, SendersGoneStep, MergeStep,
       DispatchStep, JoinStep, ProcessStep, WriteSomeStep, WriteBlockedStep,
       WriteFailsStep, TakeNextStep DEF Pump
  <2> QED
    BY <1>2, <2>1, OutsideStep, Stutter DEF Next
<1> QED
  BY <1>1, <1>2, PTL DEF Spec

(* Queues and merged chunks never pass their capacities, and at most one   *)
(* command is put aside at a time (SHELL_PUMP_QUEUE_CAP, RESIZE_QUEUE_CAP, *)
(* PTY_INPUT_COALESCE_CAP).                                                *)
THEOREM PumpTypeCorrect == Spec => []TypeOK
BY Invariant, PTL DEF IInv

(* A pump that has ended has told the tab so, or nobody held it any more.  *)
THEOREM PumpEndTold == Spec => []NoSilentEnd
BY Invariant, PTL DEF IInv

(* The end of the session is told after all the output that had arrived.   *)
THEOREM OutputFirst == Spec => []AllOutputFirst
<1>1. IInv => AllOutputFirst
  BY DEF IInv, ToldOfEnd, AllOutputFirst
<1> QED
  BY Invariant, <1>1, PTL

(* An interrupt is overtaken by one command at most.                       *)
THEOREM InterruptPasses == Spec => []InterruptSoon
<1>1. IInv => InterruptSoon
  BY DEF IInv, OvertakenOnce, InterruptSoon
<1> QED
  BY Invariant, <1>1, PTL

-----------------------------------------------------------------------------
(* No exec is forgotten: one that has no answer yet is in the queue, taken,*)
(* or put aside.  The invariant says what kinds of commands are merged,    *)
(* and when nothing is put aside, so that nothing is overwritten.          *)

Execs(c) == {c[i].id : i \in {j \in DOMAIN c : c[j].kind = "exec"}}
AllOf(c, kind) == \A i \in DOMAIN c : c[i].kind = kind

KindsFit ==
  /\ pc = "merge" => AllOf(cur, "input")
  /\ pc = "join" => AllOf(cur, "zmodem")
  /\ \E kind \in Kinds : AllOf(cur, kind)
  /\ pc \in {"top", "take", "next", "done"} => cur = <<>>
  /\ pc = "write" /\ back # "dispatch" => cur = <<>>
  /\ pc \in {"top", "take", "merge", "dispatch", "join", "done"} => deferred = <<>>
  /\ pc = "write" /\ back # "next" => deferred = <<>>
  /\ pc \in {"top", "take", "merge", "done"} => other = <<>>
  /\ pc = "write" /\ back = "top" => other = <<>>

NoExecForgotten ==
  unanswered \subseteq Execs(queue) \cup Execs(cur) \cup Execs(other) \cup Execs(deferred)

ExecInv == KindsFit /\ NoExecForgotten

LEMMA EmptyHasNone ==
  Execs(<<>>) = {} /\ \A kind : AllOf(<<>>, kind)
BY DEF Execs, AllOf

LEMMA ExecsOfOne ==
  ASSUME NEW e
  PROVE  /\ Execs(<<e>>) = IF e.kind = "exec" THEN {e.id} ELSE {}
         /\ AllOf(<<e>>, e.kind)
<1>1. DOMAIN <<e>> = {1} /\ <<e>>[1] = e
  OBVIOUS
<1> QED
  BY <1>1 DEF Execs, AllOf

LEMMA ExecsOfTail ==
  ASSUME NEW c \in Seq(Commands), c # <<>>
  PROVE  Execs(c) \subseteq Execs(<<Head(c)>>) \cup Execs(Tail(c))
<1> DEFINE t == Tail(c)
           n == Len(c)
<1>1. /\ DOMAIN c = 1 .. n /\ n \in Nat /\ n > 0 /\ DOMAIN t = 1 .. (n - 1)
      /\ \A i \in 1 .. (n - 1) : t[i] = c[i + 1]
      /\ Head(c) = c[1]
  OBVIOUS
<1> HIDE DEF t, n
<1>2. ASSUME NEW i \in 1 .. n, c[i].kind = "exec"
      PROVE  c[i].id \in Execs(<<c[1]>>) \cup Execs(t)
  <2>1. CASE i = 1
    BY <1>2, <2>1, ExecsOfOne
  <2>2. CASE i # 1
    <3>1. i - 1 \in DOMAIN t /\ t[i - 1] = c[i]
      BY <1>1, <2>2
    <3> QED
      BY <1>2, <3>1 DEF Execs
  <2> QED
    BY <2>1, <2>2
<1> QED
  BY <1>1, <1>2 DEF Execs, t

LEMMA ExecsOfAppend ==
  ASSUME NEW c \in Seq(Commands), NEW e \in Commands
  PROVE  /\ Execs(c) \subseteq Execs(Append(c, e))
         /\ e.kind = "exec" => e.id \in Execs(Append(c, e))
         /\ \A kind : AllOf(c, kind) /\ e.kind = kind => AllOf(Append(c, e), kind)
<1> DEFINE a == Append(c, e)
           n == Len(c)
<1>1. /\ DOMAIN c = 1 .. n /\ n \in Nat /\ DOMAIN a = 1 .. (n + 1)
      /\ \A i \in 1 .. n : a[i] = c[i]
      /\ a[n + 1] = e
  OBVIOUS
<1> HIDE DEF a, n
<1>2. /\ \A i \in DOMAIN c : i \in DOMAIN a /\ a[i] = c[i]
      /\ n + 1 \in DOMAIN a
      /\ \A i \in DOMAIN a : i = n + 1 \/ (i \in DOMAIN c /\ a[i] = c[i])
  BY <1>1
<1>3. Execs(c) \subseteq Execs(a) /\ (e.kind = "exec" => e.id \in Execs(a))
  BY <1>1, <1>2 DEF Execs
<1>4. \A kind : AllOf(c, kind) /\ e.kind = kind => AllOf(a, kind)
  BY <1>1, <1>2 DEF AllOf
<1> QED
  BY <1>3, <1>4 DEF a

LEMMA ExecsOfKind ==
  ASSUME NEW c, NEW kind, AllOf(c, kind)
  PROVE  kind # "exec" => Execs(c) = {}
BY DEF AllOf, Execs

LEMMA SendKeepsExecs ==
  ASSUME IInv, ExecInv, NEW kind \in Kinds, Send(kind)
  PROVE  ExecInv'
<1> DEFINE e == [id |-> sent + 1, kind |-> kind]
<1>1. /\ queue' = Append(queue, e) /\ UNCHANGED <<pc, cur, other, deferred, back>>
      /\ unanswered' = IF kind = "exec" THEN unanswered \cup {sent + 1} ELSE unanswered
  BY DEF Send, pump, taken, writing
<1>2. e \in Commands /\ queue \in Seq(Commands)
  BY Bounds DEF Send, IInv, TypeOK, Commands
<1>3. Execs(queue) \subseteq Execs(queue') /\ (kind = "exec" => sent + 1 \in Execs(queue'))
  BY <1>1, <1>2, ExecsOfAppend
<1> QED
  BY <1>1, <1>3 DEF ExecInv, KindsFit, NoExecForgotten

LEMMA ExitKeepsExecs ==
  ASSUME Exit
  PROVE  ExecInv'
BY EmptyHasNone DEF Exit, ExecInv, KindsFit, NoExecForgotten, Kinds

(* Commands stay where they are.                                           *)
LEMMA PlacesStay ==
  ASSUME ExecInv, UNCHANGED <<queue, cur, other, deferred, unanswered>>, KindsFit'
  PROVE  ExecInv'
BY DEF ExecInv, NoExecForgotten

LEMMA TopKeepsExecs ==
  ASSUME ExecInv, Top
  PROVE  ExecInv'
<1>1. UNCHANGED <<queue, cur, other, deferred, unanswered>>
  BY DEF Top, TopWith, TakeInterrupt, owner, taken, history
<1>2. pc = "top" /\ (pc' = "take" \/ (pc' = "write" /\ back' = "top"))
  BY DEF Top, TopWith, TakeInterrupt, BeginWrite
<1> QED
  BY <1>1, <1>2, PlacesStay DEF ExecInv, KindsFit

LEMMA DispatchKeepsExecs ==
  ASSUME IInv, ExecInv, Dispatch
  PROVE  ExecInv'
<1>1. UNCHANGED <<queue, cur, other, deferred, unanswered>>
  BY DEF Dispatch, TakeInterrupt, input, owner, taken, history
<1>2. CASE pc' = "write" /\ back' = "dispatch"
  BY <1>1, <1>2, PlacesStay DEF Dispatch, ExecInv, KindsFit
<1>3. CASE pc' = IF Head(cur).kind = "zmodem" THEN "join" ELSE "process"
  <2>1. pc = "dispatch" /\ cur # <<>> /\ cur \in Seq(Commands)
    BY DEF Dispatch, IInv, AtHand, TypeOK
  <2>2. 1 \in DOMAIN cur /\ Head(cur) = cur[1]
    BY <2>1
  <2>3. Head(cur).kind = "zmodem" => AllOf(cur, "zmodem")
    BY <2>2 DEF ExecInv, KindsFit, AllOf
  <2> QED
    BY <1>1, <1>3, <2>1, <2>3, PlacesStay DEF ExecInv, KindsFit
<1> QED
  BY <1>2, <1>3 DEF Dispatch, TakeInterrupt, BeginWrite

(* The oldest of the queue is taken when nothing else is.                  *)
LEMMA OldestIsTaken ==
  ASSUME IInv, ExecInv, queue # <<>>, cur = <<>>,
         cur' = <<Head(queue)>>, queue' = Tail(queue),
         UNCHANGED <<other, deferred, unanswered>>
  PROVE  NoExecForgotten' /\ AllOf(cur', Head(queue).kind) /\ Head(queue).kind \in Kinds
<1>1. queue \in Seq(Commands)
  BY DEF IInv, TypeOK
<1>2. Execs(queue) \subseteq Execs(cur') \cup Execs(queue')
  BY <1>1, ExecsOfTail
<1>3. Head(queue) \in Commands
  BY <1>1, HeadTail
<1> QED
  BY <1>2, <1>3, ExecsOfOne, EmptyHasNone DEF ExecInv, NoExecForgotten, Commands

LEMMA TakeKeepsExecs ==
  ASSUME IInv, ExecInv, Take
  PROVE  ExecInv'
<1>1. /\ pc = "take" /\ queue # <<>> /\ cur = <<>> /\ other = <<>> /\ deferred = <<>>
      /\ cur' = <<Head(queue)>> /\ queue' = Tail(queue)
      /\ UNCHANGED <<other, deferred, unanswered>>
      /\ pc' = IF Head(queue).kind = "input" THEN "merge" ELSE "dispatch"
  BY DEF Take, ExecInv, KindsFit, history
<1>2. NoExecForgotten' /\ AllOf(cur', Head(queue).kind) /\ Head(queue).kind \in Kinds
  BY <1>1, OldestIsTaken
<1>3. KindsFit'
  BY <1>1, <1>2 DEF KindsFit
<1> QED
  BY <1>2, <1>3 DEF ExecInv

(* One more of the same kind is merged, or another is put aside.           *)
LEMMA OneMore ==
  ASSUME IInv, ExecInv, queue # <<>>, queue' = Tail(queue), unanswered' = unanswered,
         \/ cur' = Append(cur, Head(queue)) /\ UNCHANGED <<other, deferred>>
         \/ other = <<>> /\ other' = <<Head(queue)>> /\ UNCHANGED <<cur, deferred>>
         \/ deferred = <<>> /\ deferred' = <<Head(queue)>> /\ UNCHANGED <<cur, other>>
  PROVE  NoExecForgotten'
<1>1. queue \in Seq(Commands) /\ cur \in Seq(Commands) /\ Head(queue) \in Commands
  BY HeadTail DEF IInv, TypeOK
<1>2. Execs(queue) \subseteq Execs(<<Head(queue)>>) \cup Execs(queue')
  BY <1>1, ExecsOfTail
<1>3. Execs(cur) \cup Execs(<<Head(queue)>>) \subseteq Execs(Append(cur, Head(queue)))
  BY <1>1, ExecsOfAppend, ExecsOfOne
<1> QED
  BY <1>2, <1>3, EmptyHasNone DEF ExecInv, NoExecForgotten

LEMMA MergeKeepsExecs ==
  ASSUME IInv, ExecInv, Merge
  PROVE  ExecInv'
<1>1. /\ pc = "merge" /\ AllOf(cur, "input") /\ deferred = <<>> /\ other = <<>>
      /\ UNCHANGED <<deferred, back, unanswered>>
      /\ queue \in Seq(Commands) /\ cur \in Seq(Commands)
  BY DEF Merge, MergeInputs, ExecInv, KindsFit, writing, history, IInv, TypeOK
<1>2. CASE /\ queue # <<>> /\ Head(queue).kind = "input" /\ cur' = Append(cur, Head(queue))
           /\ queue' = Tail(queue) /\ UNCHANGED <<pc, other>>
  <2>1. NoExecForgotten'
    BY <1>1, <1>2, OneMore
  <2>2. AllOf(cur', "input")
    BY <1>1, <1>2, HeadTail, ExecsOfAppend
  <2> QED
    BY <1>1, <1>2, <2>1, <2>2 DEF ExecInv, KindsFit, Kinds
<1>3. CASE /\ queue # <<>> /\ other' = <<Head(queue)>> /\ queue' = Tail(queue)
           /\ pc' = "dispatch" /\ cur' = cur
  <2>1. NoExecForgotten'
    BY <1>1, <1>3, OneMore
  <2> QED
    BY <1>1, <1>3, <2>1 DEF ExecInv, KindsFit
<1>4. CASE pc' = "dispatch" /\ UNCHANGED <<cur, queue, other>>
  BY <1>1, <1>4, PlacesStay DEF ExecInv, KindsFit
<1> QED
  BY <1>2, <1>3, <1>4 DEF Merge, MergeInputs

LEMMA JoinKeepsExecs ==
  ASSUME IInv, ExecInv, Join
  PROVE  ExecInv'
<1>1. /\ pc = "join" /\ AllOf(cur, "zmodem") /\ deferred = <<>>
      /\ UNCHANGED <<other, back, unanswered>>
      /\ queue \in Seq(Commands) /\ cur \in Seq(Commands)
  BY DEF Join, ExecInv, KindsFit, writing, history, IInv, TypeOK
<1>2. CASE /\ queue # <<>> /\ Head(queue).kind = "zmodem" /\ cur' = Append(cur, Head(queue))
           /\ queue' = Tail(queue) /\ UNCHANGED <<pc, deferred>>
  <2>1. NoExecForgotten'
    BY <1>1, <1>2, OneMore
  <2>2. AllOf(cur', "zmodem")
    BY <1>1, <1>2, HeadTail, ExecsOfAppend
  <2> QED
    BY <1>1, <1>2, <2>1, <2>2 DEF ExecInv, KindsFit, Kinds
<1>3. CASE /\ queue # <<>> /\ deferred' = <<Head(queue)>> /\ queue' = Tail(queue)
           /\ pc' = "process" /\ cur' = cur
  <2>1. NoExecForgotten'
    BY <1>1, <1>3, OneMore
  <2> QED
    BY <1>1, <1>3, <2>1 DEF ExecInv, KindsFit
<1>4. CASE pc' = "process" /\ UNCHANGED <<cur, queue, deferred>>
  BY <1>1, <1>4, PlacesStay DEF ExecInv, KindsFit
<1> QED
  BY <1>2, <1>3, <1>4 DEF Join

LEMMA ProcessKeepsExecs ==
  ASSUME IInv, ExecInv, Process
  PROVE  ExecInv'
<1>1. pc = "process" /\ cur # <<>> /\ cur \in Seq(Commands)
  BY DEF Process, IInv, AtHand, TypeOK
<1>2. 1 \in DOMAIN cur /\ Head(cur) = cur[1]
  BY <1>1
<1>3. AllOf(cur, Head(cur).kind)
  BY <1>2 DEF ExecInv, KindsFit, AllOf
<1>4. CASE Exit
  BY <1>4, ExitKeepsExecs
<1>5. CASE /\ Head(cur).kind # "exec" /\ pc' = "write" /\ back' = "next" /\ cur' = <<>>
           /\ UNCHANGED <<queue, other, deferred, unanswered>>
  <2>1. Execs(cur) = {}
    BY <1>3, <1>5, ExecsOfKind
  <2> QED
    BY <1>5, <2>1, EmptyHasNone DEF ExecInv, KindsFit, NoExecForgotten, Kinds
<1>6. CASE /\ unanswered' = unanswered \ Ids(cur) /\ pc' = "next" /\ cur' = <<>>
           /\ UNCHANGED <<queue, other, deferred>>
  <2>1. Execs(cur) \subseteq Ids(cur)
    BY DEF Execs, Ids
  <2> QED
    BY <1>6, <2>1, EmptyHasNone DEF ExecInv, KindsFit, NoExecForgotten, Kinds
<1> QED
  BY <1>4, <1>5, <1>6 DEF Process, BeginWrite, Taken, input

LEMMA WriteKeepsExecs ==
  ASSUME IInv, ExecInv, WriteSome \/ WriteBlocked \/ WriteFails
  PROVE  ExecInv'
<1>1. pc = "write" /\ UNCHANGED <<queue, cur, other, deferred, unanswered>>
  BY DEF WriteSome, WriteBlocked, WriteFails, input, taken, history
<1>2. CASE UNCHANGED <<pc, back>>
  BY <1>1, <1>2, PlacesStay DEF ExecInv, KindsFit
<1>3. CASE EndWrite
  <2>1. back \in {"top", "dispatch", "next"} /\ pc' = back
    BY <1>3 DEF EndWrite, IInv, TypeOK
  <2> QED
    BY <1>1, <2>1, PlacesStay DEF ExecInv, KindsFit
<1> QED
  BY <1>2, <1>3 DEF WriteSome, WriteBlocked, WriteFails

LEMMA NextKeepsExecs ==
  ASSUME IInv, ExecInv, TakeNext
  PROVE  ExecInv'
<1>1. pc = "next" /\ cur = <<>> /\ unanswered' = unanswered /\ queue \in Seq(Commands)
  BY DEF TakeNext, NextIs, ExecInv, KindsFit, history, IInv, TypeOK
<1>2. \A c \in Seq(Commands) : Len(c) <= 1 => \E kind \in Kinds : AllOf(c, kind)
  <2> SUFFICES ASSUME NEW c \in Seq(Commands), Len(c) <= 1
               PROVE  \E kind \in Kinds : AllOf(c, kind)
    OBVIOUS
  <2>1. CASE c = <<>>
    BY <2>1, EmptyHasNone DEF Kinds
  <2>2. CASE c # <<>>
    <3>1. Len(c) \in Nat /\ Len(c) > 0
      BY <2>2, HeadTail
    <3>2. \A n \in Nat : n > 0 /\ n <= 1 => n = 1
      OBVIOUS
    <3>3. Len(c) = 1
      BY <3>1, <3>2, Zenon
    <3>4. DOMAIN c = 1 .. 1 /\ c[1] \in Commands
      BY <3>3
    <3> QED
      BY <3>4 DEF AllOf, Commands
  <2> QED
    BY <2>1, <2>2
<1>3. /\ deferred \in Seq(Commands) /\ Len(deferred) <= 1
      /\ other \in Seq(Commands) /\ Len(other) <= 1
  BY DEF IInv, TypeOK
<1>4. CASE deferred # <<>> /\ NextIs(deferred, queue, <<>>, other)
  BY <1>1, <1>2, <1>3, <1>4, EmptyHasNone
     DEF NextIs, ExecInv, KindsFit, NoExecForgotten
<1>5. CASE deferred = <<>> /\ queue # <<>> /\ NextIs(<<Head(queue)>>, Tail(queue), <<>>, other)
  <2>1. /\ cur' = <<Head(queue)>> /\ queue' = Tail(queue) /\ deferred' = <<>>
        /\ other' = other /\ pc' = "dispatch"
    BY <1>5 DEF NextIs
  <2>2. NoExecForgotten' /\ AllOf(cur', Head(queue).kind) /\ Head(queue).kind \in Kinds
    BY <1>1, <1>5, <2>1, OldestIsTaken
  <2> QED
    BY <2>1, <2>2 DEF ExecInv, KindsFit
<1>6. CASE deferred = <<>> /\ queue = <<>> /\ NextIs(other, <<>>, <<>>, <<>>)
  BY <1>1, <1>2, <1>3, <1>6, EmptyHasNone
     DEF NextIs, ExecInv, KindsFit, NoExecForgotten
<1> QED
  BY <1>4, <1>5, <1>6 DEF TakeNext

LEMMA ExecStep ==
  ASSUME IInv, ExecInv, [Next]_vars
  PROVE  ExecInv'
<1>1. CASE SendInterrupt \/ Resize \/ DropHandle \/ Output \/ Eof \/ Break \/ UNCHANGED vars
  <2>1. UNCHANGED <<queue, cur, other, deferred, unanswered, pc, back>>
    BY <1>1 DEF SendInterrupt, Resize, DropHandle, Output, Eof, Break, vars, input, pump,
       taken, writing, history
  <2> QED
    BY <2>1 DEF ExecInv, KindsFit, NoExecForgotten
<1>2. CASE IdleRead \/ SendersGone
  <2>1. CASE Exit
    BY <2>1, ExitKeepsExecs
  <2>2. CASE pc = "take" /\ pc' = "top" /\ UNCHANGED <<input, taken, writing, unanswered>>
    BY <2>2, PlacesStay DEF ExecInv, KindsFit, input, taken
  <2> QED
    BY <1>2, <2>1, <2>2 DEF IdleRead, SendersGone
<1> QED
  BY <1>1, <1>2, SendKeepsExecs, TopKeepsExecs, TakeKeepsExecs, MergeKeepsExecs,
     DispatchKeepsExecs, JoinKeepsExecs, ProcessKeepsExecs, WriteKeepsExecs,
     NextKeepsExecs DEF Next, Pump

(* The caller of an exec or a session job never waits for a command that   *)
(* is nowhere: until it is answered it is in the queue, in the pump's      *)
(* hand, or put aside by a merge, through every interrupt, blocked or      *)
(* failed write; when the pump ends, its answer channel is closed.         *)
THEOREM ExecsAreKept == Spec => []NoExecForgotten
<1>1. Init => ExecInv
  BY EmptyHasNone DEF Init, ExecInv, KindsFit, NoExecForgotten, Kinds
<1>2. IInv /\ ExecInv /\ [Next]_vars => ExecInv'
  BY ExecStep
<1>3. ExecInv => NoExecForgotten
  BY DEF ExecInv
<1> QED
  BY Invariant, <1>1, <1>2, <1>3, PTL DEF Spec
=============================================================================
