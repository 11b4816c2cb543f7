------------------------------ MODULE ShellPump ------------------------------
(***************************************************************************)
(* The shell pump of an SSH session (src/src/ssh/manager.rs): the one      *)
(* thread that reads and writes the pseudo terminal of the remote host,    *)
(* fed by three bounded queues (commands, interrupts, sizes) and reporting *)
(* to the tab through a channel of messages.                               *)
(*                                                                         *)
(* The window, the transfer threads and the remote host act between any    *)
(* two steps of the pump.  One step of the pump is one try_recv, one read  *)
(* of all that has arrived, or one write.  A chunk of bytes is opaque; the *)
(* caps on merged chunks and on reads are counted in chunks.               *)
(***************************************************************************)
EXTENDS Integers, Sequences

CONSTANTS
  QueueCap,      \* SHELL_PUMP_QUEUE_CAP
  InterruptCap,  \* capacity of the queue of interrupts
  ResizeCap,     \* RESIZE_QUEUE_CAP
  MergeCap,      \* PTY_INPUT_COALESCE_CAP, ZMODEM_WRITE_COALESCE_CAP
  ReadCap,       \* DEFAULT_READ_BYTES_PER_CALL
  MaxStalls,     \* MAX_NO_PROGRESS
  MaxSent, MaxInterrupts, MaxResizes, MaxInbound  \* bounds of the model

ASSUME PumpAssumption ==
  /\ {QueueCap, InterruptCap, ResizeCap, MergeCap, ReadCap} \subseteq Nat \ {0}
  /\ {MaxStalls, MaxSent, MaxInterrupts, MaxResizes, MaxInbound} \subseteq Nat

VARIABLES
  queue,       \* pump_rx: the commands accepted
  interrupts,  \* interrupt_rx: how many wait
  resizes,     \* resize_rx
  held,        \* somebody holds the session handle: the senders exist
  cols,        \* size of the terminal in the window
  remote,      \* the channel as the remote host and the network leave it
  inbound,     \* chunks of output that have arrived and are not read
  size,        \* size of the remote pseudo terminal
  missed,      \* history: newest size a full queue or the channel refused
  pc,          \* where the pump thread is
  cur,         \* the command taken, with those merged into it
  other,       \* the command that ended the merging of inputs
  deferred,    \* the command that ended the merging of ZMODEM writes
  rest,        \* what is left of the write under way
  back,        \* what follows that write: "top", "dispatch" or "next"
  stalls,      \* no_progress
  told,        \* a Disconnected message was sent
  sent,        \* history: commands accepted
  typed,       \* history: the input written last
  unanswered,  \* history: exec and session jobs accepted and not run
  late,        \* history: commands begun since an interrupt waits
  given        \* history: interrupts accepted

owner == <<held, cols, sent, given>>
input == <<queue, interrupts, resizes, owner>>
taken == <<cur, other, deferred>>
writing == <<rest, back, stalls>>
pump == <<pc, taken, writing>>
channel == <<remote, inbound, size, missed, told>>
history == <<typed, unanswered, late>>
vars == <<input, channel, pump, history>>

Kinds == {"input", "zmodem", "exec"}
Commands == [id : 1 .. MaxSent, kind : Kinds]
(* A chunk from the queue of interrupts.                                   *)
Interrupt == [id |-> 0, kind |-> "interrupt"]

TypeOK ==
  /\ queue \in Seq(Commands) /\ Len(queue) <= QueueCap
  /\ interrupts \in 0 .. InterruptCap
  /\ resizes \in Seq(0 .. MaxResizes) /\ Len(resizes) <= ResizeCap
  /\ held \in BOOLEAN /\ {cols, size, missed} \subseteq 0 .. MaxResizes
  /\ remote \in {"open", "eof", "broken"}
  /\ inbound \in 0 .. MaxInbound
  /\ pc \in {"top", "take", "merge", "dispatch", "join", "process",
             "write", "next", "done"}
  /\ cur \in Seq(Commands) /\ Len(cur) <= MergeCap
  /\ other \in Seq(Commands) /\ Len(other) <= 1
  /\ deferred \in Seq(Commands) /\ Len(deferred) <= 1
  /\ rest \in Seq(Commands \cup {Interrupt})
  /\ back \in {"top", "dispatch", "next"}
  /\ stalls \in 0 .. MaxStalls
  /\ told \in BOOLEAN
  /\ sent \in 0 .. MaxSent
  /\ typed \in 0 .. MaxSent
  /\ unanswered \subseteq 1 .. MaxSent
  /\ late \in Nat
  /\ given \in 0 .. MaxInterrupts

(* spawn_shell_pump, on the channel start_interactive_shell opened.        *)
Init ==
  /\ queue = <<>> /\ interrupts = 0 /\ resizes = <<>> /\ held = TRUE
  /\ cols = 0 /\ size = 0 /\ missed = 0
  /\ remote = "open" /\ inbound = 0
  /\ pc = "top" /\ cur = <<>> /\ other = <<>> /\ deferred = <<>>
  /\ rest = <<>> /\ back = "top" /\ stalls = 0
  /\ told = FALSE
  /\ sent = 0 /\ given = 0
  /\ typed = 0 /\ unanswered = {} /\ late = 0

-----------------------------------------------------------------------------
(* The senders.  A call that finds its queue full, or the pump gone,       *)
(* changes nothing here and returns an error.                              *)

(* send_input, send_zmodem, enqueue_remote_exec, enqueue_session_job.      *)
Send(kind) ==
  /\ held /\ pc # "done"
  /\ sent < MaxSent /\ Len(queue) < QueueCap
  /\ sent' = sent + 1
  /\ queue' = Append(queue, [id |-> sent', kind |-> kind])
  /\ unanswered' = IF kind = "exec" THEN unanswered \cup {sent'} ELSE unanswered
  /\ UNCHANGED <<interrupts, resizes, held, cols, given, channel, pump,
                 typed, late>>

(* send_priority_interrupt                                                 *)
SendInterrupt ==
  /\ held /\ pc # "done"
  /\ given < MaxInterrupts /\ interrupts < InterruptCap
  /\ interrupts' = interrupts + 1
  /\ given' = given + 1
  /\ UNCHANGED <<queue, resizes, held, cols, sent, channel, pump, history>>

(* The terminal of the window changes its size and tells the pump.  A size *)
(* that finds the queue full is lost: the terminal has noted it already    *)
(* and compares with that from then on.                                    *)
Resize ==
  /\ held /\ cols < MaxResizes
  /\ cols' = cols + 1
  /\ \/ /\ pc # "done" /\ Len(resizes) < ResizeCap
        /\ resizes' = Append(resizes, cols')
        /\ UNCHANGED missed
     \/ /\ pc # "done" /\ Len(resizes) >= ResizeCap
        /\ missed' = cols'
        /\ UNCHANGED resizes
     \/ pc = "done" /\ UNCHANGED <<resizes, missed>>
  /\ UNCHANGED <<queue, interrupts, held, sent, given, remote, inbound, size,
                 told, pump, history>>

(* The last handle goes: the tab disconnects or is closed.                 *)
DropHandle ==
  /\ held
  /\ held' = FALSE
  /\ UNCHANGED <<queue, interrupts, resizes, cols, sent, given, channel, pump,
                 history>>

-----------------------------------------------------------------------------
(* The remote host and the network                                         *)

Output ==
  /\ remote = "open" /\ inbound < MaxInbound
  /\ inbound' = inbound + 1
  /\ UNCHANGED <<input, remote, size, missed, pump, told, history>>

(* The remote shell ends.                                                  *)
Eof ==
  /\ remote = "open"
  /\ remote' = "eof"
  /\ UNCHANGED <<input, inbound, size, missed, pump, told, history>>

(* The connection breaks; what has arrived may be lost with it.            *)
Break ==
  /\ remote = "open"
  /\ remote' = "broken"
  /\ inbound' \in {inbound, 0}
  /\ UNCHANGED <<input, size, missed, pump, told, history>>

-----------------------------------------------------------------------------
(* pump_channel_reads: everything that has arrived goes to the tab, up to  *)
(* the cap; then the channel is seen to be open, ended or broken.          *)

ReadOk ==
  /\ inbound >= ReadCap \/ remote = "open"
  /\ inbound' = IF inbound < ReadCap THEN 0 ELSE inbound - ReadCap
  /\ UNCHANGED told

(* Mutant: the end of the channel is reported before what came with it.    *)
ReadEndAtOnce ==
  /\ remote # "open"
  /\ told' = TRUE
  /\ UNCHANGED inbound

(* Mutant: a read error tells the user, but not that the session is over.  *)
ReadEndWithToast ==
  /\ inbound < ReadCap /\ remote # "open"
  /\ inbound' = 0
  /\ told' = (told \/ remote = "eof")

(* Disconnected is sent; a broken channel also sends an Error before.      *)
ReadEnd ==
  /\ inbound < ReadCap /\ remote # "open"
  /\ inbound' = 0
  /\ told' = TRUE

(* The thread returns: its receivers go, and with them all that is queued. *)
Exit ==
  /\ pc' = "done"
  /\ queue' = <<>> /\ interrupts' = 0 /\ resizes' = <<>>
  /\ cur' = <<>> /\ other' = <<>> /\ deferred' = <<>>
  /\ rest' = <<>> /\ back' = "top" /\ stalls' = 0 /\ late' = 0
  /\ unanswered' = {}
  /\ UNCHANGED owner

(* write_pty_with_drain begins with the chunks c.                          *)
BeginWrite(c, after) ==
  /\ pc' = "write" /\ rest' = c /\ back' = after /\ stalls' = 0

EndWrite ==
  /\ pc' = back /\ rest' = <<>> /\ back' = "top" /\ stalls' = 0

(* An interrupt that waits is taken and written, before anything else.     *)
TakeInterrupt(after) ==
  /\ interrupts > 0
  /\ interrupts' = interrupts - 1
  /\ late' = 0
  /\ BeginWrite(<<Interrupt>>, after)
  /\ UNCHANGED <<queue, resizes, owner, channel, taken, typed,
                 unanswered>>

(* The sizes are requested one after the other; request_pty_size may fail, *)
(* which is only logged.  The i-th is the last one that is granted.        *)
Requested(i) ==
  LET last == resizes[Len(resizes)]
  IN  /\ size' = IF i = 0 THEN size ELSE resizes[i]
      /\ missed' = IF i < Len(resizes) /\ last > missed THEN last ELSE missed

(* The head of the loop: interrupts first, then sizes.                     *)
TopWith(apply) ==
  /\ pc = "top"
  /\ \/ TakeInterrupt("top")
     \/ /\ interrupts = 0
        /\ \/ apply /\ \E i \in 0 .. Len(resizes) : Requested(i)
           \/ ~apply /\ UNCHANGED <<size, missed>>
        /\ resizes' = <<>>
        /\ pc' = "take"
        /\ UNCHANGED <<queue, interrupts, owner, remote, inbound, taken,
                       writing, told, history>>

(* Mutant: a pump with commands to run forgets the sizes it drains.        *)
TopForgetsSizes == TopWith(queue = <<>>)

Top == TopWith(TRUE)

(* recv_timeout finds a command.                                           *)
Take ==
  /\ pc = "take" /\ queue # <<>>
  /\ cur' = <<Head(queue)>>
  /\ queue' = Tail(queue)
  /\ pc' = IF Head(queue).kind = "input" THEN "merge" ELSE "dispatch"
  /\ UNCHANGED <<interrupts, resizes, owner, channel, other, deferred,
                 writing, history>>

(* recv_timeout finds nothing for a while: process_idle_read_sync.         *)
IdleRead ==
  /\ pc = "take" /\ queue = <<>> /\ held
  /\ \/ /\ ReadOk
        /\ pc' = "top"
        /\ UNCHANGED <<input, taken, writing, unanswered, late>>
     \/ ReadEnd /\ Exit
  /\ UNCHANGED <<remote, size, missed, typed>>

(* Mutant: a queue without senders looks like one without commands.        *)
IdleForever ==
  /\ pc = "take" /\ queue = <<>> /\ ~held
  /\ pc' = "top"
  /\ UNCHANGED <<input, channel, taken, writing, history>>

(* recv_timeout finds that all the senders are gone.                       *)
SendersGone ==
  /\ pc = "take" /\ queue = <<>> /\ ~held
  /\ Exit
  /\ UNCHANGED <<channel, typed>>

Ids(c) == {c[i].id : i \in DOMAIN c}

(* Inputs are merged up to the cap; the command of another kind that ends  *)
(* this is kept, or forgotten.                                             *)
MergeInputs(cap, keep) ==
  /\ pc = "merge"
  /\ \/ /\ Len(cur) < cap /\ queue # <<>> /\ Head(queue).kind = "input"
        /\ cur' = Append(cur, Head(queue))
        /\ queue' = Tail(queue)
        /\ UNCHANGED <<pc, other>>
     \/ /\ Len(cur) < cap /\ queue # <<>> /\ Head(queue).kind # "input"
        /\ other' = IF keep THEN <<Head(queue)>> ELSE <<>>
        /\ queue' = Tail(queue)
        /\ pc' = "dispatch"
        /\ UNCHANGED cur
     \/ /\ Len(cur) >= cap \/ queue = <<>>
        /\ pc' = "dispatch"
        /\ UNCHANGED <<cur, queue, other>>
  /\ UNCHANGED <<interrupts, resizes, owner, channel, deferred, writing,
                 history>>

(* Mutants: the cap is passed by one; the command that ends the merging is *)
(* forgotten.                                                              *)
MergePastCap == MergeInputs(MergeCap + 1, TRUE)
MergeForgets == MergeInputs(MergeCap, FALSE)

(* The inputs that follow are merged into one; a command of another kind   *)
(* is kept for after them.                                                 *)
Merge == MergeInputs(MergeCap, TRUE)

(* Mutant: the command goes before the interrupts.                         *)
DispatchAtOnce ==
  /\ pc = "dispatch"
  /\ pc' = IF Head(cur).kind = "zmodem" THEN "join" ELSE "process"
  /\ UNCHANGED <<input, channel, taken, writing, history>>

(* The head of dispatch_pump_command_coalesced: interrupts first, again.   *)
Dispatch ==
  /\ pc = "dispatch"
  /\ \/ TakeInterrupt("dispatch")
     \/ /\ interrupts = 0
        /\ pc' = IF Head(cur).kind = "zmodem" THEN "join" ELSE "process"
        /\ UNCHANGED <<input, channel, taken, writing, history>>

(* The ZMODEM writes that follow are merged into one.                      *)
Join ==
  /\ pc = "join"
  /\ \/ /\ Len(cur) < MergeCap /\ queue # <<>> /\ Head(queue).kind = "zmodem"
        /\ cur' = Append(cur, Head(queue))
        /\ queue' = Tail(queue)
        /\ UNCHANGED <<pc, deferred>>
     \/ /\ Len(cur) < MergeCap /\ queue # <<>> /\ Head(queue).kind # "zmodem"
        /\ deferred' = <<Head(queue)>>
        /\ queue' = Tail(queue)
        /\ pc' = "process"
        /\ UNCHANGED cur
     \/ /\ Len(cur) >= MergeCap \/ queue = <<>>
        /\ pc' = "process"
        /\ UNCHANGED <<cur, queue, deferred>>
  /\ UNCHANGED <<interrupts, resizes, owner, channel, other, writing,
                 history>>

(* A command that waits behind an interrupt begins all the same.           *)
Overtakes == IF interrupts > 0 THEN late + 1 ELSE 0

(* The pump is done with the command taken: it is run, or handed to a write.*)
Taken == cur' = <<>> /\ late' = Overtakes

(* process_one_command_sync: an input reads first, and ends the pump when  *)
(* the channel has ended; a ZMODEM write does not.                         *)
Process ==
  /\ pc = "process"
  /\ \/ /\ Head(cur).kind = "input"
        /\ \/ /\ ReadOk
              /\ BeginWrite(cur, "next") /\ Taken
              /\ UNCHANGED <<input, other, deferred, unanswered>>
           \/ ReadEnd /\ Exit
     \/ /\ Head(cur).kind = "zmodem"
        /\ BeginWrite(cur, "next") /\ Taken
        /\ UNCHANGED <<input, inbound, told, other, deferred, unanswered>>
     \/ /\ Head(cur).kind = "exec"
        /\ unanswered' = unanswered \ Ids(cur)
        /\ pc' = "next" /\ Taken
        /\ UNCHANGED <<input, inbound, told, other, deferred, writing>>
  /\ UNCHANGED <<remote, size, missed, typed>>

(* channel.write takes a chunk.  When more is left, the pump reads before  *)
(* it goes on, and does not mind what that read finds.                     *)
WriteSome ==
  /\ pc = "write" /\ remote # "broken"
  /\ typed' = IF Head(rest).kind = "input" THEN Head(rest).id ELSE typed
  /\ \/ /\ Len(rest) = 1
        /\ EndWrite
        /\ UNCHANGED <<inbound, told>>
     \/ /\ Len(rest) > 1
        /\ ReadOk \/ ReadEnd
        /\ rest' = Tail(rest) /\ stalls' = 0
        /\ UNCHANGED <<pc, back>>
  /\ UNCHANGED <<input, remote, size, missed, taken, unanswered, late>>

(* The window of the channel is full: the pump reads and tries again, until*)
(* the channel has ended or it has tried too often.                        *)
WriteBlocked ==
  /\ pc = "write"
  /\ \/ /\ ReadOk /\ stalls < MaxStalls
        /\ stalls' = stalls + 1
        /\ UNCHANGED <<pc, rest, back>>
     \/ ReadOk /\ stalls = MaxStalls /\ EndWrite
     \/ ReadEnd /\ EndWrite
  /\ UNCHANGED <<input, remote, size, missed, taken, history>>

(* channel.write fails.  The failure of a write is only logged: the rest   *)
(* of it is lost and the pump goes on.                                     *)
WriteFails ==
  /\ pc = "write" /\ remote # "open"
  /\ EndWrite
  /\ UNCHANGED <<input, channel, taken, history>>

(* The command c goes next, and leaves q, d and o waiting.                 *)
NextIs(c, q, d, o) ==
  /\ pc = "next"
  /\ cur' = c /\ queue' = q /\ deferred' = d /\ other' = o
  /\ pc' = IF c = <<>> THEN "top" ELSE "dispatch"
  /\ UNCHANGED <<interrupts, resizes, owner, channel, writing, history>>

(* Mutant: the next command is taken before the one that was put aside.    *)
TakeNextFirst ==
  \/ /\ queue # <<>>
     /\ NextIs(<<Head(queue)>>, Tail(queue), deferred, other)
  \/ queue = <<>> /\ deferred # <<>> /\ NextIs(deferred, queue, <<>>, other)
  \/ queue = <<>> /\ deferred = <<>> /\ NextIs(other, queue, <<>>, <<>>)

(* The rest of dispatch_pump_command_coalesced: the command put aside by   *)
(* Join, else the next of the queue, without merging inputs and looking    *)
(* for command lines in them; when there is none, the command that Merge   *)
(* had put aside, if any, however many came after it.                      *)
TakeNext ==
  \/ deferred # <<>> /\ NextIs(deferred, queue, <<>>, other)
  \/ /\ deferred = <<>> /\ queue # <<>>
     /\ NextIs(<<Head(queue)>>, Tail(queue), <<>>, other)
  \/ deferred = <<>> /\ queue = <<>> /\ NextIs(other, <<>>, <<>>, <<>>)

-----------------------------------------------------------------------------
Pump ==
  \/ Top \/ Take \/ IdleRead \/ SendersGone \/ Merge \/ Dispatch
  \/ Join \/ Process \/ WriteSome \/ WriteBlocked \/ WriteFails \/ TakeNext

Next ==
  \/ \E kind \in Kinds : Send(kind)
  \/ SendInterrupt \/ Resize \/ DropHandle
  \/ Output \/ Eof \/ Break
  \/ Pump

Spec == Init /\ [][Next]_vars

(* The operating system runs the thread of the pump, and each of its calls *)
(* returns: reads and writes do not block, an exec has a timeout.          *)
FairSpec == Spec /\ WF_vars(Pump)

-----------------------------------------------------------------------------
(* The pump ends by itself only when the channel has ended, and then the   *)
(* tab has been told: no tab stays connected to a pump that is gone        *)
(* (the comment at the read error of pump_channel_reads).                  *)
NoSilentEnd == pc = "done" => told \/ ~held

(* When the tab is told that the session has ended, it has been given all  *)
(* the output that had arrived.                                            *)
AllOutputFirst == told => inbound = 0

(* An interrupt waits for one command at most: the one being prepared.     *)
InterruptSoon == late <= 1

(* Of an exec that was accepted the caller gets an answer: it is run, or   *)
(* the pump ends and the channel of its answer is closed.                  *)
ExecAnswered == unanswered # {} ~> unanswered = {}

(* The thread does not outlive the session: when the tab lets go of it, or *)
(* the channel ends, the pump ends.                                        *)
PumpEnds == (~held \/ remote # "open") ~> pc = "done"

(* The remote terminal gets the size the window was given last: not an    *)
(* older one that overtook it, and not none because of the commands that   *)
(* are queued.  The exception is a size that is lost on the way, dropped   *)
(* by a full queue or refused by the channel: nothing sends it again.      *)
SizeApplied == \A n \in 1 .. MaxResizes :
  cols = n ~> size = n \/ cols > n \/ missed = n \/ pc = "done"

(* The numbers of the inputs among the commands c.                         *)
Inputs(c) == {c[i].id : i \in {j \in DOMAIN c : c[j].kind = "input"}}

(* The inputs not yet written.  other is never one of them.                *)
Unwritten == Inputs(rest) \cup Inputs(cur) \cup Inputs(deferred)
             \cup Inputs(queue)

Feed == INSTANCE OrderedFeed WITH waiting <- Unwritten

(* The inputs reach the remote terminal in order and at most once, however *)
(* they are merged and put aside (PTY_INPUT_COALESCE_CAP).                 *)
ImplementsFeed == Feed!Spec
=============================================================================
