--------------------------- MODULE ShellFeedProofs ---------------------------
(***************************************************************************)
(* The shell pump implements OrderedFeed, for queues, caps and bounds of   *)
(* any size: inputs reach the remote terminal in the order they were       *)
(* accepted, each at most once, however they are merged and put aside.     *)
(*                                                                         *)
(* The invariant Sorted says where inputs can be, that each of these       *)
(* places holds them in order, and that the places follow one another:     *)
(* the write under way, the command taken, the one put aside by Join, the  *)
(* queue.                                                                  *)
(***************************************************************************)
EXTENDS ShellPumpProofs

Chunks == Commands \cup {Interrupt}

NoInput(c) == \A i \in DOMAIN c : c[i].kind # "input"
OnlyInput(c) == \A i \in DOMAIN c : c[i].kind = "input"

(* The inputs in c come in the order of their numbers.                     *)
Rising(c) ==
  \A i, j \in DOMAIN c :
    i < j /\ c[i].kind = "input" /\ c[j].kind = "input" => c[i].id < c[j].id

(* All the numbers in S are smaller than those in T.                       *)
Before(S, T) == \A m \in S, n \in T : m < n

(* Where commands are, in each place of the program.                       *)
Places ==
  /\ pc # "write" => rest = <<>>
  /\ pc = "write" /\ back # "next" => NoInput(rest)
  /\ pc \in {"top", "take", "next", "done"} => cur = <<>>
  /\ pc = "write" /\ back # "dispatch" => cur = <<>>
  /\ pc \in {"top", "take", "merge", "dispatch", "join", "done"} =>
       deferred = <<>>
  /\ pc = "write" /\ back # "next" => deferred = <<>>
  /\ pc = "merge" => OnlyInput(cur)
  /\ pc = "join" => NoInput(cur)
  /\ OnlyInput(cur) \/ NoInput(cur)
  /\ OnlyInput(rest) \/ NoInput(rest)
  /\ NoInput(other)

Sorted ==
  /\ Rising(rest) /\ Rising(cur) /\ Rising(queue)
  /\ Before(Inputs(rest), Inputs(cur) \cup Inputs(deferred) \cup Inputs(queue))
  /\ Before(Inputs(cur), Inputs(deferred) \cup Inputs(queue))
  /\ Before(Inputs(deferred), Inputs(queue))
  /\ Unwritten \subseteq 1 .. sent

FInv == IInv /\ Places /\ Sorted

-----------------------------------------------------------------------------
(* Sequences of chunks and the inputs in them                              *)

LEMMA NoneInEmpty ==
  Inputs(<<>>) = {} /\ Rising(<<>>) /\ NoInput(<<>>) /\ OnlyInput(<<>>)
BY DEF Inputs, Rising, NoInput, OnlyInput

LEMMA InputsOfOne ==
  ASSUME NEW e
  PROVE  /\ Inputs(<<e>>) = IF e.kind = "input" THEN {e.id} ELSE {}
         /\ Rising(<<e>>) /\ (NoInput(<<e>>) \/ OnlyInput(<<e>>))
         /\ NoInput(<<e>>) <=> e.kind # "input"
         /\ OnlyInput(<<e>>) <=> e.kind = "input"
<1>1. DOMAIN <<e>> = {1} /\ <<e>>[1] = e
  OBVIOUS
<1> QED
  BY <1>1 DEF Inputs, Rising, NoInput, OnlyInput

LEMMA InputsAreNumbers ==
  ASSUME NEW c \in Seq(Chunks)
  PROVE  Inputs(c) \subseteq Nat
<1>1. ASSUME NEW i \in DOMAIN c, c[i].kind = "input" PROVE c[i].id \in Nat
  <2>1. c[i] \in Chunks
    OBVIOUS
  <2> QED
    BY <2>1, Bounds DEF Chunks, Commands, Interrupt
<1> QED
  BY <1>1 DEF Inputs

LEMMA InputsGone ==
  ASSUME NEW c
  PROVE  NoInput(c) => Inputs(c) = {} /\ Rising(c)
BY DEF NoInput, Inputs, Rising

LEMMA TailIndices ==
  ASSUME NEW c \in Seq(Chunks), c # <<>>
  PROVE  /\ DOMAIN c = 1 .. Len(c) /\ Len(c) \in Nat /\ Len(c) > 0
         /\ DOMAIN Tail(c) = 1 .. (Len(c) - 1)
         /\ \A i \in DOMAIN Tail(c) : Tail(c)[i] = c[i + 1]
         /\ Head(c) = c[1]
OBVIOUS

(* What becomes of the inputs when the first chunk is taken.               *)
LEMMA InputsOfTail ==
  ASSUME NEW c \in Seq(Chunks), c # <<>>, Rising(c)
  PROVE  /\ Inputs(c) = Inputs(<<Head(c)>>) \cup Inputs(Tail(c))
         /\ Before(Inputs(<<Head(c)>>), Inputs(Tail(c)))
         /\ Rising(Tail(c))
         /\ OnlyInput(c) => OnlyInput(Tail(c))
         /\ NoInput(c) => NoInput(Tail(c))
<1> DEFINE t == Tail(c)
           n == Len(c)
<1>1. /\ DOMAIN c = 1 .. n /\ n \in Nat /\ n > 0 /\ DOMAIN t = 1 .. (n - 1)
      /\ \A i \in 1 .. (n - 1) : t[i] = c[i + 1]
      /\ Head(c) = c[1]
  BY TailIndices
<1> HIDE DEF t, n
<1>2. Inputs(<<c[1]>>) = IF c[1].kind = "input" THEN {c[1].id} ELSE {}
  BY InputsOfOne
<1>3. Inputs(c) \subseteq Inputs(<<c[1]>>) \cup Inputs(t)
  <2>1. ASSUME NEW i \in 1 .. n, c[i].kind = "input"
        PROVE  c[i].id \in Inputs(<<c[1]>>) \cup Inputs(t)
    <3>1. CASE i = 1
      BY <1>2, <2>1, <3>1
    <3>2. CASE i # 1
      <4>1. i - 1 \in DOMAIN t /\ t[i - 1] = c[i]
        BY <1>1, <3>2
      <4> QED
        BY <2>1, <4>1 DEF Inputs
    <3> QED
      BY <3>1, <3>2
  <2> QED
    BY <1>1, <2>1 DEF Inputs
<1>4. Inputs(t) \subseteq Inputs(c)
  <2>1. ASSUME NEW i \in DOMAIN t PROVE i + 1 \in DOMAIN c /\ t[i] = c[i + 1]
    BY <1>1
  <2> QED
    BY <2>1 DEF Inputs
<1>5. Inputs(<<c[1]>>) \subseteq Inputs(c)
  <2>1. 1 \in DOMAIN c
    BY <1>1
  <2> QED
    BY <1>2, <2>1 DEF Inputs
<1>6. Before(Inputs(<<c[1]>>), Inputs(t))
  <2>1. ASSUME NEW i \in DOMAIN t, c[1].kind = "input", t[i].kind = "input"
        PROVE  c[1].id < t[i].id
    <3>1. 1 \in DOMAIN c /\ i + 1 \in DOMAIN c /\ 1 < i + 1 /\ t[i] = c[i + 1]
      BY <1>1
    <3> QED
      BY <2>1, <3>1 DEF Rising
  <2> QED
    BY <1>2, <2>1 DEF Before, Inputs
<1>7. Rising(t)
  <2>1. ASSUME NEW i \in DOMAIN t, NEW j \in DOMAIN t, i < j
        PROVE  /\ i + 1 \in DOMAIN c /\ j + 1 \in DOMAIN c /\ i + 1 < j + 1
               /\ t[i] = c[i + 1] /\ t[j] = c[j + 1]
    BY <1>1, <2>1
  <2> QED
    BY <2>1 DEF Rising
<1>8. (OnlyInput(c) => OnlyInput(t)) /\ (NoInput(c) => NoInput(t))
  <2>1. ASSUME NEW i \in DOMAIN t PROVE i + 1 \in DOMAIN c /\ t[i] = c[i + 1]
    BY <1>1
  <2> QED
    BY <2>1 DEF OnlyInput, NoInput
<1> QED
  BY <1>1, <1>3, <1>4, <1>5, <1>6, <1>7, <1>8 DEF t

(* What becomes of them when a chunk is added at the end.                  *)
LEMMA InputsOfAppended ==
  ASSUME NEW c \in Seq(Chunks), NEW e \in Chunks
  PROVE  /\ Inputs(Append(c, e)) = Inputs(c) \cup Inputs(<<e>>)
         /\ Rising(c) /\ Before(Inputs(c), Inputs(<<e>>)) => Rising(Append(c, e))
         /\ OnlyInput(c) /\ e.kind = "input" => OnlyInput(Append(c, e))
         /\ NoInput(c) /\ e.kind # "input" => NoInput(Append(c, e))
<1> DEFINE a == Append(c, e)
           n == Len(c)
<1>1. /\ DOMAIN c = 1 .. n /\ n \in Nat /\ DOMAIN a = 1 .. (n + 1)
      /\ \A i \in 1 .. n : a[i] = c[i]
      /\ a[n + 1] = e
  OBVIOUS
<1> HIDE DEF a, n
<1>2. Inputs(<<e>>) = IF e.kind = "input" THEN {e.id} ELSE {}
  BY InputsOfOne
<1>3. Inputs(a) = Inputs(c) \cup Inputs(<<e>>)
  <2>1. ASSUME NEW i \in DOMAIN a, a[i].kind = "input"
        PROVE  a[i].id \in Inputs(c) \cup Inputs(<<e>>)
    <3>1. CASE i = n + 1
      BY <1>1, <1>2, <2>1, <3>1
    <3>2. CASE i # n + 1
      <4>1. i \in DOMAIN c /\ a[i] = c[i]
        BY <1>1, <3>2
      <4> QED
        BY <2>1, <4>1 DEF Inputs
    <3> QED
      BY <3>1, <3>2
  <2>2. Inputs(c) \subseteq Inputs(a)
    <3>1. ASSUME NEW i \in DOMAIN c PROVE i \in DOMAIN a /\ a[i] = c[i]
      BY <1>1
    <3> QED
      BY <3>1 DEF Inputs
  <2>3. Inputs(<<e>>) \subseteq Inputs(a)
    <3>1. n + 1 \in DOMAIN a /\ a[n + 1] = e
      BY <1>1
    <3> QED
      BY <1>2, <3>1 DEF Inputs
  <2>4. Inputs(a) \subseteq Inputs(c) \cup Inputs(<<e>>)
    BY <2>1 DEF Inputs
  <2> QED
    BY <2>2, <2>3, <2>4
<1>4. ASSUME Rising(c), Before(Inputs(c), Inputs(<<e>>)) PROVE Rising(a)
  <2>1. SUFFICES ASSUME NEW i \in DOMAIN a, NEW j \in DOMAIN a, i < j,
                        a[i].kind = "input", a[j].kind = "input"
                 PROVE  a[i].id < a[j].id
    BY DEF Rising
  <2>2. i \in DOMAIN c /\ a[i] = c[i]
    BY <1>1, <2>1
  <2>3. CASE j = n + 1
    <3>1. a[i].id \in Inputs(c)
      BY <2>1, <2>2 DEF Inputs
    <3>2. a[j].id \in Inputs(<<e>>)
      BY <1>1, <1>2, <2>1, <2>3
    <3> QED
      BY <1>4, <3>1, <3>2 DEF Before
  <2>4. CASE j # n + 1
    <3>1. j \in DOMAIN c /\ a[j] = c[j]
      BY <1>1, <2>4
    <3> QED
      BY <1>4, <2>1, <2>2, <3>1 DEF Rising
  <2> QED
    BY <2>3, <2>4
<1>5. /\ OnlyInput(c) /\ e.kind = "input" => OnlyInput(a)
      /\ NoInput(c) /\ e.kind # "input" => NoInput(a)
  <2>1. ASSUME NEW i \in DOMAIN a
        PROVE  a[i] = e \/ (i \in DOMAIN c /\ a[i] = c[i])
    BY <1>1
  <2> QED
    BY <2>1 DEF OnlyInput, NoInput
<1> QED
  BY <1>3, <1>4, <1>5 DEF a

LEMMA ShortSequence ==
  ASSUME NEW c \in Seq(Chunks), Len(c) <= 1
  PROVE  Rising(c) /\ (OnlyInput(c) \/ NoInput(c))
<1>1. \A i \in DOMAIN c : i = 1
  BY DEF Chunks
<1> QED
  BY <1>1 DEF Rising, OnlyInput, NoInput

(* The last of several inputs has the greatest number.                     *)
LEMMA LastInput ==
  ASSUME NEW c \in Seq(Chunks), c # <<>>, OnlyInput(c), Rising(c)
  PROVE  \E n \in Inputs(c) : \A m \in Inputs(c) : m <= n
<1> DEFINE k == Len(c)
<1>1. k \in Nat /\ k > 0 /\ DOMAIN c = 1 .. k
  BY TailIndices
<1> HIDE DEF k
<1>2. c[k].id \in Inputs(c) /\ c[k].kind = "input"
  BY <1>1 DEF Inputs, OnlyInput
<1>3. ASSUME NEW i \in DOMAIN c PROVE c[i].id <= c[k].id
  <2>1. c[i].kind = "input" /\ c[i].id \in Inputs(c)
    BY DEF Inputs, OnlyInput
  <2>2. c[i].id \in Nat /\ c[k].id \in Nat
    BY <1>2, <2>1, InputsAreNumbers
  <2>3. i = k \/ i < k
    BY <1>1
  <2> QED
    BY <1>1, <1>2, <2>1, <2>2, <2>3 DEF Rising
<1> QED
  BY <1>2, <1>3 DEF Inputs

LEMMA HeadKind ==
  ASSUME NEW c \in Seq(Chunks), c # <<>>
  PROVE  /\ OnlyInput(c) => Head(c).kind = "input"
         /\ NoInput(c) => Head(c).kind # "input"
<1>1. 1 \in DOMAIN c /\ Head(c) = c[1]
  BY TailIndices
<1> QED
  BY <1>1 DEF OnlyInput, NoInput

LEMMA FeedTypes ==
  ASSUME TypeOK
  PROVE  /\ rest \in Seq(Chunks) /\ cur \in Seq(Chunks)
         /\ deferred \in Seq(Chunks) /\ queue \in Seq(Chunks)
         /\ other \in Seq(Chunks)
         /\ Len(deferred) <= 1 /\ Len(other) <= 1
         /\ sent \in Nat
<1>1. \A c \in Seq(Commands) : c \in Seq(Chunks)
  BY DEF Chunks
<1> QED
  BY <1>1, Bounds DEF TypeOK, Chunks

-----------------------------------------------------------------------------
(* Steps                                                                   *)

FeedStep == [Feed!Next]_(Feed!vars)
Keeps == sent' = sent /\ typed' = typed /\ Unwritten' = Unwritten

LEMMA KeepsStutters == Keeps => FeedStep
BY DEF Keeps, FeedStep, Feed!vars

LEMMA InitFeed == Init => Places /\ Sorted /\ Feed!Init
<1> SUFFICES ASSUME Init PROVE Places /\ Sorted /\ Feed!Init
  OBVIOUS
<1>1. /\ rest = <<>> /\ cur = <<>> /\ deferred = <<>> /\ queue = <<>>
      /\ other = <<>> /\ pc = "top" /\ sent = 0 /\ typed = 0
  BY DEF Init
<1>2. Unwritten = {}
  BY <1>1, NoneInEmpty DEF Unwritten
<1> QED
  BY <1>1, <1>2, NoneInEmpty DEF Places, Sorted, Before, Feed!Init

(* Whatever leaves the commands where they are.                            *)
LEMMA Elsewhere ==
  ASSUME FInv, UNCHANGED <<queue, sent, pump, typed>>
  PROVE  Places' /\ Sorted' /\ FeedStep
<1>1. UNCHANGED <<queue, sent, pc, cur, other, deferred, rest, back, typed>>
  BY DEF pump, taken, writing
<1>2. Places' /\ Sorted' /\ Keeps
  BY <1>1 DEF FInv, Places, Sorted, Before, Rising, OnlyInput, NoInput,
     Unwritten, Inputs, Keeps
<1> QED
  BY <1>2, KeepsStutters

(* A command is accepted and goes to the end of the queue.                 *)
LEMMA SendFeeds ==
  ASSUME FInv, NEW kind \in Kinds, Send(kind)
  PROVE  Places' /\ Sorted' /\ FeedStep
<1> DEFINE e == [id |-> sent + 1, kind |-> kind]
<1>1. /\ sent' = sent + 1 /\ queue' = Append(queue, e) /\ sent < MaxSent
      /\ UNCHANGED <<pc, cur, other, deferred, rest, back, typed>>
  BY DEF Send, pump, taken, writing
<1>2. TypeOK /\ Places /\ Sorted
  BY DEF FInv, IInv
<1>3. e \in Chunks /\ e.id = sent + 1 /\ queue \in Seq(Chunks) /\ sent \in Nat
  BY <1>1, <1>2, FeedTypes, Bounds DEF Chunks, Commands
<1> HIDE DEF e
<1>4. Inputs(<<e>>) \subseteq {sent + 1}
  BY <1>3, InputsOfOne
<1>5. /\ Inputs(queue') = Inputs(queue) \cup Inputs(<<e>>)
      /\ Rising(queue) /\ Before(Inputs(queue), Inputs(<<e>>)) => Rising(queue')
  BY <1>1, <1>3, InputsOfAppended
<1>6. /\ Inputs(rest') = Inputs(rest) /\ Inputs(cur') = Inputs(cur)
      /\ Inputs(deferred') = Inputs(deferred)
  BY <1>1
<1>7. Unwritten' = Unwritten \cup Inputs(<<e>>)
  BY <1>5, <1>6 DEF Unwritten
<1>8. Before(Unwritten, Inputs(<<e>>))
  <2>1. \A m \in Unwritten : m \in 1 .. sent
    BY <1>2 DEF Sorted
  <2> QED
    BY <1>3, <1>4, <2>1 DEF Before
<1>9. Sorted'
  <2>1. Rising(rest') /\ Rising(cur') /\ Rising(queue')
    BY <1>1, <1>2, <1>5, <1>8 DEF Sorted, Before, Unwritten
  <2>2. /\ Before(Inputs(rest'), Inputs(cur') \cup Inputs(deferred') \cup Inputs(queue'))
        /\ Before(Inputs(cur'), Inputs(deferred') \cup Inputs(queue'))
        /\ Before(Inputs(deferred'), Inputs(queue'))
    BY <1>2, <1>5, <1>6, <1>8 DEF Sorted, Before, Unwritten
  <2>3. Unwritten' \subseteq 1 .. sent'
    <3>1. Unwritten \subseteq 1 .. sent
      BY <1>2 DEF Sorted
    <3>2. 1 .. sent \subseteq 1 .. (sent + 1) /\ sent + 1 \in 1 .. (sent + 1)
      BY <1>3
    <3> QED
      BY <1>1, <1>4, <1>7, <3>1, <3>2
  <2> QED
    BY <2>1, <2>2, <2>3 DEF Sorted
<1>10. Places'
  BY <1>1, <1>2 DEF Places, OnlyInput, NoInput
<1>11. Unwritten' \in {Unwritten \cup {sent'}, Unwritten}
  BY <1>1, <1>4, <1>7
<1> QED
  BY <1>1, <1>9, <1>10, <1>11 DEF FeedStep, Feed!Next, Feed!Accept

(* The pump ends, and what waits is lost.                                  *)
LEMMA ExitFeeds ==
  ASSUME FInv, Exit, typed' = typed
  PROVE  Places' /\ Sorted' /\ FeedStep
<1>1. /\ pc' = "done" /\ queue' = <<>> /\ cur' = <<>> /\ other' = <<>>
      /\ deferred' = <<>> /\ rest' = <<>> /\ back' = "top" /\ sent' = sent
  BY DEF Exit, owner
<1>2. Unwritten' = {}
  BY <1>1, NoneInEmpty DEF Unwritten
<1>3. Places' /\ Sorted'
  BY <1>1, <1>2, NoneInEmpty DEF Places, Sorted, Before
<1>4. Unwritten \subseteq 1 .. sent /\ sent \in Nat
  BY FeedTypes DEF FInv, IInv, Sorted
<1>5. CASE Unwritten = {}
  BY <1>1, <1>2, <1>3, <1>5, KeepsStutters DEF Keeps
<1>6. CASE Unwritten # {}
  <2>1. sent \in 1 .. sent
    <3>1. PICK m \in Unwritten : TRUE
      BY <1>6
    <3>2. m \in 1 .. sent
      BY <1>4
    <3> QED
      BY <1>4, <3>2
  <2>2. \A m \in 1 .. sent : ~(m > sent)
    BY <1>4
  <2>3. Unwritten' = {m \in Unwritten : m > sent}
    BY <1>2, <1>4, <2>2
  <2> QED
    BY <1>1, <1>3, <2>1, <2>3 DEF FeedStep, Feed!Next, Feed!Lose
<1> QED
  BY <1>5, <1>6

LEMMA TakeInterruptFeeds ==
  ASSUME FInv, NEW after \in {"top", "dispatch"}, pc = after,
         TakeInterrupt(after)
  PROVE  Places' /\ Sorted' /\ FeedStep
<1>1. /\ pc' = "write" /\ rest' = <<Interrupt>> /\ back' = after
      /\ UNCHANGED <<queue, sent, cur, deferred, other, typed>>
  BY DEF TakeInterrupt, BeginWrite, owner, taken
<1>2. Places /\ Sorted /\ rest = <<>>
  BY DEF FInv, Places
<1>3. Inputs(rest') = {} /\ Rising(rest') /\ NoInput(rest') /\ Inputs(rest) = {}
  <2>1. Interrupt.kind # "input"
    BY DEF Interrupt
  <2>2. Inputs(<<Interrupt>>) = {} /\ Rising(<<Interrupt>>) /\ NoInput(<<Interrupt>>)
    BY <2>1, InputsOfOne
  <2> QED
    BY <1>1, <1>2, <2>2, NoneInEmpty
<1>4. Keeps
  BY <1>1, <1>3 DEF Keeps, Unwritten
<1>5. Sorted'
  BY <1>1, <1>2, <1>3, <1>4 DEF Sorted, Before, Keeps
<1>6. Places'
  BY <1>1, <1>2, <1>3 DEF Places
<1> QED
  BY <1>4, <1>5, <1>6, KeepsStutters

LEMMA TopFeeds ==
  ASSUME FInv, Top
  PROVE  Places' /\ Sorted' /\ FeedStep
<1>1. ASSUME TakeInterrupt("top"), pc = "top"
      PROVE  Places' /\ Sorted' /\ FeedStep
  BY <1>1, TakeInterruptFeeds
<1>2. ASSUME pc = "top", pc' = "take",
             UNCHANGED <<queue, owner, taken, writing, history>>
      PROVE  Places' /\ Sorted' /\ FeedStep
  <2>1. UNCHANGED <<queue, sent, cur, other, deferred, rest, back, typed>>
    BY <1>2 DEF owner, taken, writing, history
  <2>2. Places' /\ Sorted' /\ Keeps
    BY <1>2, <2>1 DEF FInv, Places, Sorted, Before, Rising, OnlyInput, NoInput,
       Unwritten, Inputs, Keeps
  <2> QED
    BY <2>2, KeepsStutters
<1> QED
  BY <1>1, <1>2 DEF Top, TopWith

(* The head of the queue becomes the command taken.                        *)
LEMMA HeadBecomesCur ==
  ASSUME FInv, queue # <<>>, cur = <<>>, deferred = <<>>, rest = <<>>,
         cur' = <<Head(queue)>>, queue' = Tail(queue),
         UNCHANGED <<deferred, rest, sent, typed>>
  PROVE  /\ Sorted' /\ Keeps
         /\ OnlyInput(cur') \/ NoInput(cur')
         /\ Head(queue).kind = "input" => OnlyInput(cur')
<1>1. TypeOK /\ Sorted /\ queue \in Seq(Chunks)
  BY FeedTypes DEF FInv, IInv
<1>2. /\ Inputs(queue) = Inputs(cur') \cup Inputs(queue')
      /\ Before(Inputs(cur'), Inputs(queue')) /\ Rising(queue')
  BY <1>1, InputsOfTail DEF Sorted
<1>3. /\ Rising(cur') /\ (OnlyInput(cur') \/ NoInput(cur'))
      /\ Head(queue).kind = "input" => OnlyInput(cur')
  BY InputsOfOne
<1>4. /\ Inputs(rest') = {} /\ Inputs(deferred') = {} /\ Rising(rest')
      /\ Inputs(rest) = {} /\ Inputs(deferred) = {} /\ Inputs(cur) = {}
  BY NoneInEmpty
<1>5. Keeps
  BY <1>2, <1>4 DEF Keeps, Unwritten
<1>6. Sorted'
  BY <1>1, <1>2, <1>3, <1>4, <1>5 DEF Sorted, Before, Keeps
<1> QED
  BY <1>3, <1>5, <1>6

LEMMA TakeFeeds ==
  ASSUME FInv, Take
  PROVE  Places' /\ Sorted' /\ FeedStep
<1>1. /\ pc = "take" /\ queue # <<>> /\ cur' = <<Head(queue)>>
      /\ queue' = Tail(queue)
      /\ pc' = IF Head(queue).kind = "input" THEN "merge" ELSE "dispatch"
      /\ UNCHANGED <<other, deferred, rest, back, sent, typed>>
  BY DEF Take, owner, writing, history
<1>2. Places /\ cur = <<>> /\ deferred = <<>> /\ rest = <<>>
  BY <1>1 DEF FInv, Places
<1>3. /\ Sorted' /\ Keeps /\ (OnlyInput(cur') \/ NoInput(cur'))
      /\ Head(queue).kind = "input" => OnlyInput(cur')
  BY <1>1, <1>2, HeadBecomesCur
<1>4. Places'
  BY <1>1, <1>2, <1>3 DEF Places
<1> QED
  BY <1>3, <1>4, KeepsStutters

(* The head of the queue is merged into the command taken.                 *)
LEMMA HeadJoinsCur ==
  ASSUME FInv, queue # <<>>, deferred = <<>>, rest = <<>>,
         cur' = Append(cur, Head(queue)), queue' = Tail(queue),
         UNCHANGED <<deferred, rest, sent, typed>>
  PROVE  /\ Sorted' /\ Keeps
         /\ OnlyInput(cur) /\ Head(queue).kind = "input" => OnlyInput(cur')
         /\ NoInput(cur) /\ Head(queue).kind # "input" => NoInput(cur')
<1>1. TypeOK /\ Sorted /\ queue \in Seq(Chunks) /\ cur \in Seq(Chunks)
  BY FeedTypes DEF FInv, IInv
<1> DEFINE h == Inputs(<<Head(queue)>>)
<1>2. /\ Inputs(queue) = h \cup Inputs(queue')
      /\ Before(h, Inputs(queue')) /\ Rising(queue')
  BY <1>1, InputsOfTail DEF Sorted
<1>3. Head(queue) \in Chunks
  BY <1>1, HeadTail
<1>4. Before(Inputs(cur), h)
  BY <1>1, <1>2 DEF Sorted, Before
<1>5. /\ Inputs(cur') = Inputs(cur) \cup h /\ Rising(cur')
      /\ OnlyInput(cur) /\ Head(queue).kind = "input" => OnlyInput(cur')
      /\ NoInput(cur) /\ Head(queue).kind # "input" => NoInput(cur')
  BY <1>1, <1>3, <1>4, InputsOfAppended DEF Sorted
<1>6. /\ Inputs(rest') = {} /\ Inputs(deferred') = {} /\ Rising(rest')
      /\ Inputs(rest) = {} /\ Inputs(deferred) = {}
  BY NoneInEmpty
<1> HIDE DEF h
<1>7. Keeps
  BY <1>2, <1>5, <1>6 DEF Keeps, Unwritten
<1>8. Before(Inputs(cur'), Inputs(queue'))
  BY <1>1, <1>2, <1>5 DEF Sorted, Before
<1>9. Sorted'
  BY <1>1, <1>2, <1>5, <1>6, <1>7, <1>8 DEF Sorted, Before, Keeps
<1> QED
  BY <1>5, <1>7, <1>9

LEMMA MergeFeeds ==
  ASSUME FInv, Merge
  PROVE  Places' /\ Sorted' /\ FeedStep
<1>1. /\ pc = "merge"
      /\ UNCHANGED <<deferred, rest, back, sent, typed>>
  BY DEF Merge, MergeInputs, owner, writing, history
<1>2. /\ TypeOK /\ Places /\ Sorted /\ deferred = <<>> /\ rest = <<>>
      /\ OnlyInput(cur)
  BY <1>1 DEF FInv, IInv, Places
<1>3. ASSUME queue # <<>>, Head(queue).kind = "input",
             cur' = Append(cur, Head(queue)), queue' = Tail(queue),
             UNCHANGED <<pc, other>>
      PROVE  Places' /\ Sorted' /\ FeedStep
  <2>1. Sorted' /\ Keeps /\ OnlyInput(cur')
    BY <1>1, <1>2, <1>3, HeadJoinsCur
  <2>2. Places'
    BY <1>1, <1>2, <1>3, <2>1 DEF Places
  <2> QED
    BY <2>1, <2>2, KeepsStutters
<1>4. ASSUME queue # <<>>, Head(queue).kind # "input",
             other' = <<Head(queue)>>, queue' = Tail(queue), pc' = "dispatch",
             UNCHANGED cur
      PROVE  Places' /\ Sorted' /\ FeedStep
  <2>1. queue \in Seq(Chunks)
    BY <1>2, FeedTypes
  <2>2. NoInput(other') /\ Inputs(<<Head(queue)>>) = {}
    <3> DEFINE e == Head(queue)
    <3>1. e.kind # "input" /\ other' = <<e>>
      BY <1>4
    <3> HIDE DEF e
    <3>2. Inputs(<<e>>) = IF e.kind = "input" THEN {e.id} ELSE {}
      BY InputsOfOne
    <3>3. NoInput(<<e>>) <=> e.kind # "input"
      BY InputsOfOne
    <3> QED
      BY <3>1, <3>2, <3>3 DEF e
  <2>3. Inputs(queue') = Inputs(queue) /\ Rising(queue')
    BY <1>2, <1>4, <2>1, <2>2, InputsOfTail DEF Sorted
  <2>4. Keeps
    BY <1>1, <1>4, <2>3 DEF Keeps, Unwritten
  <2>5. Sorted'
    BY <1>1, <1>2, <1>4, <2>3, <2>4 DEF Sorted, Before, Keeps
  <2>6. Places'
    BY <1>1, <1>2, <1>4, <2>2 DEF Places
  <2> QED
    BY <2>4, <2>5, <2>6, KeepsStutters
<1>5. ASSUME pc' = "dispatch", UNCHANGED <<cur, queue, other>>
      PROVE  Places' /\ Sorted' /\ FeedStep
  <2>1. Keeps
    BY <1>1, <1>5 DEF Keeps, Unwritten
  <2>2. Places' /\ Sorted'
    BY <1>1, <1>2, <1>5, <2>1 DEF Places, Sorted, Before, Keeps
  <2> QED
    BY <2>1, <2>2, KeepsStutters
<1> QED
  BY <1>3, <1>4, <1>5 DEF Merge, MergeInputs

LEMMA DispatchFeeds ==
  ASSUME FInv, Dispatch
  PROVE  Places' /\ Sorted' /\ FeedStep
<1>1. ASSUME TakeInterrupt("dispatch"), pc = "dispatch"
      PROVE  Places' /\ Sorted' /\ FeedStep
  BY <1>1, TakeInterruptFeeds
<1>2. ASSUME pc = "dispatch",
             pc' = IF Head(cur).kind = "zmodem" THEN "join" ELSE "process",
             UNCHANGED <<input, channel, taken, writing, history>>
      PROVE  Places' /\ Sorted' /\ FeedStep
  <2>1. UNCHANGED <<queue, sent, cur, other, deferred, rest, back, typed>>
    BY <1>2 DEF input, owner, taken, writing, history
  <2>2. cur \in Seq(Chunks) /\ cur # <<>> /\ Places /\ Sorted
    BY <1>2, FeedTypes DEF FInv, IInv, AtHand
  <2>3. Head(cur).kind = "zmodem" => NoInput(cur)
    BY <2>2, HeadKind DEF Places
  <2>4. Keeps
    BY <2>1 DEF Keeps, Unwritten
  <2>5. Sorted'
    BY <2>1, <2>2, <2>4 DEF Sorted, Before, Keeps
  <2>6. Places'
    BY <1>2, <2>1, <2>2, <2>3 DEF Places
  <2> QED
    BY <2>4, <2>5, <2>6, KeepsStutters
<1> QED
  BY <1>1, <1>2 DEF Dispatch

LEMMA JoinFeeds ==
  ASSUME FInv, Join
  PROVE  Places' /\ Sorted' /\ FeedStep
<1>1. /\ pc = "join"
      /\ UNCHANGED <<other, rest, back, sent, typed>>
  BY DEF Join, owner, writing, history
<1>2. /\ TypeOK /\ Places /\ Sorted /\ deferred = <<>> /\ rest = <<>>
      /\ NoInput(cur)
  BY <1>1 DEF FInv, IInv, Places
<1>3. ASSUME queue # <<>>, Head(queue).kind = "zmodem",
             cur' = Append(cur, Head(queue)), queue' = Tail(queue),
             UNCHANGED <<pc, deferred>>
      PROVE  Places' /\ Sorted' /\ FeedStep
  <2>1. Sorted' /\ Keeps /\ NoInput(cur')
    BY <1>1, <1>2, <1>3, HeadJoinsCur
  <2>2. Places'
    BY <1>1, <1>2, <1>3, <2>1 DEF Places
  <2> QED
    BY <2>1, <2>2, KeepsStutters
<1>4. ASSUME queue # <<>>, deferred' = <<Head(queue)>>, queue' = Tail(queue),
             pc' = "process", UNCHANGED cur
      PROVE  Places' /\ Sorted' /\ FeedStep
  <2>1. queue \in Seq(Chunks) /\ Inputs(rest) = {} /\ Inputs(deferred) = {}
    BY <1>2, FeedTypes, NoneInEmpty
  <2>2. /\ Inputs(queue) = Inputs(deferred') \cup Inputs(queue')
        /\ Before(Inputs(deferred'), Inputs(queue')) /\ Rising(queue')
    BY <1>2, <1>4, <2>1, InputsOfTail DEF Sorted
  <2>3. Keeps
    BY <1>1, <1>4, <2>1, <2>2 DEF Keeps, Unwritten
  <2>4. Sorted'
    BY <1>1, <1>2, <1>4, <2>1, <2>2, <2>3 DEF Sorted, Before, Keeps
  <2>5. Places'
    BY <1>1, <1>2, <1>4 DEF Places
  <2> QED
    BY <2>3, <2>4, <2>5, KeepsStutters
<1>5. ASSUME pc' = "process", UNCHANGED <<cur, queue, deferred>>
      PROVE  Places' /\ Sorted' /\ FeedStep
  <2>1. Keeps
    BY <1>1, <1>5 DEF Keeps, Unwritten
  <2>2. Places' /\ Sorted'
    BY <1>1, <1>2, <1>5, <2>1 DEF Places, Sorted, Before, Keeps
  <2> QED
    BY <2>1, <2>2, KeepsStutters
<1> QED
  BY <1>3, <1>4, <1>5 DEF Join

(* The command taken becomes a write.                                      *)
LEMMA CurIsWritten ==
  ASSUME FInv, pc = "process", BeginWrite(cur, "next"), cur' = <<>>,
         UNCHANGED <<queue, deferred, other, sent, typed>>
  PROVE  Places' /\ Sorted' /\ FeedStep
<1>1. Places /\ Sorted /\ rest = <<>>
  BY DEF FInv, Places
<1>2. pc' = "write" /\ rest' = cur /\ back' = "next"
  BY DEF BeginWrite
<1>3. Inputs(rest) = {} /\ Inputs(cur') = {} /\ Rising(cur') /\ NoInput(cur')
  BY <1>1, NoneInEmpty
<1>4. Keeps
  BY <1>2, <1>3 DEF Keeps, Unwritten
<1>5. Sorted'
  BY <1>1, <1>2, <1>3, <1>4 DEF Sorted, Before, Keeps
<1>6. Places'
  BY <1>1, <1>2, <1>3 DEF Places
<1> QED
  BY <1>4, <1>5, <1>6, KeepsStutters

LEMMA ProcessFeeds ==
  ASSUME FInv, Process
  PROVE  Places' /\ Sorted' /\ FeedStep
<1>1. /\ pc = "process" /\ typed' = typed
      /\ Places /\ Sorted /\ cur \in Seq(Chunks) /\ cur # <<>>
  BY FeedTypes DEF FInv, IInv, Process, AtHand
<1>2. ASSUME BeginWrite(cur, "next"), Taken, UNCHANGED <<input, other, deferred>>
      PROVE  Places' /\ Sorted' /\ FeedStep
  BY <1>1, <1>2, CurIsWritten DEF Taken, input, owner
<1>3. ASSUME Exit PROVE Places' /\ Sorted' /\ FeedStep
  BY <1>1, <1>3, ExitFeeds
<1>4. ASSUME Head(cur).kind = "exec", pc' = "next", Taken,
             UNCHANGED <<input, other, deferred, writing>>
      PROVE  Places' /\ Sorted' /\ FeedStep
  <2>1. /\ cur' = <<>>
        /\ UNCHANGED <<queue, sent, other, deferred, rest, back, typed>>
    BY <1>1, <1>4 DEF Taken, input, owner, writing
  <2>2. NoInput(cur)
    BY <1>1, <1>4, HeadKind DEF Places
  <2>3. Inputs(cur) = {} /\ Inputs(cur') = {} /\ Rising(cur') /\ NoInput(cur')
    BY <2>1, <2>2, InputsGone, NoneInEmpty
  <2>4. Keeps
    BY <2>1, <2>3 DEF Keeps, Unwritten
  <2>5. Sorted'
    BY <1>1, <2>1, <2>3, <2>4 DEF Sorted, Before, Keeps
  <2>6. Places'
    BY <1>1, <1>4, <2>1, <2>3 DEF Places
  <2> QED
    BY <2>4, <2>5, <2>6, KeepsStutters
<1> QED
  BY <1>2, <1>3, <1>4 DEF Process

(* A write ends, perhaps with a part unwritten: its inputs are the oldest. *)
LEMMA EndWriteFeeds ==
  ASSUME FInv, pc = "write", EndWrite,
         UNCHANGED <<queue, taken, sent, typed>>
  PROVE  Places' /\ Sorted' /\ FeedStep
<1>1. /\ pc' = back /\ rest' = <<>> /\ back' = "top"
      /\ UNCHANGED <<queue, cur, other, deferred, sent, typed>>
  BY DEF EndWrite, taken
<1>2. /\ TypeOK /\ Places /\ Sorted /\ back \in {"top", "dispatch", "next"}
      /\ rest \in Seq(Chunks) /\ rest # <<>> /\ sent \in Nat
  BY FeedTypes DEF FInv, IInv, TypeOK, AtHand
<1> DEFINE later == Inputs(cur) \cup Inputs(deferred) \cup Inputs(queue)
<1>3. Inputs(rest') = {} /\ Rising(rest') /\ NoInput(rest')
  BY <1>1, NoneInEmpty
<1>4. Unwritten' = later /\ Unwritten = Inputs(rest) \cup later
  BY <1>1, <1>3 DEF Unwritten
<1>5. Sorted'
  <2>1. Unwritten' \subseteq 1 .. sent'
    BY <1>1, <1>2, <1>4 DEF Sorted
  <2>2. UNCHANGED <<Inputs(cur), Inputs(deferred), Inputs(queue)>>
    BY <1>1
  <2> QED
    BY <1>1, <1>2, <1>3, <2>1, <2>2 DEF Sorted, Before
<1>6. Places'
  BY <1>1, <1>2, <1>3 DEF Places
<1>7. CASE NoInput(rest)
  <2>1. Keeps
    BY <1>1, <1>4, <1>7, InputsGone DEF Keeps
  <2> QED
    BY <1>5, <1>6, <2>1, KeepsStutters
<1>8. CASE OnlyInput(rest)
  <2>1. PICK n \in Inputs(rest) : \A m \in Inputs(rest) : m <= n
    BY <1>2, <1>8, LastInput DEF Sorted
  <2>2. \A m \in later : n < m
    BY <1>2, <2>1 DEF Sorted, Before
  <2>3. /\ n \in 1 .. sent /\ \A m \in Unwritten : m \in Nat
        /\ n \in Nat
    BY <1>2, <1>4, <2>1 DEF Sorted
  <2>4. Unwritten' = {m \in Unwritten : m > n}
    <3>1. ASSUME NEW m \in Inputs(rest) PROVE ~(m > n)
      BY <1>4, <2>1, <2>3
    <3>2. ASSUME NEW m \in later PROVE m > n
      BY <1>4, <2>2, <2>3
    <3> HIDE DEF later
    <3> QED
      BY <1>4, <3>1, <3>2
  <2> QED
    BY <1>1, <1>5, <1>6, <2>3, <2>4 DEF FeedStep, Feed!Next, Feed!Lose
<1> QED
  BY <1>2, <1>7, <1>8 DEF Places

(* The oldest chunk of the write is taken by the channel.                  *)
LEMMA WriteSomeFeeds ==
  ASSUME FInv, WriteSome
  PROVE  Places' /\ Sorted' /\ FeedStep
<1> DEFINE e == Head(rest)
           later == Inputs(cur) \cup Inputs(deferred) \cup Inputs(queue)
<1>1. /\ pc = "write"
      /\ typed' = IF e.kind = "input" THEN e.id ELSE typed
      /\ UNCHANGED <<queue, cur, other, deferred, sent>>
  BY DEF WriteSome, input, owner, taken
<1>2. /\ TypeOK /\ Places /\ Sorted /\ back \in {"top", "dispatch", "next"}
      /\ rest \in Seq(Chunks) /\ rest # <<>> /\ sent \in Nat
  BY <1>1, FeedTypes DEF FInv, IInv, TypeOK, AtHand
<1>3. /\ Inputs(rest) = Inputs(<<e>>) \cup Inputs(Tail(rest))
      /\ Before(Inputs(<<e>>), Inputs(Tail(rest)))
      /\ Rising(Tail(rest))
      /\ OnlyInput(rest) => OnlyInput(Tail(rest))
      /\ NoInput(rest) => NoInput(Tail(rest))
  BY <1>2, InputsOfTail DEF Sorted
<1>4. Inputs(<<e>>) = IF e.kind = "input" THEN {e.id} ELSE {}
  BY InputsOfOne
<1>5. /\ Inputs(rest') = Inputs(Tail(rest)) /\ Rising(rest')
      /\ OnlyInput(rest) => OnlyInput(rest')
      /\ NoInput(rest) => NoInput(rest')
      /\ \/ pc' = "write" /\ back' = back
         \/ pc' = back /\ back' = "top" /\ rest' = <<>>
  <2>1. CASE Len(rest) = 1 /\ EndWrite
    <3>1. DOMAIN Tail(rest) = {}
      <4>1. DOMAIN Tail(rest) = 1 .. (Len(rest) - 1)
        BY <1>2, TailIndices
      <4> QED
        BY <2>1, <4>1
    <3>2. Inputs(Tail(rest)) = {}
      BY <3>1 DEF Inputs
    <3> QED
      BY <2>1, <3>2, NoneInEmpty DEF EndWrite
  <2>2. CASE rest' = Tail(rest) /\ UNCHANGED <<pc, back>>
    BY <1>1, <1>3, <2>2
  <2> QED
    BY <2>1, <2>2 DEF WriteSome
<1>6. /\ Unwritten' = Inputs(Tail(rest)) \cup later
      /\ Unwritten = Inputs(<<e>>) \cup Inputs(Tail(rest)) \cup later
  BY <1>1, <1>3, <1>5 DEF Unwritten
<1>7. Before(Inputs(<<e>>), Inputs(Tail(rest)) \cup later)
  BY <1>2, <1>3 DEF Sorted, Before
<1> HIDE DEF e
<1>8. Sorted'
  <2>1. UNCHANGED <<Inputs(cur), Inputs(deferred), Inputs(queue)>>
    BY <1>1
  <2>2. Unwritten' \subseteq 1 .. sent'
    BY <1>1, <1>2, <1>6 DEF Sorted
  <2>3. Before(Inputs(rest'), Inputs(cur') \cup Inputs(deferred') \cup Inputs(queue'))
    BY <1>2, <1>3, <1>5, <2>1 DEF Sorted, Before
  <2>4. Rising(rest') /\ Rising(cur') /\ Rising(queue')
    BY <1>1, <1>2, <1>5 DEF Sorted
  <2>5. /\ Before(Inputs(cur'), Inputs(deferred') \cup Inputs(queue'))
        /\ Before(Inputs(deferred'), Inputs(queue'))
    BY <1>2, <2>1 DEF Sorted, Before
  <2> QED
    BY <2>2, <2>3, <2>4, <2>5 DEF Sorted
<1>9. Places'
  BY <1>1, <1>2, <1>5, NoneInEmpty DEF Places
<1>10. CASE e.kind # "input"
  <2>1. Keeps
    BY <1>1, <1>4, <1>6, <1>10 DEF Keeps
  <2> QED
    BY <1>8, <1>9, <2>1, KeepsStutters
<1>11. CASE e.kind = "input"
  <2>1. typed' = e.id /\ Inputs(<<e>>) = {e.id}
    BY <1>1, <1>4, <1>11
  <2>2. \A n \in Inputs(Tail(rest)) \cup later : e.id < n
    BY <1>7, <2>1 DEF Before
  <2>3. \A n \in Unwritten : n \in Nat
    BY <1>2 DEF Sorted
  <2>4. typed' \in Unwritten
    BY <1>6, <2>1
  <2>5. ASSUME NEW n \in Unwritten PROVE typed' <= n
    <3>1. n = e.id \/ n \in Inputs(Tail(rest)) \cup later
      BY <1>6, <2>1
    <3> QED
      BY <2>1, <2>2, <2>3, <2>4, <3>1
  <2>6. e.id \notin Inputs(Tail(rest)) \cup later
    BY <2>1, <2>2, <2>3, <2>4
  <2> HIDE DEF later
  <2>7. Unwritten' = Unwritten \ {typed'}
    BY <1>6, <2>1, <2>6
  <2> QED
    BY <1>1, <1>8, <1>9, <2>4, <2>5, <2>7
    DEF FeedStep, Feed!Next, Feed!Write
<1> QED
  BY <1>10, <1>11

LEMMA WriteStopsFeeds ==
  ASSUME FInv, WriteBlocked \/ WriteFails
  PROVE  Places' /\ Sorted' /\ FeedStep
<1>1. /\ pc = "write" /\ UNCHANGED <<queue, taken, sent, typed>>
  BY DEF WriteBlocked, WriteFails, input, owner, history
<1>2. CASE EndWrite
  BY <1>1, <1>2, EndWriteFeeds
<1>3. CASE UNCHANGED <<pc, rest, back>>
  <2>1. UNCHANGED <<queue, sent, pc, cur, other, deferred, rest, back, typed>>
    BY <1>1, <1>3 DEF taken
  <2>2. Places' /\ Sorted' /\ Keeps
    BY <2>1 DEF FInv, Places, Sorted, Before, Rising, OnlyInput, NoInput,
       Unwritten, Inputs, Keeps
  <2> QED
    BY <2>2, KeepsStutters
<1> QED
  BY <1>2, <1>3 DEF WriteBlocked, WriteFails

(* The next command: the one put aside by Join, else the head of the       *)
(* queue, else the one put aside by Merge, which is no input.              *)
LEMMA TakeNextFeeds ==
  ASSUME FInv, TakeNext
  PROVE  Places' /\ Sorted' /\ FeedStep
<1>1. /\ pc = "next" /\ UNCHANGED <<rest, back, sent, typed>>
      /\ pc' = IF cur' = <<>> THEN "top" ELSE "dispatch"
      /\ deferred' = <<>>
  BY DEF TakeNext, NextIs, owner, writing, history
<1>2. /\ TypeOK /\ Places /\ Sorted /\ cur = <<>> /\ rest = <<>>
      /\ deferred \in Seq(Chunks) /\ queue \in Seq(Chunks)
      /\ other \in Seq(Chunks) /\ Len(deferred) <= 1 /\ NoInput(other)
  BY <1>1, FeedTypes DEF FInv, IInv, Places
<1>3. Inputs(cur) = {} /\ Inputs(rest) = {} /\ Inputs(deferred') = {}
  BY <1>1, <1>2, NoneInEmpty
<1>4. ASSUME Sorted', Keeps, NoInput(other'), OnlyInput(cur') \/ NoInput(cur')
      PROVE  Places' /\ Sorted' /\ FeedStep
  <2>1. Places'
    BY <1>1, <1>2, <1>4 DEF Places
  <2> QED
    BY <1>4, <2>1, KeepsStutters
<1>5. CASE NextIs(deferred, queue, <<>>, other)
  <2>1. cur' = deferred /\ queue' = queue /\ other' = other
    BY <1>5 DEF NextIs
  <2>2. Rising(cur') /\ (OnlyInput(cur') \/ NoInput(cur'))
    BY <1>2, <2>1, ShortSequence
  <2>3. Keeps
    BY <1>1, <1>3, <2>1 DEF Keeps, Unwritten
  <2>4. Sorted'
    BY <1>1, <1>2, <1>3, <2>1, <2>2, <2>3 DEF Sorted, Before, Keeps
  <2> QED
    BY <1>2, <1>4, <2>1, <2>2, <2>3, <2>4
<1>6. CASE /\ deferred = <<>> /\ queue # <<>>
           /\ NextIs(<<Head(queue)>>, Tail(queue), <<>>, other)
  <2>1. /\ cur' = <<Head(queue)>> /\ queue' = Tail(queue) /\ other' = other
        /\ UNCHANGED <<deferred, rest, sent, typed>>
    BY <1>1, <1>6 DEF NextIs
  <2>2. Sorted' /\ Keeps /\ (OnlyInput(cur') \/ NoInput(cur'))
    BY <1>2, <1>6, <2>1, HeadBecomesCur
  <2> QED
    BY <1>2, <1>4, <2>1, <2>2
<1>7. CASE deferred = <<>> /\ queue = <<>> /\ NextIs(other, <<>>, <<>>, <<>>)
  <2>1. cur' = other /\ queue' = queue /\ other' = <<>>
    BY <1>7 DEF NextIs
  <2>2. NoInput(cur') /\ Inputs(cur') = {} /\ Rising(cur') /\ NoInput(other')
    BY <1>2, <2>1, InputsGone, NoneInEmpty
  <2>3. Inputs(deferred) = {}
    BY <1>7, NoneInEmpty
  <2>4. Keeps
    BY <1>1, <1>3, <2>1, <2>2, <2>3 DEF Keeps, Unwritten
  <2>5. Sorted'
    BY <1>1, <1>2, <1>3, <2>1, <2>2, <2>4 DEF Sorted, Before, Keeps
  <2> QED
    BY <1>4, <2>2, <2>4, <2>5
<1> QED
  BY <1>5, <1>6, <1>7 DEF TakeNext

LEMMA PumpFeeds ==
  ASSUME FInv, Pump
  PROVE  Places' /\ Sorted' /\ FeedStep
<1>1. CASE IdleRead
  <2>1. CASE Exit
    BY <1>1, <2>1, ExitFeeds DEF IdleRead
  <2>2. ASSUME pc = "take", pc' = "top",
               UNCHANGED <<input, taken, writing>>
        PROVE  Places' /\ Sorted' /\ FeedStep
    <3>1. UNCHANGED <<queue, sent, cur, other, deferred, rest, back, typed>>
      BY <1>1, <2>2 DEF IdleRead, input, owner, taken, writing
    <3>2. Places' /\ Sorted' /\ Keeps
      BY <2>2, <3>1 DEF FInv, Places, Sorted, Before, Rising, OnlyInput, NoInput,
         Unwritten, Inputs, Keeps
    <3> QED
      BY <3>2, KeepsStutters
  <2> QED
    BY <1>1, <2>1, <2>2 DEF IdleRead
<1>2. CASE SendersGone
  BY <1>2, ExitFeeds DEF SendersGone
<1> QED
  BY <1>1, <1>2, TopFeeds, TakeFeeds, MergeFeeds, DispatchFeeds, JoinFeeds,
     ProcessFeeds, WriteSomeFeeds, WriteStopsFeeds, TakeNextFeeds DEF Pump

LEMMA StepFeeds ==
  ASSUME FInv, [Next]_vars
  PROVE  Places' /\ Sorted' /\ FeedStep
<1>1. CASE SendInterrupt \/ Resize \/ DropHandle
  BY <1>1, Elsewhere DEF SendInterrupt, Resize, DropHandle, history
<1>2. CASE Output \/ Eof \/ Break
  BY <1>2, Elsewhere DEF Output, Eof, Break, input, owner, history
<1>3. CASE UNCHANGED vars
  BY <1>3, Elsewhere DEF vars, input, owner, history
<1> QED
  BY <1>1, <1>2, <1>3, SendFeeds, PumpFeeds DEF Next

-----------------------------------------------------------------------------
(* For queues, caps and bounds of any size the pump implements the ordered *)
(* feed: an input is written when it is the oldest not yet written, and    *)
(* never twice (PTY_INPUT_COALESCE_CAP, dispatch_pump_command_coalesced).  *)
THEOREM PumpIsOrderedFeed == Spec => ImplementsFeed
<1>1. Init => Places /\ Sorted /\ Feed!Init
  BY InitFeed
<1>2. IInv /\ Places /\ Sorted /\ [Next]_vars
        => (Places /\ Sorted)' /\ [Feed!Next]_(Feed!vars)
  BY StepFeeds DEF FInv, FeedStep
<1> QED
  BY <1>1, <1>2, Invariant, PTL DEF Spec, ImplementsFeed, Feed!Spec
=============================================================================
