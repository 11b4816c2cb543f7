-------------------------- MODULE UpdateStateProofs --------------------------
(***************************************************************************)
(* Theorems about UpdateState.  The state file keeps its type whatever the *)
(* threads do.  As long as only one thread changes it at a time, what was  *)
(* seen and decided is kept through every failure and crash: the file on   *)
(* disk is a whole state, and the copy that the thread will save differs   *)
(* from it only in what the thread's job may change.                       *)
(***************************************************************************)
EXTENDS UpdateState, TLAPS

LEMMA SomeFacts ==
  /\ None = 0 /\ None \in Nat /\ None \notin Versions /\ None \notin Dates
  /\ Versions \subseteq Nat /\ Dates \subseteq Nat
  /\ NoInode \notin Inodes /\ MaxIds \in Nat
BY StateAssumption DEF StateAssumption, None

LEMMA SeenTypes ==
  \A m \in Manifests \cup {NothingSeen} : m[1] \in Nat /\ m[2] \in Nat
<1> SUFFICES ASSUME NEW m \in Manifests \cup {NothingSeen}
             PROVE  m[1] \in Nat /\ m[2] \in Nat
  OBVIOUS
<1>1. CASE m \in Manifests
  <2>1. m[1] \in Versions /\ m[2] \in Dates
    BY <1>1 DEF Manifests
  <2> QED
    BY <2>1, SomeFacts
<1>2. CASE m = NothingSeen
  <2>1. m[1] = 0 /\ m[2] = 0
    BY <1>2, SomeFacts DEF NothingSeen
  <2> QED
    BY <2>1
<1> QED
  BY <1>1, <1>2

LEMMA DefaultIsState == Default \in States
BY SomeFacts DEF Default, States, NothingSeen

LEMMA EmptyIsBody == Empty \in Bodies
BY DefaultIsState DEF Empty, Bodies

LEMMA GarbageIsBody == Garbage \in Bodies
BY DefaultIsState DEF Garbage, Bodies

LEMMA SavedIsBody ==
  ASSUME NEW st \in States
  PROVE  Saved(st) \in Bodies /\ Saved(st).st = st
BY DEF Saved, Bodies

JobRecords == [kind : Jobs, v : Versions \cup {None}, last : BOOLEAN]

LEMMA FileIsState == TypeOK => File \in States
<1> SUFFICES ASSUME TypeOK PROVE File \in States
  OBVIOUS
<1>1. CASE main = NoInode
  BY <1>1, DefaultIsState DEF File
<1>2. CASE main # NoInode
  <2>1. body[main] \in Bodies
    BY <1>2 DEF TypeOK
  <2> QED
    BY <1>2, <2>1 DEF File, Bodies
<1> QED
  BY <1>1, <1>2

-----------------------------------------------------------------------------
(* Types                                                                   *)

LEMMA InitTypes == Init => TypeOK
<1> SUFFICES ASSUME Init PROVE TypeOK
  OBVIOUS
<1>1. NoJob \in JobRecords
  BY DEF NoJob, JobRecords, Jobs
<1>2. ids \in 0 .. MaxIds
  BY SomeFacts DEF Init
<1> QED
  BY <1>1, <1>2, DefaultIsState, EmptyIsBody DEF Init, TypeOK, JobRecords

LEMMA EndTypes ==
  ASSUME TypeOK, NEW t \in Threads, End(t)
  PROVE  /\ pc' \in [Threads -> {"idle", "fetch", "open", "write", "rename"}]
         /\ job' \in [Threads -> JobRecords]
         /\ mem' \in [Threads -> States]
         /\ fd' \in [Threads -> Inodes \cup {NoInode}]
<1>1. NoJob \in JobRecords
  BY DEF NoJob, JobRecords, Jobs
<1> QED
  BY <1>1, DefaultIsState DEF End, Goto, TypeOK, JobRecords

LEMMA ProceedTypes ==
  ASSUME TypeOK, NEW t \in Threads, Proceed(t)
  PROVE  /\ pc' \in [Threads -> {"idle", "fetch", "open", "write", "rename"}]
         /\ job' \in [Threads -> JobRecords]
         /\ mem' \in [Threads -> States]
         /\ fd' \in [Threads -> Inodes \cup {NoInode}]
<1>1. CASE job[t].last
  BY <1>1, EndTypes DEF Proceed
<1>2. CASE ~job[t].last
  <2>1. /\ pc' = [pc EXCEPT ![t] = "fetch"]
        /\ job' = [job EXCEPT ![t] = [job[t] EXCEPT !.last = TRUE]]
        /\ fd' = [fd EXCEPT ![t] = NoInode] /\ mem' = mem
    BY <1>2 DEF Proceed, Goto
  <2>2. [job[t] EXCEPT !.last = TRUE] \in JobRecords
    BY DEF TypeOK, JobRecords
  <2> QED
    BY <2>1, <2>2 DEF TypeOK, JobRecords
<1> QED
  BY <1>1, <1>2

LEMMA ForgetTypes ==
  ASSUME NEW bodies \in [Inodes -> Bodies], Forget(bodies)
  PROVE  body' \in [Inodes -> Bodies]
BY EmptyIsBody DEF Forget

(* What the jobs other than checks change is a state again.                *)
LEMMA ChangedIsState ==
  ASSUME NEW st \in States, NEW v \in Versions, NEW app \in Versions,
         NEW kind \in {"applied", "rollback", "cleanup", "skip"}
  PROVE  Changed(st, kind, v, app) \in States
<1>1. CASE kind = "applied"
  BY <1>1 DEF Changed, States
<1>2. CASE kind = "rollback"
  BY <1>2 DEF Changed, States
<1>3. CASE kind = "cleanup"
  BY <1>3 DEF Changed, States
<1>4. CASE kind = "skip"
  BY <1>4 DEF Changed, States
<1> QED
  BY <1>1, <1>2, <1>3, <1>4

LEMMA BeginTypes ==
  ASSUME TypeOK, NEW t \in Threads,
         \/ BeginCheck(t) \/ BeginCliCheck(t)
         \/ \E kind \in {"applied", "rollback", "cleanup", "skip"},
               v, app \in Versions : BeginChange(t, kind, v, app)
  PROVE  TypeOK'
<1>1. File \in States
  BY FileIsState
<1>2. ASSUME NEW st \in States, NEW j \in JobRecords,
             mem' = [mem EXCEPT ![t] = st], job' = [job EXCEPT ![t] = j],
             Goto(t, "fetch") \/ Goto(t, "open"),
             UNCHANGED <<files, fd>>, ids' \in 0 .. MaxIds
      PROVE  TypeOK'
  BY <1>2 DEF TypeOK, Goto, files, JobRecords
<1>3. CASE BeginCheck(t)
  <2>1. CASE ids' = ids /\ mem' = [mem EXCEPT ![t] = File]
    <3>1. [NoJob EXCEPT !.kind = "check"] \in JobRecords
      BY DEF NoJob, JobRecords, Jobs
    <3>2. \/ /\ job' = [job EXCEPT ![t] = [NoJob EXCEPT !.kind = "check"]]
             /\ Goto(t, "fetch")
          \/ ids' = ids + 1
      BY <1>3, <2>1 DEF BeginCheck
    <3>3. ids \in 0 .. MaxIds
      BY DEF TypeOK
    <3>4. UNCHANGED <<files, fd>>
      BY <1>3 DEF BeginCheck
    <3>5. ids' # ids + 1
      BY <2>1, <3>3
    <3> QED
      BY <1>1, <1>2, <2>1, <3>1, <3>2, <3>3, <3>4, <3>5
  <2>2. CASE /\ ids < MaxIds /\ ids' = ids + 1
             /\ mem' = [mem EXCEPT ![t] = [File EXCEPT !.client = ids']]
             /\ job' = [job EXCEPT ![t] = [NoJob EXCEPT !.kind = "check",
                                                        !.last = FALSE]]
             /\ Goto(t, "open")
    <3>1. [NoJob EXCEPT !.kind = "check", !.last = FALSE] \in JobRecords
      BY DEF NoJob, JobRecords, Jobs
    <3>2. ids' \in 0 .. MaxIds
      BY <2>2, SomeFacts DEF TypeOK
    <3>3. [File EXCEPT !.client = ids'] \in States
      BY <1>1, <3>2 DEF States
    <3>4. UNCHANGED <<files, fd>>
      BY <1>3 DEF BeginCheck
    <3> QED
      BY <1>2, <2>2, <3>1, <3>2, <3>3, <3>4
  <2> QED
    BY <1>3, <2>1, <2>2 DEF BeginCheck
<1>4. CASE BeginCliCheck(t)
  <2>1. [NoJob EXCEPT !.kind = "clicheck"] \in JobRecords
    BY DEF NoJob, JobRecords, Jobs
  <2>2. ids' \in 0 .. MaxIds
    BY <1>4 DEF BeginCliCheck, TypeOK
  <2> QED
    BY <1>1, <1>2, <1>4, <2>1, <2>2 DEF BeginCliCheck
<1>5. ASSUME NEW kind \in {"applied", "rollback", "cleanup", "skip"},
             NEW v \in Versions, NEW app \in Versions, BeginChange(t, kind, v, app)
      PROVE  TypeOK'
  <2>1. [NoJob EXCEPT !.kind = kind, !.v = v] \in JobRecords
    BY DEF NoJob, JobRecords, Jobs
  <2>2. Changed(File, kind, v, app) \in States
    BY <1>1, ChangedIsState
  <2>3. ids' \in 0 .. MaxIds
    BY <1>5 DEF BeginChange, TypeOK
  <2> QED
    BY <1>2, <1>5, <2>1, <2>2, <2>3 DEF BeginChange
<1> QED
  BY <1>3, <1>4, <1>5

(* A manifest that is recorded is one that was released, or seen before.   *)
LEMMA RecordedIsState ==
  ASSUME NEW st \in States, NEW m \in Manifests
  PROVE  /\ RecordSeen(st, m) \in States
         /\ RecordSeen(st, m).client = st.client
         /\ RecordSeen(st, m).skipped = st.skipped
         /\ RecordSeen(st, m).pending = st.pending
         /\ RecordSeen(st, m).seen \in {st.seen, m}
         /\ RecordSeen(st, m).seen = st.seen \/ Older(st.seen, m)
BY DEF RecordSeen, States

LEMMA StepTypes ==
  ASSUME TypeOK, [Next]_vars
  PROVE  TypeOK'
<1>1. ASSUME NEW t \in Threads, Fetch(t)
      PROVE  TypeOK'
  <2>1. CASE End(t)
    BY <1>1, <2>1, EndTypes DEF Fetch, TypeOK, files, JobRecords
  <2>2. ASSUME NEW m \in Manifests, mem' = [mem EXCEPT ![t] = RecordSeen(@, m)],
               Goto(t, "open"), UNCHANGED <<job, fd>>
        PROVE  TypeOK'
    <3>1. RecordSeen(mem[t], m) \in States
      BY RecordedIsState DEF TypeOK
    <3> QED
      BY <1>1, <2>2, <3>1 DEF Fetch, Goto, TypeOK, files
  <2> QED
    BY <1>1, <2>1, <2>2 DEF Fetch
<1>2. ASSUME NEW t \in Threads, OpenTmp(t)
      PROVE  TypeOK'
  <2>1. PICK i \in Inodes : /\ tmp' = i /\ body' = [body EXCEPT ![i] = Empty]
                            /\ fd' = [fd EXCEPT ![t] = i]
    BY <1>2 DEF OpenTmp, Free, TypeOK
  <2> QED
    BY <1>2, <2>1, EmptyIsBody DEF OpenTmp, Goto, TypeOK
<1>3. ASSUME NEW t \in Threads, WriteTmp(t)
      PROVE  TypeOK'
  <2>1. PICK new \in {Saved(mem[t]), Garbage} :
          Forget([body EXCEPT ![fd[t]] = new])
    BY <1>3 DEF WriteTmp
  <2>2. new \in Bodies
    BY SavedIsBody, GarbageIsBody DEF TypeOK
  <2>3. [body EXCEPT ![fd[t]] = new] \in [Inodes -> Bodies]
    BY <2>2 DEF TypeOK
  <2>4. body' \in [Inodes -> Bodies]
    BY <2>1, <2>3, ForgetTypes
  <2> QED
    BY <1>3, <2>4 DEF WriteTmp, Goto, TypeOK
<1>4. ASSUME NEW t \in Threads, RenameTmp(t) \/ SaveFails(t)
      PROVE  TypeOK'
  <2>1. body' \in [Inodes -> Bodies]
    BY <1>4, ForgetTypes DEF RenameTmp, SaveFails, TypeOK
  <2>2. main' \in Inodes \cup {NoInode} /\ tmp' \in Inodes \cup {NoInode}
        /\ ids' \in 0 .. MaxIds
    BY <1>4 DEF RenameTmp, SaveFails, TypeOK
  <2>3. Proceed(t)
    BY <1>4 DEF RenameTmp, SaveFails
  <2> QED
    BY <2>1, <2>2, <2>3, ProceedTypes DEF TypeOK, JobRecords
<1>5. ASSUME NEW t \in Threads, Crash(t)
      PROVE  TypeOK'
  <2>1. body' \in [Inodes -> Bodies]
    BY <1>5, ForgetTypes DEF Crash, TypeOK
  <2> QED
    BY <1>5, <2>1, EndTypes DEF Crash, TypeOK, JobRecords
<1>6. CASE UNCHANGED vars
  BY <1>6 DEF vars, TypeOK
<1> QED
  BY <1>1, <1>2, <1>3, <1>4, <1>5, <1>6, BeginTypes DEF Next

(* The state file, its temporary file and the copies in memory keep their  *)
(* type for any number of threads (load_from, save_to).                    *)
THEOREM StateTypes == Spec => []TypeOK
<1> QED
  BY InitTypes, StepTypes, PTL DEF Spec

-----------------------------------------------------------------------------
(* One thread at a time                                                    *)

OneThread == \A t, u \in Threads : t = u

(* What the copy of a busy thread may differ in from the state on disk.    *)
Allowed(t) ==
  /\ ~Older(mem[t].seen, File.seen)
  /\ File.client # None => mem[t].client = File.client
  /\ mem[t].skipped # File.skipped => job[t].kind \in {"skip", "rollback"}
  /\ mem[t].pending # File.pending =>
       \/ job[t].kind \in {"applied", "rollback"} /\ job[t].v = mem[t].pending
       \/ job[t].kind = "cleanup" /\ job[t].v = File.pending

Copies == \A t \in Threads : pc[t] # "idle" => Allowed(t)

(* The temporary file of a save is not the state file, and holds what the  *)
(* thread has written.                                                     *)
Temporary ==
  /\ main # NoInode => main # tmp
  /\ \A t \in Threads :
       /\ pc[t] = "write" =>
            tmp \in Inodes /\ fd[t] = tmp /\ body[tmp] = Empty
       /\ pc[t] = "rename" =>
            tmp \in Inodes /\ body[tmp] = Saved(mem[t])

Alone == TypeOK /\ Copies /\ Temporary

(* What a step may do to the state on disk, as in the three properties.    *)
Kept ==
  /\ ~Older(File'.seen, File.seen)
  /\ File.client # None => File'.client = File.client
  /\ File'.skipped # File.skipped =>
       \E t \in Threads :
         pc[t] = "rename" /\ job[t].kind \in {"skip", "rollback"}
  /\ File'.pending # File.pending =>
       \E t \in Threads :
         /\ pc[t] = "rename"
         /\ \/ /\ job[t].kind \in {"applied", "rollback"}
               /\ job[t].v = File'.pending
            \/ job[t].kind = "cleanup" /\ job[t].v = File.pending

LEMMA OlderOrder ==
  ASSUME NEW a \in Manifests \cup {NothingSeen},
         NEW b \in Manifests \cup {NothingSeen},
         NEW c \in Manifests \cup {NothingSeen}
  PROVE  /\ ~Older(a, a)
         /\ ~Older(a, c) /\ Older(a, b) => ~Older(b, c)
BY SeenTypes DEF Older

LEMMA SeenOfFile == TypeOK => File.seen \in Manifests \cup {NothingSeen}
BY FileIsState DEF States

LEMMA SameFile ==
  ASSUME TypeOK, File' = File
  PROVE  Kept
<1>1. ~Older(File.seen, File.seen)
  BY SeenOfFile, OlderOrder
<1> QED
  BY <1>1 DEF Kept

LEMMA InitAlone == Init => Alone
<1> SUFFICES ASSUME Init PROVE Alone
  OBVIOUS
<1>1. \A t \in Threads : pc[t] = "idle"
  BY DEF Init
<1>2. main = NoInode
  BY DEF Init
<1> QED
  BY <1>1, <1>2, InitTypes DEF Alone, Copies, Temporary

(* A thread that begins, with the copy st and the job j.                   *)
LEMMA BeginAlone ==
  ASSUME OneThread, Alone, NEW t \in Threads, TypeOK',
         NEW st \in States, NEW j \in JobRecords,
         mem' = [mem EXCEPT ![t] = st], job' = [job EXCEPT ![t] = j],
         Goto(t, "fetch") \/ Goto(t, "open"),
         UNCHANGED <<files, fd>>,
         st.seen = File.seen,
         File.client # None => st.client = File.client,
         st.skipped # File.skipped => j.kind \in {"skip", "rollback"},
         st.pending # File.pending =>
           \/ j.kind \in {"applied", "rollback"} /\ j.v = st.pending
           \/ j.kind = "cleanup" /\ j.v = File.pending
  PROVE  Alone' /\ Kept
<1>1. File' = File
  BY DEF files, File
<1>2. mem'[t] = st /\ job'[t] = j /\ pc'[t] \in {"fetch", "open"}
  BY DEF Goto, Alone, TypeOK
<1>3. \A u \in Threads : u = t
  BY DEF OneThread
<1>4. ~Older(File.seen, File.seen)
  BY SeenOfFile, OlderOrder DEF Alone
<1>5. Allowed(t)'
  BY <1>1, <1>2, <1>4 DEF Allowed
<1>6. Copies'
  BY <1>3, <1>5 DEF Copies
<1>7. Temporary'
  BY <1>2, <1>3 DEF Alone, Temporary, files
<1> QED
  BY <1>1, <1>6, <1>7, SameFile DEF Alone

LEMMA BeginStep ==
  ASSUME OneThread, Alone, NEW t \in Threads,
         \/ BeginCheck(t) \/ BeginCliCheck(t)
         \/ \E kind \in {"applied", "rollback", "cleanup", "skip"},
               v, app \in Versions : BeginChange(t, kind, v, app)
  PROVE  Alone' /\ Kept
<1>1. TypeOK' /\ File \in States
  BY BeginTypes, FileIsState DEF Alone
<1>2. ASSUME NEW j \in JobRecords, mem' = [mem EXCEPT ![t] = File],
             job' = [job EXCEPT ![t] = j], Goto(t, "fetch"),
             UNCHANGED <<files, fd>>
      PROVE  Alone' /\ Kept
  BY <1>1, <1>2, BeginAlone
<1>3. CASE BeginCheck(t)
  <2>1. UNCHANGED <<files, fd>>
    BY <1>3 DEF BeginCheck
  <2>2. CASE /\ mem' = [mem EXCEPT ![t] = File]
             /\ job' = [job EXCEPT ![t] = [NoJob EXCEPT !.kind = "check"]]
             /\ Goto(t, "fetch")
    <3>1. [NoJob EXCEPT !.kind = "check"] \in JobRecords
      BY DEF NoJob, JobRecords, Jobs
    <3> QED
      BY <1>2, <2>1, <2>2, <3>1
  <2>3. CASE /\ File.client = None /\ ids < MaxIds /\ ids' = ids + 1
             /\ mem' = [mem EXCEPT ![t] = [File EXCEPT !.client = ids']]
             /\ job' = [job EXCEPT ![t] = [NoJob EXCEPT !.kind = "check",
                                                        !.last = FALSE]]
             /\ Goto(t, "open")
    <3> DEFINE st == [File EXCEPT !.client = ids']
    <3>1. [NoJob EXCEPT !.kind = "check", !.last = FALSE] \in JobRecords
      BY DEF NoJob, JobRecords, Jobs
    <3>2. ids' \in 0 .. MaxIds
      BY <1>1 DEF TypeOK
    <3>3. /\ st \in States /\ st.seen = File.seen
          /\ st.skipped = File.skipped /\ st.pending = File.pending
      BY <1>1, <3>2 DEF States
    <3> QED
      BY <1>1, <2>1, <2>3, <3>1, <3>3, BeginAlone
  <2> QED
    BY <1>3, <2>2, <2>3 DEF BeginCheck
<1>4. CASE BeginCliCheck(t)
  <2>1. [NoJob EXCEPT !.kind = "clicheck"] \in JobRecords
    BY DEF NoJob, JobRecords, Jobs
  <2> QED
    BY <1>2, <1>4, <2>1 DEF BeginCliCheck
<1>5. ASSUME NEW kind \in {"applied", "rollback", "cleanup", "skip"},
             NEW v \in Versions, NEW app \in Versions, BeginChange(t, kind, v, app)
      PROVE  Alone' /\ Kept
  <2> DEFINE st == Changed(File, kind, v, app)
             j == [NoJob EXCEPT !.kind = kind, !.v = v]
  <2>1. j \in JobRecords /\ j.kind = kind /\ j.v = v
    BY DEF NoJob, JobRecords, Jobs
  <2>2. st \in States
    BY <1>1, ChangedIsState
  <2>3. kind = "cleanup" => File.pending = v
    BY <1>5 DEF BeginChange
  <2>4. st.seen = File.seen /\ st.client = File.client
    <3>1. CASE kind = "applied"
      BY <1>1, <3>1 DEF Changed, States
    <3>2. CASE kind = "rollback"
      BY <1>1, <3>2 DEF Changed, States
    <3>3. CASE kind = "cleanup"
      BY <1>1, <3>3 DEF Changed, States
    <3>4. CASE kind = "skip"
      BY <1>1, <3>4 DEF Changed, States
    <3> QED
      BY <3>1, <3>2, <3>3, <3>4
  <2>5. /\ st.skipped # File.skipped => kind \in {"skip", "rollback"}
        /\ st.pending # File.pending =>
             \/ kind \in {"applied", "rollback"} /\ st.pending = v
             \/ kind = "cleanup"
    <3>1. CASE kind = "applied"
      BY <1>1, <3>1 DEF Changed, States
    <3>2. CASE kind = "rollback"
      BY <1>1, <3>2 DEF Changed, States
    <3>3. CASE kind = "cleanup"
      BY <1>1, <3>3 DEF Changed, States
    <3>4. CASE kind = "skip"
      BY <1>1, <3>4 DEF Changed, States
    <3> QED
      BY <3>1, <3>2, <3>3, <3>4
  <2>6. /\ mem' = [mem EXCEPT ![t] = st] /\ job' = [job EXCEPT ![t] = j]
        /\ Goto(t, "open") /\ UNCHANGED <<files, fd>>
    BY <1>5 DEF BeginChange
  <2>7. st.pending # File.pending =>
          \/ j.kind \in {"applied", "rollback"} /\ j.v = st.pending
          \/ j.kind = "cleanup" /\ j.v = File.pending
    BY <2>1, <2>3, <2>5
  <2>8. st.skipped # File.skipped => j.kind \in {"skip", "rollback"}
    BY <2>1, <2>5
  <2>. HIDE DEF st, j
  <2> QED
    BY <1>1, <2>1, <2>2, <2>4, <2>6, <2>7, <2>8, BeginAlone
<1> QED
  BY <1>3, <1>4, <1>5

(* A thread that ends leaves nothing to say about it.                      *)
LEMMA EndAlone ==
  ASSUME OneThread, Alone, NEW t \in Threads, TypeOK', End(t),
         main' # NoInode => main' # tmp'
  PROVE  Copies' /\ Temporary'
<1>1. pc'[t] = "idle"
  BY DEF End, Goto, Alone, TypeOK
<1>2. \A u \in Threads : u = t
  BY DEF OneThread
<1> QED
  BY <1>1, <1>2 DEF Copies, Temporary

(* ... and one that proceeds is allowed what it was, in the same file or   *)
(* in the one it has just saved.                                           *)
LEMMA ProceedAlone ==
  ASSUME OneThread, Alone, NEW t \in Threads, TypeOK', Proceed(t),
         pc[t] # "idle",
         main' # NoInode => main' # tmp',
         File' = File \/ File' = mem[t]
  PROVE  Copies' /\ Temporary'
<1>1. CASE job[t].last
  BY <1>1, EndAlone DEF Proceed
<1>2. CASE ~job[t].last
  <2>1. /\ pc'[t] = "fetch" /\ mem' = mem /\ job'[t].kind = job[t].kind
        /\ job'[t].v = job[t].v
    BY <1>2 DEF Proceed, Goto, Alone, TypeOK
  <2>2. \A u \in Threads : u = t
    BY DEF OneThread
  <2>3. Allowed(t)
    BY DEF Alone, Copies
  <2>4. CASE File' = File
    <3>1. Allowed(t)'
      BY <2>1, <2>3, <2>4 DEF Allowed
    <3> QED
      BY <2>1, <2>2, <3>1 DEF Copies, Temporary
  <2>5. CASE File' = mem[t]
    <3>1. mem[t] \in States
      BY DEF Alone, TypeOK
    <3>2. ~Older(mem[t].seen, mem[t].seen)
      BY <3>1, OlderOrder DEF States
    <3>3. mem'[t] = File'
      BY <2>1, <2>5
    <3>4. Allowed(t)'
      BY <2>1, <2>5, <3>2, <3>3 DEF Allowed
    <3> QED
      BY <2>1, <2>2, <3>4 DEF Copies, Temporary
  <2> QED
    BY <2>4, <2>5
<1> QED
  BY <1>1, <1>2

(* What no name points to any more is forgotten; the state file is not.    *)
LEMMA FileStays ==
  ASSUME TypeOK, Forget(body), main' = main
  PROVE  File' = File
<1>1. CASE main = NoInode
  BY <1>1 DEF File
<1>2. CASE main # NoInode
  <2>1. main \in Inodes
    BY <1>2 DEF TypeOK
  <2>2. body'[main] = body[main]
    BY <2>1 DEF Forget
  <2> QED
    BY <1>2, <2>2 DEF File
<1> QED
  BY <1>1, <1>2

LEMMA FetchStep ==
  ASSUME OneThread, Alone, NEW t \in Threads, Fetch(t), TypeOK'
  PROVE  Alone' /\ Kept
<1>1. File' = File /\ UNCHANGED <<body, main, tmp>>
  BY DEF Fetch, files, File
<1>2. Kept
  BY <1>1, SameFile DEF Alone
<1>3. CASE End(t)
  BY <1>1, <1>2, <1>3, EndAlone DEF Alone, Temporary
<1>4. ASSUME NEW m \in Manifests, mem' = [mem EXCEPT ![t] = RecordSeen(@, m)],
             Goto(t, "open"), UNCHANGED <<job, fd>>
      PROVE  Alone'
  <2> DEFINE st == RecordSeen(mem[t], m)
  <2>1. mem[t] \in States /\ File \in States
    BY FileIsState DEF Alone, TypeOK
  <2>2. /\ st.client = mem[t].client /\ st.skipped = mem[t].skipped
        /\ st.pending = mem[t].pending /\ st \in States
        /\ st.seen = mem[t].seen \/ Older(mem[t].seen, st.seen)
    BY <2>1, RecordedIsState
  <2>3. Allowed(t)
    BY DEF Fetch, Alone, Copies
  <2>4. ~Older(st.seen, File.seen)
    <3>1. /\ st.seen \in Manifests \cup {NothingSeen}
          /\ mem[t].seen \in Manifests \cup {NothingSeen}
          /\ File.seen \in Manifests \cup {NothingSeen}
      BY <2>1, <2>2 DEF States
    <3>2. ~Older(mem[t].seen, File.seen)
      BY <2>3 DEF Allowed
    <3>3. Older(mem[t].seen, st.seen) => ~Older(st.seen, File.seen)
      BY <3>1, <3>2, OlderOrder
    <3> QED
      BY <2>2, <3>2, <3>3
  <2>5. mem'[t] = st /\ pc'[t] = "open" /\ job' = job
    BY <1>4 DEF Goto, Alone, TypeOK
  <2>. HIDE DEF st
  <2>6. Allowed(t)'
    BY <1>1, <2>2, <2>3, <2>4, <2>5 DEF Allowed
  <2>7. \A u \in Threads : u = t
    BY DEF OneThread
  <2>8. Copies' /\ Temporary'
    BY <1>1, <2>5, <2>6, <2>7 DEF Copies, Temporary, Alone
  <2> QED
    BY <2>8 DEF Alone
<1> QED
  BY <1>2, <1>3, <1>4 DEF Fetch, Alone

LEMMA OpenStep ==
  ASSUME OneThread, Alone, NEW t \in Threads, OpenTmp(t), TypeOK'
  PROVE  Alone' /\ Kept
<1>1. PICK i \in IF tmp = NoInode THEN Free ELSE {tmp} :
        /\ tmp' = i /\ body' = [body EXCEPT ![i] = Empty]
        /\ fd' = [fd EXCEPT ![t] = i]
  BY DEF OpenTmp
<1>2. i \in Inodes /\ (main # NoInode => main # i)
  BY <1>1 DEF Free, Alone, TypeOK, Temporary
<1>3. /\ pc[t] = "open" /\ pc' = [pc EXCEPT ![t] = "write"]
      /\ UNCHANGED <<main, job, mem>>
  BY DEF OpenTmp, Goto
<1>4. File' = File
  BY <1>1, <1>2, <1>3 DEF File, Alone, TypeOK
<1>5. body'[i] = Empty /\ fd'[t] = i /\ pc'[t] = "write"
  BY <1>1, <1>2, <1>3 DEF Alone, TypeOK
<1>6. \A u \in Threads : u = t
  BY DEF OneThread
<1>7. Temporary'
  BY <1>1, <1>2, <1>3, <1>5, <1>6 DEF Temporary
<1>8. Allowed(t)'
  <2>1. Allowed(t)
    BY <1>3 DEF Alone, Copies
  <2> QED
    BY <1>3, <1>4, <2>1 DEF Allowed
<1>9. Copies'
  BY <1>6, <1>8 DEF Copies
<1> QED
  BY <1>4, <1>7, <1>9, SameFile DEF Alone

(* Alone, a writer never writes over the bytes of another.                 *)
LEMMA WriteStep ==
  ASSUME OneThread, Alone, NEW t \in Threads, WriteTmp(t), TypeOK'
  PROVE  Alone' /\ Kept
<1>1. /\ pc[t] = "write" /\ pc' = [pc EXCEPT ![t] = "rename"]
      /\ UNCHANGED <<main, tmp, job, mem>>
  BY DEF WriteTmp, Goto
<1>2. tmp \in Inodes /\ fd[t] = tmp /\ body[tmp] = Empty
  BY <1>1 DEF Alone, Temporary
<1>3. Forget([body EXCEPT ![tmp] = Saved(mem[t])])
  BY <1>2 DEF WriteTmp
<1>4. body'[tmp] = Saved(mem[t])
  BY <1>1, <1>2, <1>3 DEF Forget, Alone, TypeOK
<1>5. main # NoInode => main # tmp /\ main \in Inodes
  BY DEF Alone, TypeOK, Temporary
<1>6. main # NoInode => body'[main] = body[main]
  BY <1>1, <1>3, <1>5 DEF Forget, Alone, TypeOK
<1>7. File' = File
  BY <1>1, <1>6 DEF File
<1>8. \A u \in Threads : u = t
  BY DEF OneThread
<1>9. pc'[t] = "rename"
  BY <1>1 DEF Alone, TypeOK
<1>10. Temporary'
  BY <1>1, <1>2, <1>4, <1>5, <1>8, <1>9 DEF Temporary
<1>11. Copies'
  <2>1. Allowed(t)
    BY <1>1 DEF Alone, Copies
  <2>2. Allowed(t)'
    BY <1>1, <1>7, <2>1 DEF Allowed
  <2> QED
    BY <1>8, <2>2 DEF Copies
<1> QED
  BY <1>7, <1>10, <1>11, SameFile DEF Alone

(* The rename is where the state on disk becomes the copy of the thread.   *)
LEMMA RenameStep ==
  ASSUME OneThread, Alone, NEW t \in Threads, RenameTmp(t), TypeOK'
  PROVE  Alone' /\ Kept
<1>1. pc[t] = "rename" /\ Proceed(t) /\ Forget(body)
  BY DEF RenameTmp
<1>2. tmp \in Inodes /\ tmp # NoInode /\ body[tmp] = Saved(mem[t])
  BY <1>1, SomeFacts DEF Alone, Temporary
<1>3. main' = tmp /\ tmp' = NoInode
  BY <1>2 DEF RenameTmp
<1>4. body'[tmp] = Saved(mem[t])
  BY <1>1, <1>2, <1>3 DEF Forget
<1>5. File' = mem[t]
  BY <1>2, <1>3, <1>4 DEF File, Saved
<1>6. Copies' /\ Temporary'
  BY <1>1, <1>2, <1>3, <1>5, ProceedAlone
<1>7. Allowed(t)
  BY <1>1 DEF Alone, Copies
<1>8. Kept
  BY <1>1, <1>5, <1>7 DEF Kept, Allowed
<1> QED
  BY <1>6, <1>8 DEF Alone

LEMMA FailStep ==
  ASSUME OneThread, Alone, NEW t \in Threads, SaveFails(t) \/ Crash(t), TypeOK'
  PROVE  Alone' /\ Kept
<1>1. UNCHANGED <<main, tmp>> /\ Forget(body) /\ pc[t] # "idle"
  BY DEF SaveFails, Crash
<1>2. File' = File
  BY <1>1, FileStays DEF Alone
<1>3. main' # NoInode => main' # tmp'
  BY <1>1 DEF Alone, Temporary
<1>4. CASE SaveFails(t)
  BY <1>1, <1>2, <1>3, <1>4, SameFile, ProceedAlone DEF SaveFails, Alone
<1>5. CASE Crash(t)
  BY <1>2, <1>3, <1>5, SameFile, EndAlone DEF Crash, Alone
<1> QED
  BY <1>4, <1>5

LEMMA AloneStep ==
  ASSUME OneThread, Alone, [Next]_vars
  PROVE  Alone' /\ Kept
<1>1. TypeOK'
  BY StepTypes DEF Alone
<1>2. CASE Next
  <2>1. PICK t \in Threads :
          \/ BeginCheck(t) \/ BeginCliCheck(t) \/ Fetch(t)
          \/ \E kind \in {"applied", "rollback", "cleanup", "skip"},
                v, app \in Versions : BeginChange(t, kind, v, app)
          \/ OpenTmp(t) \/ WriteTmp(t) \/ RenameTmp(t)
          \/ SaveFails(t) \/ Crash(t)
    BY <1>2 DEF Next
  <2> QED
    BY <1>1, <2>1, BeginStep, FetchStep, OpenStep, WriteStep, RenameStep, FailStep
<1>3. CASE UNCHANGED vars
  <2>1. UNCHANGED <<body, main, tmp, pc, job, mem, fd>>
    BY <1>3 DEF vars
  <2>2. File' = File
    BY <2>1 DEF File
  <2> QED
    BY <1>1, <2>1, <2>2, SameFile DEF Alone, Copies, Allowed, Temporary
<1> QED
  BY <1>2, <1>3

(* With one thread at a time the highest manifest seen never falls, ...    *)
THEOREM SeenIsKept ==
  ASSUME OneThread
  PROVE  Spec => SeenNeverFalls
<1>1. Alone /\ [Next]_vars => Alone'
  BY AloneStep
<1>2. Alone /\ [Next]_vars => [~Older(File'.seen, File.seen)]_vars
  BY AloneStep DEF Kept
<1> QED
  BY InitAlone, <1>1, <1>2, PTL DEF Spec, SeenNeverFalls

(* ... the client id on disk is not replaced, ...                          *)
THEOREM ClientIdIsKept ==
  ASSUME OneThread
  PROVE  Spec => ClientIdStable
<1>1. Alone /\ [Next]_vars => Alone'
  BY AloneStep
<1>2. Alone /\ [Next]_vars =>
        [File.client # None => File'.client = File.client]_vars
  BY AloneStep DEF Kept
<1> QED
  BY InitAlone, <1>1, <1>2, PTL DEF Spec, ClientIdStable

(* ... and a skip and the mark of an installed version change only by a    *)
(* job that decides about them, whatever fails in between.                 *)
THEOREM DecisionsAreKept ==
  ASSUME OneThread
  PROVE  Spec => DecisionsKept
<1>1. Alone /\ [Next]_vars => Alone'
  BY AloneStep
<1>2. Alone /\ [Next]_vars =>
        [/\ File'.skipped # File.skipped =>
              \E t \in Threads :
                pc[t] = "rename" /\ job[t].kind \in {"skip", "rollback"}
         /\ File'.pending # File.pending =>
              \E t \in Threads :
                /\ pc[t] = "rename"
                /\ \/ /\ job[t].kind \in {"applied", "rollback"}
                      /\ job[t].v = File'.pending
                   \/ job[t].kind = "cleanup" /\ job[t].v = File.pending]_vars
  BY AloneStep DEF Kept
<1> QED
  BY InitAlone, <1>1, <1>2, PTL DEF Spec, DecisionsKept
=============================================================================
