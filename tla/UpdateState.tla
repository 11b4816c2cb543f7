----------------------------- MODULE UpdateState -----------------------------
(***************************************************************************)
(* update-state.json (src/src/core/updater/state.rs): every thread that    *)
(* changes it loads the whole file, changes some fields of its copy and    *)
(* saves the whole copy, through one temporary name and a rename, without  *)
(* a lock.  A check holds its copy across the network requests.            *)
(*                                                                         *)
(* Files are inodes: a name can be renamed away from a thread that still   *)
(* writes to the inode it opened.                                          *)
(***************************************************************************)
EXTENDS Integers, FiniteSets

CONSTANTS
  Threads,     \* checks, installs, clean-ups and dialogs, of all processes
  Versions,    \* versions released, a set of positive numbers
  Dates,       \* publication dates, a set of positive numbers
  Inodes,      \* identities of files
  NoInode,     \* no file has this name
  MaxIds       \* bound on the client ids generated (a bound of the model)

ASSUME StateAssumption ==
  /\ Versions \subseteq Nat \ {0}
  /\ Dates \subseteq Nat \ {0}
  /\ NoInode \notin Inodes
  /\ MaxIds \in Nat

None == 0
Manifests == Versions \X Dates
NothingSeen == <<None, None>>

(* UpdateState: highest_seen_version and highest_seen_pub_date as a pair.  *)
States == [seen : Manifests \cup {NothingSeen}, skipped : Versions \cup {None},
           pending : Versions \cup {None}, client : 0 .. MaxIds]
Default == [seen |-> NothingSeen, skipped |-> None, pending |-> None,
            client |-> None]

(* What a file can hold: a saved state, nothing yet, or a mixture of two   *)
(* writes that is not JSON.                                                *)
Bodies == [holds : {"state", "nothing", "garbage"}, st : States]
Saved(st) == [holds |-> "state", st |-> st]
Empty == [holds |-> "nothing", st |-> Default]
Garbage == [holds |-> "garbage", st |-> Default]

VARIABLES
  body,      \* body[i] : content of inode i
  main,      \* inode named update-state.json
  tmp,       \* inode named update-state.json.tmp
  pc,        \* pc[t] : where the load-change-save of thread t is
  job,       \* job[t] : what thread t does, and its version
  mem,       \* mem[t] : the copy of the state that t loaded
  fd,        \* fd[t] : the inode that t opened for its save
  ids        \* client ids generated so far

vars == <<body, main, tmp, pc, job, mem, fd, ids>>
files == <<body, main, tmp>>

Jobs == {"none", "check", "clicheck", "applied", "rollback", "cleanup", "skip"}

TypeOK ==
  /\ body \in [Inodes -> Bodies]
  /\ main \in Inodes \cup {NoInode}
  /\ tmp \in Inodes \cup {NoInode}
  /\ pc \in [Threads -> {"idle", "fetch", "open", "write", "rename"}]
  /\ job \in [Threads -> [kind : Jobs, v : Versions \cup {None}, last : BOOLEAN]]
  /\ mem \in [Threads -> States]
  /\ fd \in [Threads -> Inodes \cup {NoInode}]
  /\ ids \in 0 .. MaxIds

-----------------------------------------------------------------------------
NoJob == [kind |-> "none", v |-> None, last |-> TRUE]

(* load_from: a file that is missing or is not JSON is the default state.  *)
File == IF main = NoInode THEN Default ELSE body[main].st

(* One manifest is older than another: a lower version, or the same one    *)
(* published earlier.                                                      *)
Older(m, n) == m[1] < n[1] \/ (m[1] = n[1] /\ m[2] < n[2])

IsStale(st, m) == Older(m, st.seen)
(* Mutant: the version is stored as the date and the date as the version.  *)
RecordSwapped(st, m) ==
  IF Older(st.seen, m) THEN [st EXCEPT !.seen = <<m[2], m[1]>>] ELSE st

RecordSeen(st, m) == IF Older(st.seen, m) THEN [st EXCEPT !.seen = m] ELSE st

(* Mutant: an install also forgets the version the user skipped.           *)
ForgetsSkip(st, kind, v, app) ==
  CASE kind = "applied" -> [st EXCEPT !.pending = v, !.skipped = None]
    [] kind = "rollback" -> [st EXCEPT !.pending = v, !.skipped = app]
    [] kind = "cleanup" -> [st EXCEPT !.pending = None]
    [] kind = "skip" -> [st EXCEPT !.skipped = v]

(* The fields a job other than a check changes in the state it loaded.     *)
Changed(st, kind, v, app) ==
  CASE kind = "applied" -> [st EXCEPT !.pending = v]
    [] kind = "rollback" -> [st EXCEPT !.pending = v, !.skipped = app]
    [] kind = "cleanup" -> [st EXCEPT !.pending = None]
    [] kind = "skip" -> [st EXCEPT !.skipped = v]

Init ==
  /\ body = [i \in Inodes |-> Empty]
  /\ main = NoInode /\ tmp = NoInode
  /\ pc = [t \in Threads |-> "idle"]
  /\ job = [t \in Threads |-> NoJob]
  /\ mem = [t \in Threads |-> Default]
  /\ fd = [t \in Threads |-> NoInode]
  /\ ids = 0

Begin(t) == pc[t] = "idle"

Goto(t, s) == pc' = [pc EXCEPT ![t] = s]

(* Thread t is done, or it and its process die: its copy is forgotten.     *)
End(t) ==
  /\ Goto(t, "idle")
  /\ job' = [job EXCEPT ![t] = NoJob]
  /\ mem' = [mem EXCEPT ![t] = Default]
  /\ fd' = [fd EXCEPT ![t] = NoInode]

-----------------------------------------------------------------------------
(* A check of a window: load, save at once if the client id is new, then   *)
(* fetch.  The check of `mist update' generates no id.                     *)
BeginCheck(t) ==
  /\ Begin(t)
  /\ \/ /\ File.client # None
        /\ mem' = [mem EXCEPT ![t] = File]
        /\ job' = [job EXCEPT ![t] = [NoJob EXCEPT !.kind = "check"]]
        /\ Goto(t, "fetch")
        /\ UNCHANGED ids
     \/ /\ File.client = None /\ ids < MaxIds
        /\ ids' = ids + 1
        /\ mem' = [mem EXCEPT ![t] = [File EXCEPT !.client = ids']]
        /\ job' = [job EXCEPT ![t] = [NoJob EXCEPT !.kind = "check",
                                                   !.last = FALSE]]
        /\ Goto(t, "open")
  /\ UNCHANGED <<files, fd>>

(* Mutant: the command line starts from an empty state.                    *)
CheckFromDefault(t) ==
  /\ Begin(t)
  /\ mem' = [mem EXCEPT ![t] = Default]
  /\ job' = [job EXCEPT ![t] = [NoJob EXCEPT !.kind = "clicheck"]]
  /\ Goto(t, "fetch")
  /\ UNCHANGED <<files, fd, ids>>

BeginCliCheck(t) ==
  /\ Begin(t)
  /\ mem' = [mem EXCEPT ![t] = File]
  /\ job' = [job EXCEPT ![t] = [NoJob EXCEPT !.kind = "clicheck"]]
  /\ Goto(t, "fetch")
  /\ UNCHANGED <<files, fd, ids>>

(* A verified manifest that is not older than the copy has seen is         *)
(* recorded; every source failing or being stale ends the check unsaved.   *)
Fetch(t) ==
  /\ pc[t] = "fetch"
  /\ \/ \E m \in Manifests :
          /\ ~IsStale(mem[t], m)
          /\ mem' = [mem EXCEPT ![t] = RecordSeen(@, m)]
          /\ Goto(t, "open")
          /\ UNCHANGED <<job, fd>>
     \/ End(t)
  /\ UNCHANGED <<files, ids>>

(* Mutant: a clean-up clears the mark of any version.                      *)
ClearsAnyMark(t, kind, v, app) ==
  /\ Begin(t)
  /\ mem' = [mem EXCEPT ![t] = Changed(File, kind, v, app)]
  /\ job' = [job EXCEPT ![t] = [NoJob EXCEPT !.kind = kind, !.v = v]]
  /\ Goto(t, "open")
  /\ UNCHANGED <<files, fd, ids>>

(* The end of apply_update and of rollback, the Skip button, and the part  *)
(* of cleanup_after_start that clears the mark of version v now running.   *)
BeginChange(t, kind, v, app) ==
  /\ Begin(t)
  /\ kind = "cleanup" => File.pending = v
  /\ mem' = [mem EXCEPT ![t] = Changed(File, kind, v, app)]
  /\ job' = [job EXCEPT ![t] = [NoJob EXCEPT !.kind = kind, !.v = v]]
  /\ Goto(t, "open")
  /\ UNCHANGED <<files, fd, ids>>

-----------------------------------------------------------------------------
(* save_to                                                                 *)

Free == {i \in Inodes : i \notin {main, tmp} /\ \A t \in Threads : fd[t] # i}

(* Mutant: the state file itself is truncated.                             *)
OpenMain(t) ==
  /\ pc[t] = "open"
  /\ \E i \in IF main = NoInode THEN Free ELSE {main} :
       /\ tmp' = i
       /\ body' = [body EXCEPT ![i] = Empty]
       /\ fd' = [fd EXCEPT ![t] = i]
  /\ Goto(t, "write")
  /\ UNCHANGED <<main, job, mem, ids>>

(* fs::write creates the temporary file or truncates the one there is.     *)
OpenTmp(t) ==
  /\ pc[t] = "open"
  /\ \E i \in IF tmp = NoInode THEN Free ELSE {tmp} :
       /\ tmp' = i
       /\ body' = [body EXCEPT ![i] = Empty]
       /\ fd' = [fd EXCEPT ![t] = i]
  /\ Goto(t, "write")
  /\ UNCHANGED <<main, job, mem, ids>>

(* A file with no name that no thread has open is gone.                    *)
Forget(bodies) ==
  body' = [i \in Inodes |->
             IF i \in {main', tmp'} \/ \E t \in Threads : fd'[t] = i
             THEN bodies[i] ELSE Empty]

(* Bytes over the bytes of another writer may leave the tail of those.     *)
WriteTmp(t) ==
  /\ pc[t] = "write"
  /\ UNCHANGED <<main, tmp>>
  /\ fd' = [fd EXCEPT ![t] = NoInode]
  /\ \E new \in {Saved(mem[t])}
               \cup (IF body[fd[t]] = Empty THEN {} ELSE {Garbage}) :
       Forget([body EXCEPT ![fd[t]] = new])
  /\ Goto(t, "rename")
  /\ UNCHANGED <<job, mem, ids>>

(* A window's check that saved its new id goes on to fetch; any other      *)
(* thread is done.  The result of a save is ignored.                       *)
Proceed(t) ==
  IF job[t].last THEN End(t)
  ELSE /\ Goto(t, "fetch")
       /\ job' = [job EXCEPT ![t].last = TRUE]
       /\ fd' = [fd EXCEPT ![t] = NoInode]
       /\ UNCHANGED mem

(* The rename fails when another thread already renamed the file.          *)
RenameTmp(t) ==
  /\ pc[t] = "rename"
  /\ \/ tmp # NoInode /\ main' = tmp /\ tmp' = NoInode
     \/ tmp = NoInode /\ UNCHANGED <<main, tmp>>
  /\ Proceed(t)
  /\ Forget(body)
  /\ UNCHANGED ids

(* Any step of a save can fail (no space, no permission).                  *)
SaveFails(t) ==
  /\ pc[t] \in {"open", "write", "rename"}
  /\ UNCHANGED <<main, tmp, ids>>
  /\ Proceed(t)
  /\ Forget(body)

(* The process dies.                                                       *)
Crash(t) ==
  /\ pc[t] # "idle"
  /\ UNCHANGED <<main, tmp, ids>>
  /\ End(t)
  /\ Forget(body)

-----------------------------------------------------------------------------
Next ==
  \E t \in Threads :
    \/ BeginCheck(t) \/ BeginCliCheck(t) \/ Fetch(t)
    \/ \E kind \in {"applied", "rollback", "cleanup", "skip"},
          v, app \in Versions : BeginChange(t, kind, v, app)
    \/ OpenTmp(t) \/ WriteTmp(t) \/ RenameTmp(t)
    \/ SaveFails(t) \/ Crash(t)

Spec == Init /\ [][Next]_vars
-----------------------------------------------------------------------------
(* Properties                                                              *)

(* record_seen "only moves up": the highest manifest seen that a check     *)
(* would load never gets lower, whatever dies in the middle of a save.     *)
SeenNeverFalls == [][~Older(File'.seen, File.seen)]_vars

(* What was decided stays decided.  A skip chosen by the user stays until  *)
(* another skip or a rollback; the mark of an installed version stays until*)
(* an install or a rollback replaces it, or a window of exactly that       *)
(* version clears it.                                                      *)
DecisionsKept ==
  [][/\ File'.skipped # File.skipped =>
          \E t \in Threads :
            pc[t] = "rename" /\ job[t].kind \in {"skip", "rollback"}
     /\ File'.pending # File.pending =>
          \E t \in Threads :
            /\ pc[t] = "rename"
            /\ \/ /\ job[t].kind \in {"applied", "rollback"}
                  /\ job[t].v = File'.pending
               \/ job[t].kind = "cleanup" /\ job[t].v = File.pending]_vars

(* "The instance id stays stable even when this check fails"               *)
(* (app_update.rs, update_start_check): once on disk it is not replaced.   *)
ClientIdStable ==
  [][File.client # None => File'.client = File.client]_vars
=============================================================================
