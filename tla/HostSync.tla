------------------------------ MODULE HostSync ------------------------------
(***************************************************************************)
(* Account sync (src/src/core/host_sync.rs and its callers in              *)
(* src/src/ui): devices of one account exchange their host list, and on    *)
(* request the passwords, with a server that keeps one document and one    *)
(* envelope of passwords, each under an ETag.                              *)
(*                                                                         *)
(* A sync is a thread that works on a copy of the sessions taken when it   *)
(* started; the window applies its outcome in a later frame, and the user  *)
(* works on meanwhile.  The server is external: it refuses a write whose   *)
(* If-Match is not the ETag of what it keeps, with 409 and its copy or     *)
(* with 412 or 428.  An ETag stands for the very copy it was served with,  *)
(* so it is represented by that copy.                                      *)
(***************************************************************************)
EXTENDS HostMerge

CONSTANTS
  Devices,
  CredDevices, \* where the sync of passwords may be switched on
  New, NewPassword, \* what the user types for a new session
  Refusals,   \* how the server refuses: "conflict" (409), "precondition"
  MaxClock,   \* seconds 1 .. MaxClock (a bound of the model)
  MaxEdits,   \* bound on what the users change
  Faults,     \* "failure" (of a request), "loss" (of an answer), "crash",
              \* "recovery" (a user who has only the recovery code)
  MaxFaults,  \* bound on how many there are
  MaxTies     \* no sync begins after more ties (a bound of the model)

ASSUME SyncAssumption ==
  /\ New \in Values /\ NewPassword \in AllPasswords
  /\ Refusals # {} /\ Refusals \subseteq {"conflict", "precondition"}
  /\ Faults \subseteq {"failure", "loss", "crash", "recovery"}
  /\ {MaxClock, MaxEdits, MaxFaults, MaxTies} \subseteq Nat
  /\ MaxClock > 0

VARIABLES
  clock,    \* the second it is, the same on all devices
  sess,     \* sess[d] : the sessions of the device, as saved
  last,     \* last[d] : last_document of the saved sync state
  stamps,   \* stamps[d] : session_secret_stamps of the saved sync state
  creds,    \* creds[d] : is the sync of passwords switched on
  job,      \* job[d] : the sync under way
  hosts,    \* the document of the server, Nothing before the first
  secrets,  \* its envelope of passwords, Nothing before the first
  made,     \* the hosts added so far
  edits, faults, ties, \* how many changes, faults and ties so far
  typed,    \* history: the stamps of the newest changes still wanted
  lost      \* history: an outcome undid what the user did during the sync

vars == <<clock, sess, last, stamps, creds, job, hosts, secrets, made,
          edits, faults, ties, typed, lost>>

Stages == {"idle", "get", "put", "put2", "force",
           "cget", "cput", "cput2", "done"}

(* sent : the ids of the sessions copied at the start.                     *)
(* doc : the local document, then the merged one; base : the copy of the   *)
(* server it was merged with, which If-Match names; view, upload, cbase :  *)
(* the same for passwords; gotHosts, gotCreds : what the outcome applies.  *)
NoJob == [stage |-> "idle", creds |-> FALSE, gotHosts |-> FALSE,
          gotCreds |-> FALSE, sent |-> {}, doc |-> Nothing, base |-> Nothing,
          view |-> Nothing, upload |-> Nothing, cbase |-> Nothing]

-----------------------------------------------------------------------------
(* The users                                                               *)

Changes == edits < MaxEdits /\ edits' = edits + 1

Offline == UNCHANGED <<clock, last, stamps, job, hosts, secrets, faults, ties,
                       lost>>

(* SessionManager::add_session, update_session, delete_session.            *)
With(f, x, y) == [i \in DOMAIN f \cup {x} |-> IF i = x THEN y ELSE f[i]]

Without(f, x) == [i \in DOMAIN f \ {x} |-> f[i]]

Save(d, id, s) ==
  /\ sess' = [sess EXCEPT ![d] = With(@, id, s)]
  /\ typed' = With(typed, id, clock)

Add(d, h) ==
  /\ h \notin made
  /\ made' = made \cup {h}
  /\ Save(d, <<h>>, [val |-> New, mark |-> FALSE, at |-> clock,
                   pw |-> NewPassword])
  /\ UNCHANGED <<creds, edits>>
  /\ Offline

Update(d, id, v, p) ==
  /\ Changes
  /\ id \in DOMAIN sess[d]
  /\ Save(d, id, [sess[d][id] EXCEPT !.val = v, !.pw = p, !.at = clock])
  /\ (v = sess[d][id].val) # (p = sess[d][id].pw)
  /\ UNCHANGED <<creds, made>>
  /\ Offline

Delete(d, id) ==
  /\ Changes
  /\ id \in DOMAIN sess[d]
  /\ sess' = [sess EXCEPT ![d] = Without(@, id)]
  /\ typed' = IF id \in DOMAIN typed /\ typed[id] = sess[d][id].at
              THEN Without(typed, id) ELSE typed
  /\ UNCHANGED <<creds, made>>
  /\ Offline

SwitchCreds(d) ==
  /\ d \in CredDevices
  /\ ~creds[d]
  /\ creds' = [creds EXCEPT ![d] = TRUE]
  /\ UNCHANGED <<sess, made, edits, typed>>
  /\ Offline

Tick ==
  /\ clock < MaxClock
  /\ clock' = clock + 1
  /\ UNCHANGED <<sess, last, stamps, creds, job, hosts, secrets, made,
                 edits, faults, ties, typed, lost>>

-----------------------------------------------------------------------------
(* The exchange of the host list                                           *)

Faulty(fault) ==
  /\ fault \in Faults
  /\ faults < MaxFaults /\ faults' = faults + 1

At(d, stage) == job[d].stage = stage
Goes(d, j) == job' = [job EXCEPT ![d] = j]

Working == UNCHANGED <<clock, sess, last, stamps, creds, made, edits, typed,
                       lost>>

Start(d) ==
  /\ At(d, "idle")
  /\ ties <= MaxTies
  /\ Goes(d, [NoJob EXCEPT
       !.stage = "get", !.creds = creds[d], !.sent = DOMAIN sess[d],
       !.doc = LocalDocument(sess[d], last[d], clock),
       !.view = IF creds[d] THEN LocalSecrets(sess[d], stamps[d], clock)
                ELSE Nothing])
  /\ UNCHANGED <<hosts, secrets, faults, ties>>
  /\ Working

AfterHostsStage(j) == IF j.creds THEN "cget" ELSE "done"

HostsDone(j, doc) == [j EXCEPT !.gotHosts = TRUE, !.doc = doc,
                               !.base = Nothing, !.stage = AfterHostsStage(j)]
HostsFailed(j) == [j EXCEPT !.doc = Nothing, !.base = Nothing,
                            !.stage = AfterHostsStage(j)]

(* Nothing is written when the merge is what the server already has.       *)
MergeHosts(d, next) ==
  LET merged == Merge(job[d].doc, hosts)
  IN  /\ ties' = ties + IF Tied(job[d].doc, hosts) = {} THEN 0 ELSE 1
      /\ Goes(d, IF merged = hosts THEN HostsDone(job[d], merged)
                 ELSE [job[d] EXCEPT !.doc = merged, !.base = hosts,
                                     !.stage = next])

Get(d) ==
  /\ At(d, "get")
  /\ MergeHosts(d, "put")
  /\ UNCHANGED <<hosts, secrets, faults>>
  /\ Working

Stored(d) ==
  /\ hosts = job[d].base
  /\ hosts' = job[d].doc
  /\ Goes(d, HostsDone(job[d], job[d].doc))
  /\ UNCHANGED ties

Refused(d, how) ==
  /\ how \in Refusals
  /\ hosts # job[d].base
  /\ UNCHANGED hosts

Put(d) ==
  /\ At(d, "put")
  /\ \/ Stored(d)
     \/ Refused(d, "conflict") /\ MergeHosts(d, "put2")
     \/ /\ Refused(d, "precondition")
        /\ Goes(d, [job[d] EXCEPT !.stage = "force"])
        /\ UNCHANGED ties
  /\ UNCHANGED <<secrets, faults>>
  /\ Working

(* A second conflict is left for the next sync, with the merge applied.    *)
PutAgain(d) ==
  /\ At(d, "put2")
  /\ \/ Stored(d)
     \/ /\ Refused(d, "conflict")
        /\ Goes(d, HostsDone(job[d], job[d].doc))
        /\ UNCHANGED ties
     \/ /\ Refused(d, "precondition")
        /\ Goes(d, HostsFailed(job[d]))
        /\ UNCHANGED ties
  /\ UNCHANGED <<secrets, faults>>
  /\ Working

(* If-Match: * stores over whatever is there.                              *)
PutAnything(d) ==
  /\ At(d, "force")
  /\ hosts' = job[d].doc
  /\ Goes(d, HostsDone(job[d], job[d].doc))
  /\ UNCHANGED <<secrets, faults, ties>>
  /\ Working

-----------------------------------------------------------------------------
(* The exchange of the passwords                                           *)

DeletedHosts(d) == Tombs(IF job[d].gotHosts THEN job[d].doc ELSE last[d])

CredsDone(j, view) == [j EXCEPT !.gotCreds = TRUE, !.view = view,
                                !.upload = Nothing, !.cbase = Nothing,
                                !.stage = "done"]
CredsFailed(j) == [j EXCEPT !.view = Nothing, !.upload = Nothing,
                            !.cbase = Nothing, !.stage = "done"]

MergeCreds(d, next) ==
  LET view == LocalView(job[d].view, secrets, DeletedHosts(d))
      upload == UploadView(job[d].view, secrets, DeletedHosts(d))
  IN  [job[d] EXCEPT !.view = view, !.upload = upload, !.cbase = secrets,
                     !.stage = next]

(* An envelope that only the recovery code opens is not written again.     *)
GetCreds(d, passphrase) ==
  /\ At(d, "cget")
  /\ LET merged == MergeCreds(d, "cput")
     IN  Goes(d, IF secrets # Nothing
                    /\ (~passphrase \/ merged.upload = secrets)
                 THEN CredsDone(merged, merged.view) ELSE merged)
  /\ IF passphrase THEN UNCHANGED faults ELSE Faulty("recovery")
  /\ UNCHANGED <<hosts, secrets, ties>>
  /\ Working

StoredCreds(d) ==
  /\ secrets = job[d].cbase
  /\ secrets' = job[d].upload
  /\ Goes(d, CredsDone(job[d], job[d].view))

RefusedCreds(d, how) ==
  /\ how \in Refusals
  /\ secrets # job[d].cbase
  /\ UNCHANGED secrets

PutCreds(d) ==
  /\ At(d, "cput")
  /\ \/ StoredCreds(d)
     \/ RefusedCreds(d, "conflict") /\ Goes(d, MergeCreds(d, "cput2"))
     \/ RefusedCreds(d, "precondition") /\ Goes(d, CredsFailed(job[d]))
  /\ UNCHANGED <<hosts, faults, ties>>
  /\ Working

PutCredsAgain(d) ==
  /\ At(d, "cput2")
  /\ \/ StoredCreds(d)
     \/ /\ RefusedCreds(d, "conflict")
        /\ Goes(d, CredsDone(job[d], job[d].view))
     \/ RefusedCreds(d, "precondition") /\ Goes(d, CredsFailed(job[d]))
  /\ UNCHANGED <<hosts, faults, ties>>
  /\ Working

-----------------------------------------------------------------------------
(* The outcome                                                             *)

(* The sessions as they are now, not as they were sent, are the ones the   *)
(* document is applied to.                                                 *)
Applied(d) ==
  LET after == IF job[d].gotHosts THEN AfterHosts(sess[d], job[d].doc)
               ELSE sess[d]
  IN  IF job[d].gotCreds THEN AfterSecrets(after, job[d].view) ELSE after

(* A session that was changed since it was sent gives way to an older      *)
(* state or deletion of it, or one that was deleted since comes back.      *)
Undone(d, id) ==
  IF id \notin DOMAIN sess[d] THEN id \in job[d].sent
  ELSE IF id \in DOMAIN Applied(d) THEN sess[d][id].at > Applied(d)[id].at
  ELSE sess[d][id].at > Entry(job[d].doc, id).at

ApplySessions(d) ==
  /\ sess' = [sess EXCEPT ![d] = Applied(d)]
  /\ lost' = (lost \/ \E id \in DOMAIN sess[d] \cup DOMAIN Applied(d) :
                           Undone(d, id))

SaveState(d) ==
  /\ last' = IF job[d].gotHosts THEN [last EXCEPT ![d] = job[d].doc] ELSE last
  /\ stamps' = IF job[d].gotCreds
               THEN [stamps EXCEPT ![d] = Stamps(job[d].view)] ELSE stamps

Apply(d) ==
  /\ At(d, "done")
  /\ ApplySessions(d)
  /\ SaveState(d)
  /\ Goes(d, NoJob)
  /\ UNCHANGED <<clock, creds, hosts, secrets, made, edits, faults, ties,
                 typed>>

-----------------------------------------------------------------------------
(* Faults                                                                  *)

(* No answer, an error status, or an envelope that does not open.          *)
Gone(j) == IF j.stage \in {"get", "put", "put2", "force"} THEN HostsFailed(j)
           ELSE CredsFailed(j)

Fail(d) ==
  /\ job[d].stage \notin {"idle", "done"}
  /\ Faulty("failure")
  /\ Goes(d, Gone(job[d]))
  /\ UNCHANGED <<hosts, secrets, ties>>
  /\ Working

(* The server stores what it is sent and its answer is lost.               *)
LoseAnswer(d) ==
  /\ \/ /\ job[d].stage \in {"put", "put2"} /\ hosts = job[d].base
        /\ hosts' = job[d].doc
        /\ UNCHANGED secrets
     \/ /\ At(d, "force")
        /\ hosts' = job[d].doc
        /\ UNCHANGED secrets
     \/ /\ job[d].stage \in {"cput", "cput2"} /\ secrets = job[d].cbase
        /\ secrets' = job[d].upload
        /\ UNCHANGED hosts
  /\ Faulty("loss")
  /\ Goes(d, Gone(job[d]))
  /\ UNCHANGED ties
  /\ Working

(* The program ends during a sync, possibly between the save of the        *)
(* sessions and the save of the sync state.                                *)
Crash(d) ==
  /\ ~At(d, "idle")
  /\ Faulty("crash")
  /\ \/ UNCHANGED <<sess, lost>>
     \/ At(d, "done") /\ ApplySessions(d)
  /\ Goes(d, NoJob)
  /\ UNCHANGED <<clock, last, stamps, creds, hosts, secrets, made, edits,
                 ties, typed>>

-----------------------------------------------------------------------------
Init ==
  /\ clock = 1
  /\ sess = [d \in Devices |-> Nothing]
  /\ last = [d \in Devices |-> Nothing]
  /\ stamps = [d \in Devices |-> Nothing]
  /\ creds = [d \in Devices |-> FALSE]
  /\ job = [d \in Devices |-> NoJob]
  /\ hosts = Nothing /\ secrets = Nothing
  /\ made = {}
  /\ edits = 0 /\ faults = 0 /\ ties = 0
  /\ typed = Nothing
  /\ lost = FALSE

Sync(d) ==
  \/ Get(d) \/ Put(d) \/ PutAgain(d) \/ PutAnything(d)
  \/ \E passphrase \in BOOLEAN : GetCreds(d, passphrase)
  \/ PutCreds(d) \/ PutCredsAgain(d) \/ Apply(d)

User(d) ==
  \/ \E h \in Hosts : Add(d, h)
  \/ \E id \in DOMAIN sess[d], v \in Values, p \in Passwords :
       Update(d, id, v, p)
  \/ \E id \in DOMAIN sess[d] : Delete(d, id)
  \/ SwitchCreds(d)

Next ==
  \/ Tick
  \/ \E d \in Devices :
       User(d) \/ Start(d) \/ Sync(d) \/ Fail(d) \/ LoseAnswer(d) \/ Crash(d)

Spec == Init /\ [][Next]_vars
FairSpec == Spec /\ \A d \in Devices : WF_vars(Start(d) \/ Sync(d))

-----------------------------------------------------------------------------
(* Properties                                                              *)

(* Documents, envelopes, sessions and the sync states are well formed.     *)
TypeOK ==
  /\ clock \in 1 .. MaxClock
  /\ {DOMAIN sess, DOMAIN last, DOMAIN stamps, DOMAIN job} = {Devices}
  /\ \A d \in Devices :
       /\ IsMap(sess[d], Sessions) /\ IsDocument(last[d])
       /\ IsMap(stamps[d], [pw : AllPasswords, at : Nat])
       /\ DOMAIN job[d] = DOMAIN NoJob /\ job[d].stage \in Stages
       /\ {job[d].creds, job[d].gotHosts, job[d].gotCreds} \subseteq BOOLEAN
       /\ job[d].sent \subseteq Ids
       /\ IsDocument(job[d].doc) /\ IsDocument(job[d].base)
       /\ \A m \in {job[d].view, job[d].upload, job[d].cbase} :
            IsMap(m, Secrets)
  /\ creds \in [Devices -> BOOLEAN]
  /\ IsDocument(hosts) /\ IsMap(secrets, Secrets)
  /\ made \subseteq Hosts
  /\ edits \in 0 .. MaxEdits /\ faults \in 0 .. MaxFaults /\ ties \in Nat
  /\ IsMap(typed, Nat) /\ lost \in BOOLEAN

(* What a device shows, and what the server serves.                        *)
Shown(d) == [id \in DOMAIN sess[d] |-> <<sess[d][id].val, sess[d][id].mark>>]
Served == [id \in {i \in DOMAIN hosts : ~Entry(hosts, i).deleted} |->
             <<Entry(hosts, id).val, Entry(hosts, id).mark>>]

(* Whatever the order of changes, syncs, refusals, faults and crashes:     *)
(* when the users stop, all devices come to show what the server has, and  *)
(* that is the newest change of each host or a deletion at least as new.   *)
(* Ties, and changes replaced while a sync ran, are left out: the runs     *)
(* sync_in_flight and the README show what becomes of those.               *)
Converges ==
  <>[](ties = 0 /\ ~lost =>
         /\ \A d \in Devices : Shown(d) = Served
         /\ \A id \in DOMAIN typed :
              id \in DOMAIN hosts /\ Entry(hosts, id).at >= typed[id])

(* A host that a device knows as deleted only comes back on it with a      *)
(* change that is at least as recent as the deletion, although other       *)
(* devices still have it, or write the whole document with If-Match: *.    *)
(* Not so a conflict copy: where the same two changes tie again, the copy  *)
(* is made again with the stamp it had.                                    *)
IsCopy(id) == Len(id) > 1
NoResurrection ==
  [][\A d \in Devices : \A id \in DOMAIN last[d] :
       ~IsCopy(id) /\ Entry(last[d], id).deleted
         /\ id \in DOMAIN sess'[d] \ DOMAIN sess[d]
         => sess'[d][id].at >= Entry(last[d], id).at]_vars

(* Two copies of a password differ for good only when neither is newer.    *)
PasswordAgrees(d, id) ==
  \/ id \notin DOMAIN secrets
  \/ sess[d][id].pw = secrets[id].pw
  \/ Tie(LocalSecrets(sess[d], stamps[d], clock)[id], secrets[id])

(* On the devices that sync passwords, each password comes to be the one   *)
(* in the envelope, or to tie with it.                                     *)
PasswordsConverge ==
  <>[](ties = 0 => \A d \in {e \in Devices : creds[e]} :
         \A id \in DOMAIN sess[d] : PasswordAgrees(d, id))

(* "The newer updated_at wins" (docs/tech/SECURITY.md:85): an outcome      *)
(* never replaces a session by an older state of it.  The code breaks it.  *)
NewerStays == ~lost
=============================================================================
