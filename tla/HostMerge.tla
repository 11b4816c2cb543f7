------------------------------ MODULE HostMerge ------------------------------
(***************************************************************************)
(* The data of account sync (src/src/core/host_sync.rs) and the pure       *)
(* functions on it: the host document a device makes of its sessions, the  *)
(* merge of two documents, the merge of two sets of session passwords, and *)
(* the sessions a device has afterwards.                                   *)
(*                                                                         *)
(* A document maps an id to the records it lists under that id, in order:  *)
(* the code sorts a document by id, and a document can hold one id twice.  *)
(* The id of a conflict copy, <id>~conflict~<updated_at>, is the id with   *)
(* the stamp appended.  A name, host, port, ... is one value, with a mark  *)
(* for the suffix " (conflict)" of the name.                               *)
(***************************************************************************)
EXTENDS Naturals, Sequences

CONSTANTS
  Hosts,      \* the sessions users can make (an id is new for each)
  Values,     \* what the fields of a session can hold
  Passwords,  \* what users type as a password
  NoPassword  \* the empty password

AllPasswords == Passwords \cup {NoPassword}

Ids == Seq(Hosts \cup Nat)
Records == [val : Values, mark : BOOLEAN, at : Nat, deleted : BOOLEAN]
Sessions == [val : Values, mark : BOOLEAN, at : Nat, pw : AllPasswords]
Secrets == [pw : AllPasswords, at : Nat, deleted : BOOLEAN]

(* The partial functions from D to R: documents, session lists and blobs.  *)
IsMap(f, R) ==
  /\ f = [x \in DOMAIN f |-> f[x]]
  /\ \A x \in DOMAIN f : x \in Ids /\ f[x] \in R
IsDocument(doc) == IsMap(doc, Seq(Records) \ {<<>>})

Nothing == <<>>

-----------------------------------------------------------------------------
(* Host documents                                                          *)

Record(s) == [val |-> s.val, mark |-> s.mark, at |-> s.at, deleted |-> FALSE]

Tombstone(r, now) ==
  IF r.deleted THEN r
  ELSE [r EXCEPT !.deleted = TRUE, !.at = IF now > r.at THEN now ELSE r.at]

(* Mutant of LocalDocument: old deletions are not sent again.              *)
LocalDocumentForgets(sess, previous, now) ==
  [id \in DOMAIN sess
          \cup {i \in DOMAIN previous : ~previous[i][1].deleted} |->
     IF id \in DOMAIN sess THEN <<Record(sess[id])>>
     ELSE [k \in DOMAIN previous[id] |-> Tombstone(previous[id][k], now)]]

(* What a device sends: its sessions, and a tombstone for every record of  *)
(* the previous document that is no session any more.                      *)
LocalDocument(sess, previous, now) ==
  [id \in DOMAIN sess \cup DOMAIN previous |->
     IF id \in DOMAIN sess THEN <<Record(sess[id])>>
     ELSE [k \in DOMAIN previous[id] |-> Tombstone(previous[id][k], now)]]

(* Where a list of records has deletions, and where it has hosts.          *)
Dead(records) == {k \in DOMAIN records : records[k].deleted}
Live(records) == DOMAIN records \ Dead(records)
First(places) == CHOOSE k \in places : \A j \in places : k <= j

(* A map built from a document keeps the last record of an id.             *)
Entry(doc, id) == doc[id][Len(doc[id])]

SameContent(l, r) == [l EXCEPT !.at = r.at] = r

(* Same stamp, different content: nothing tells which change was later.    *)
Tie(l, r) == l.at = r.at /\ ~SameContent(l, r)

(* Mutant of Keep: the local record wins unless the remote one is newer by *)
(* more than a second.                                                     *)
KeepLocal(l, r) == IF r.at > l.at + 1 THEN r ELSE l

Keep(l, r) ==
  IF Tie(l, r) THEN (IF l.deleted /\ ~r.deleted THEN r ELSE l)
  ELSE IF l.at >= r.at THEN l ELSE r

Both(local, remote) == DOMAIN local \cap DOMAIN remote

(* The ids whose other record becomes a conflict copy: not those where     *)
(* only one of the two is deleted.                                         *)
Tied(local, remote) ==
  {id \in Both(local, remote) :
     LET l == Entry(local, id)
         r == Entry(remote, id)
     IN  Tie(l, r) /\ l.deleted = r.deleted}

CopyId(id, r) == Append(id, r.at)
ConflictCopy(r) == [r EXCEPT !.mark = TRUE, !.deleted = FALSE]

(* The copy is pushed before the record that already has its id, if any.   *)
Merge(local, remote) ==
  LET ids == DOMAIN local \cup DOMAIN remote
      tied == Tied(local, remote)
      copyIds == {CopyId(id, Entry(remote, id)) : id \in tied}
      source(id) == SubSeq(id, 1, Len(id) - 1)
      chosen(id) == IF id \notin DOMAIN remote THEN Entry(local, id)
                    ELSE IF id \notin DOMAIN local THEN Entry(remote, id)
                    ELSE Keep(Entry(local, id), Entry(remote, id))
  IN  [id \in ids \cup copyIds |->
         (IF id \in copyIds
          THEN <<ConflictCopy(Entry(remote, source(id)))>> ELSE <<>>)
         \o (IF id \in ids THEN <<chosen(id)>> ELSE <<>>)]

-----------------------------------------------------------------------------
(* Passwords                                                               *)

(* When the password of a session was set: the stamp of the last sync as   *)
(* long as it is the same password, now when it is another, and before the *)
(* first sync the stamp of the session.                                    *)
SecretAt(id, s, stamps, now) ==
  IF id \notin DOMAIN stamps THEN s.at
  ELSE IF stamps[id].pw = s.pw THEN stamps[id].at
  ELSE now

LocalSecrets(sess, stamps, now) ==
  [id \in DOMAIN sess |->
     [pw |-> sess[id].pw, at |-> SecretAt(id, sess[id], stamps, now),
      deleted |-> FALSE]]

(* The stamps of the deleted hosts of a document.                          *)
Tombs(doc) ==
  [id \in {i \in DOMAIN doc : Dead(doc[i]) # {}} |->
     doc[id][First(Dead(doc[id]))].at]

Removed(at) == [pw |-> NoPassword, at |-> at, deleted |-> TRUE]

(* A tombstone that no password is newer than removes the password.        *)
Outdated(id, tombs, secrets) ==
  /\ id \in DOMAIN tombs
  /\ \A s \in secrets : tombs[id] >= s.at

(* What the device keeps and what it uploads differ for a tie only.        *)
KeptSecret(l, r) == Keep(l, r)

(* Mutant of UploadedSecret: the envelope keeps every password it has.     *)
UploadTheirs(l, r) == IF l.deleted = r.deleted THEN r ELSE Keep(l, r)

UploadedSecret(l, r) ==
  IF Tie(l, r) /\ l.deleted = r.deleted THEN r ELSE Keep(l, r)

MergeSecrets(local, remote, tombs, upload) ==
  [id \in DOMAIN local \cup DOMAIN remote |->
     LET of(m) == IF id \in DOMAIN m THEN {m[id]} ELSE {}
     IN  IF Outdated(id, tombs, of(local) \cup of(remote))
         THEN Removed(tombs[id])
         ELSE IF id \notin DOMAIN remote THEN local[id]
         ELSE IF id \notin DOMAIN local THEN remote[id]
         ELSE IF upload THEN UploadedSecret(local[id], remote[id])
         ELSE KeptSecret(local[id], remote[id])]

LocalView(local, remote, tombs) ==
  MergeSecrets(local, remote, tombs, FALSE)
UploadView(local, remote, tombs) ==
  MergeSecrets(local, remote, tombs, TRUE)

(* What a sync remembers of the passwords it leaves behind.                *)
Stamps(view) ==
  [id \in {i \in DOMAIN view : ~view[i].deleted} |->
     [pw |-> view[id].pw, at |-> view[id].at]]

-----------------------------------------------------------------------------
(* The sessions after a sync                                               *)

WithSecret(s, secret) ==
  IF secret.deleted THEN [s EXCEPT !.pw = NoPassword]
  ELSE IF s.pw = secret.pw THEN s
  ELSE [s EXCEPT !.pw = secret.pw,
                 !.at = IF secret.at > s.at THEN secret.at ELSE s.at]

(* Mutant of FromRecord: the password is left out.                         *)
FromRecordBare(r, pw) == [val |-> r.val, mark |-> r.mark, at |-> r.at]

(* The password of a session stays; a session of another device has none.  *)
FromRecord(r, pw) ==
  [val |-> r.val, mark |-> r.mark, at |-> r.at, pw |-> pw]

AfterHosts(sess, doc) ==
  [id \in (DOMAIN sess \ DOMAIN doc)
          \cup {i \in DOMAIN doc : Live(doc[i]) # {}} |->
     IF id \notin DOMAIN doc THEN sess[id]
     ELSE FromRecord(doc[id][First(Live(doc[id]))],
                     IF id \in DOMAIN sess /\ ~doc[id][1].deleted
                     THEN sess[id].pw ELSE NoPassword)]

AfterSecrets(sess, secrets) ==
  [id \in DOMAIN sess |->
     IF id \in DOMAIN secrets THEN WithSecret(sess[id], secrets[id])
     ELSE sess[id]]
=============================================================================
