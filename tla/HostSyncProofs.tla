--------------------------- MODULE HostSyncProofs ---------------------------
(***************************************************************************)
(* Theorems about account sync.  First about the functions of HostMerge,   *)
(* for documents and sets of passwords of any size: the merge of two host  *)
(* documents keeps every host and the newest change of each, brings two    *)
(* devices to the same result unless two changes tie, and adds nothing     *)
(* when it is repeated.  Then about HostSync, for any number of devices    *)
(* and hosts: type correctness, and that a deleted host does not return.   *)
(***************************************************************************)
EXTENDS HostSync, TLAPS, SequenceTheorems, WellFoundedInduction

(* What the merge decides to keep under an id.                             *)
Chosen(local, remote, id) ==
  IF id \notin DOMAIN remote THEN Entry(local, id)
  ELSE IF id \notin DOMAIN local THEN Entry(remote, id)
  ELSE Keep(Entry(local, id), Entry(remote, id))

Source(id) == SubSeq(id, 1, Len(id) - 1)
CopyIds(local, remote) ==
  {CopyId(id, Entry(remote, id)) : id \in Tied(local, remote)}
Copy(remote, id) == ConflictCopy(Entry(remote, Source(id)))
MergedIds(local, remote) ==
  DOMAIN local \cup DOMAIN remote \cup CopyIds(local, remote)

(* What the merge lists under an id: a copy, if it is the id of one, and   *)
(* then what was chosen, if it is the id of a host.                        *)
Listed(local, remote, id) ==
  (IF id \in CopyIds(local, remote) THEN <<Copy(remote, id)>> ELSE <<>>)
  \o (IF id \in DOMAIN local \cup DOMAIN remote
      THEN <<Chosen(local, remote, id)>> ELSE <<>>)

LEMMA OneRecord ==
  ASSUME NEW r \in Records
  PROVE  /\ <<r>> \in Seq(Records) /\ Len(<<r>>) = 1 /\ <<r>>[1] = r /\ <<r>> # <<>>
OBVIOUS

LEMMA EntryIsRecord ==
  ASSUME NEW doc, IsDocument(doc), NEW id \in DOMAIN doc
  PROVE  /\ Entry(doc, id) \in Records /\ id \in Ids
         /\ doc[id] \in Seq(Records) /\ doc[id] # <<>>
<1>1. doc[id] \in Seq(Records) /\ doc[id] # <<>> /\ id \in Ids
  BY DEF IsDocument, IsMap
<1>2. Len(doc[id]) \in 1 .. Len(doc[id])
  BY <1>1, EmptySeq, LenProperties
<1> QED
  BY <1>1, <1>2, ElementOfSeq DEF Entry

LEMMA KeepProperties ==
  ASSUME NEW l \in Records, NEW r \in Records
  PROVE  /\ Keep(l, r) \in {l, r} /\ Keep(l, r) \in Records
         /\ Keep(l, r).at >= l.at /\ Keep(l, r).at >= r.at
<1>1. l.at \in Nat /\ r.at \in Nat
  BY DEF Records
<1> QED
  BY <1>1 DEF Keep, Tie

(* The id of a copy names the host it is a copy of.                        *)
LEMMA CopyHasSource ==
  ASSUME NEW id \in Ids, NEW r \in Records
  PROVE  CopyId(id, r) \in Ids /\ Source(CopyId(id, r)) = id
<1> DEFINE S == Hosts \cup Nat
           c == CopyId(id, r)
<1>1. id \in Seq(S) /\ r.at \in S
  BY DEF Ids, Records
<1>2. /\ c \in Seq(S) /\ Len(c) = Len(id) + 1
      /\ \A i \in 1 .. Len(id) : c[i] = id[i]
  BY <1>1, AppendProperties DEF CopyId
<1>3. Len(id) \in Nat
  BY <1>1, LenProperties
<1>4. \A i \in 1 .. Len(id) : c[i] \in S
  BY <1>1, <1>2, ElementOfSeq
<1>5. /\ SubSeq(c, 1, Len(id)) \in Seq(S)
      /\ Len(SubSeq(c, 1, Len(id))) = Len(id)
      /\ \A i \in 1 .. Len(id) : SubSeq(c, 1, Len(id))[i] = c[i]
  <2>1. /\ SubSeq(c, 1, Len(id)) \in Seq(S)
        /\ Len(SubSeq(c, 1, Len(id))) = IF 1 <= Len(id) THEN Len(id) - 1 + 1 ELSE 0
        /\ \A i \in 1 .. Len(id) - 1 + 1 : SubSeq(c, 1, Len(id))[i] = c[1 + i - 1]
    BY <1>3, <1>4, SubSeqProperties
  <2> HIDE DEF c
  <2> QED
    BY <1>3, <2>1
<1>6. SubSeq(c, 1, Len(id)) = id
  BY <1>1, <1>2, <1>5, SeqEqual
<1>7. Len(c) - 1 = Len(id)
  BY <1>2, <1>3
<1> QED
  BY <1>2, <1>6, <1>7 DEF Source, Ids

LEMMA ChosenIsRecord ==
  ASSUME NEW local, IsDocument(local), NEW remote, IsDocument(remote),
         NEW id \in DOMAIN local \cup DOMAIN remote
  PROVE  /\ Chosen(local, remote, id) \in Records
         /\ id \in DOMAIN local => Chosen(local, remote, id).at >= Entry(local, id).at
         /\ id \in DOMAIN remote => Chosen(local, remote, id).at >= Entry(remote, id).at
<1>1. id \in DOMAIN local => Entry(local, id) \in Records
  BY EntryIsRecord
<1>2. id \in DOMAIN remote => Entry(remote, id) \in Records
  BY EntryIsRecord
<1>3. \A r \in Records : r.at >= r.at
  BY DEF Records
<1> QED
  BY <1>1, <1>2, <1>3, KeepProperties DEF Chosen

LEMMA MergeAt ==
  ASSUME NEW local, NEW remote
  PROVE  Merge(local, remote)
           = [id \in MergedIds(local, remote) |-> Listed(local, remote, id)]
BY DEF Merge, MergedIds, Listed, Copy, Chosen, CopyIds, Source

LEMMA CopiesAreRecords ==
  ASSUME NEW local, IsDocument(local), NEW remote, IsDocument(remote),
         NEW id \in CopyIds(local, remote)
  PROVE  id \in Ids /\ Copy(remote, id) \in Records
<1>1. PICK j \in Tied(local, remote) : id = CopyId(j, Entry(remote, j))
  BY DEF CopyIds
<1>2. j \in DOMAIN remote
  BY DEF Tied, Both
<1>3. Entry(remote, j) \in Records /\ j \in Ids
  BY <1>2, EntryIsRecord
<1>4. id \in Ids /\ Source(id) = j
  BY <1>1, <1>3, CopyHasSource
<1> QED
  BY <1>3, <1>4 DEF Copy, ConflictCopy, Records

LEMMA ListAt ==
  ASSUME NEW c \in Records, NEW r \in Records
  PROVE  /\ <<>> \o <<r>> = <<r>> /\ <<c>> \o <<>> = <<c>>
         /\ <<c>> \o <<r>> \in Seq(Records) /\ <<c>> \o <<r>> # <<>>
         /\ (<<c>> \o <<r>>)[Len(<<c>> \o <<r>>)] = r
<1>1. <<c>> \in Seq(Records) /\ <<r>> \in Seq(Records) /\ Len(<<c>>) = 1 /\ Len(<<r>>) = 1
      /\ <<r>>[1] = r
  BY OneRecord
<1>2. <<>> \o <<r>> = <<r>> /\ <<c>> \o <<>> = <<c>>
  BY <1>1, ConcatEmptySeq
<1>3. /\ <<c>> \o <<r>> \in Seq(Records) /\ Len(<<c>> \o <<r>>) = 2
      /\ (<<c>> \o <<r>>)[2] = r
  <2>1. /\ <<c>> \o <<r>> \in Seq(Records)
        /\ Len(<<c>> \o <<r>>) = Len(<<c>>) + Len(<<r>>)
        /\ \A i \in 1 .. Len(<<c>>) + Len(<<r>>) :
             (<<c>> \o <<r>>)[i] = IF i <= Len(<<c>>) THEN <<c>>[i]
                                   ELSE <<r>>[i - Len(<<c>>)]
    BY <1>1, ConcatProperties
  <2> QED
    BY <1>1, <2>1
<1>4. <<c>> \o <<r>> # <<>>
  BY <1>3, EmptySeq
<1> QED
  BY <1>2, <1>3, <1>4

LEMMA ListedProperties ==
  ASSUME NEW local, IsDocument(local), NEW remote, IsDocument(remote),
         NEW id \in MergedIds(local, remote)
  PROVE  /\ id \in Ids
         /\ Listed(local, remote, id) \in Seq(Records)
         /\ Listed(local, remote, id) # <<>>
         /\ id \in DOMAIN local \cup DOMAIN remote =>
              Listed(local, remote, id)[Len(Listed(local, remote, id))]
                = Chosen(local, remote, id)
<1> DEFINE D == DOMAIN local \cup DOMAIN remote
           C == CopyIds(local, remote)
           c == Copy(remote, id)
           r == Chosen(local, remote, id)
           l == Listed(local, remote, id)
<1>1. id \in D \cup C
  BY DEF MergedIds
<1>2. l = (IF id \in C THEN <<c>> ELSE <<>>) \o (IF id \in D THEN <<r>> ELSE <<>>)
  BY DEF Listed
<1>3. id \in Ids
  BY <1>1, EntryIsRecord, CopiesAreRecords
<1>4. id \in C => c \in Records
  BY CopiesAreRecords
<1>5. id \in D => r \in Records
  BY ChosenIsRecord
<1>. HIDE DEF D, C, c, r, l
<1>6. l \in Seq(Records) /\ l # <<>> /\ (id \in D => l[Len(l)] = r)
  <2>1. CASE id \in C /\ id \in D
    <3>1. l = <<c>> \o <<r>>
      BY <1>2, <2>1
    <3> QED
      BY <1>4, <1>5, <2>1, <3>1, ListAt
  <2>2. CASE id \in C /\ id \notin D
    <3>1. l = <<c>> \o <<>>
      BY <1>2, <2>2
    <3>2. l = <<c>>
      BY <1>4, <2>2, <3>1, ListAt
    <3> QED
      BY <1>4, <2>2, <3>2, OneRecord
  <2>3. CASE id \notin C /\ id \in D
    <3>1. l = <<>> \o <<r>>
      BY <1>2, <2>3
    <3>2. l = <<r>>
      BY <1>5, <2>3, <3>1, ListAt
    <3> QED
      BY <1>5, <2>3, <3>2, OneRecord
  <2> QED
    BY <1>1, <2>1, <2>2, <2>3
<1> QED
  BY <1>3, <1>6 DEF D, l, r

(* The merge of two documents is a document: every id has records.         *)
THEOREM MergeIsDocument ==
  ASSUME NEW local, IsDocument(local), NEW remote, IsDocument(remote)
  PROVE  IsDocument(Merge(local, remote))
<1> DEFINE M == Merge(local, remote)
<1>1. M = [id \in MergedIds(local, remote) |-> Listed(local, remote, id)]
  BY MergeAt
<1>. HIDE DEF M
<1>2. /\ M = [id \in DOMAIN M |-> M[id]]
      /\ \A id \in DOMAIN M : id \in Ids /\ M[id] \in Seq(Records) \ {<<>>}
  BY <1>1, ListedProperties
<1>3. IsDocument(M)
  BY <1>2 DEF IsDocument, IsMap
<1> QED
  BY <1>3 DEF M

(* The record that counts is the one that was chosen: a conflict copy that *)
(* has the id of a host comes before it.                                   *)
LEMMA EntryOfMerge ==
  ASSUME NEW local, IsDocument(local), NEW remote, IsDocument(remote),
         NEW id \in DOMAIN local \cup DOMAIN remote
  PROVE  /\ id \in DOMAIN Merge(local, remote)
         /\ Entry(Merge(local, remote), id) = Chosen(local, remote, id)
<1> DEFINE M == Merge(local, remote)
<1>1. M = [i \in MergedIds(local, remote) |-> Listed(local, remote, i)]
  BY MergeAt
<1>2. id \in MergedIds(local, remote)
  BY DEF MergedIds
<1>. HIDE DEF M
<1>3. id \in DOMAIN M /\ M[id] = Listed(local, remote, id)
  BY <1>1, <1>2
<1>4. Listed(local, remote, id)[Len(Listed(local, remote, id))]
        = Chosen(local, remote, id)
  BY <1>2, ListedProperties
<1>5. Entry(M, id) = Chosen(local, remote, id)
  BY <1>3, <1>4 DEF Entry
<1> QED
  BY <1>3, <1>5 DEF M

(* "The newer updated_at wins": the merge keeps every host, and of each    *)
(* host a record as new as any of the two, so neither a change nor a       *)
(* deletion is undone by an older state.                                   *)
THEOREM MergeKeepsNewest ==
  ASSUME NEW local, IsDocument(local), NEW remote, IsDocument(remote),
         NEW id \in DOMAIN local \cup DOMAIN remote
  PROVE  /\ id \in DOMAIN Merge(local, remote)
         /\ id \in DOMAIN local =>
              Entry(Merge(local, remote), id).at >= Entry(local, id).at
         /\ id \in DOMAIN remote =>
              Entry(Merge(local, remote), id).at >= Entry(remote, id).at
BY EntryOfMerge, ChosenIsRecord

(* Two devices that merge the same documents, each its own with the        *)
(* other's, agree on every host unless two changes of it tie.              *)
THEOREM MergeCommutes ==
  ASSUME NEW one, IsDocument(one), NEW other, IsDocument(other),
         NEW id \in DOMAIN one \cup DOMAIN other,
         id \in Both(one, other) => ~Tie(Entry(one, id), Entry(other, id))
  PROVE  Entry(Merge(one, other), id) = Entry(Merge(other, one), id)
<1>1. /\ Entry(Merge(one, other), id) = Chosen(one, other, id)
      /\ Entry(Merge(other, one), id) = Chosen(other, one, id)
  BY EntryOfMerge
<1>2. CASE id \notin Both(one, other)
  BY <1>1, <1>2 DEF Chosen, Both
<1>3. CASE id \in Both(one, other)
  <2> DEFINE l == Entry(one, id)
             r == Entry(other, id)
  <2>1. l \in Records /\ r \in Records
    BY <1>3, EntryIsRecord DEF Both
  <2>2. ~Tie(l, r)
    BY <1>3
  <2>. HIDE DEF l, r
  <2>3. Keep(l, r) = Keep(r, l)
    BY <2>1, <2>2 DEF Keep, Tie, SameContent, Records
  <2> QED
    BY <1>1, <1>3, <2>3 DEF Chosen, Both, l, r
<1> QED
  BY <1>2, <1>3

(* A merge that is repeated with what it was made of changes no host, so a *)
(* lost answer and the sync that follows it agree.                         *)
THEOREM MergeAbsorbs ==
  ASSUME NEW local, IsDocument(local), NEW remote, IsDocument(remote),
         NEW id \in DOMAIN remote,
         id \in DOMAIN local => ~Tie(Entry(local, id), Entry(remote, id))
  PROVE  Entry(Merge(local, Merge(local, remote)), id)
           = Entry(Merge(local, remote), id)
<1> DEFINE M == Merge(local, remote)
<1>1. IsDocument(M)
  BY MergeIsDocument
<1>2. id \in DOMAIN M /\ Entry(M, id) = Chosen(local, remote, id)
  BY EntryOfMerge
<1>3. Entry(Merge(local, M), id) = Chosen(local, M, id)
  <2>1. id \in DOMAIN local \cup DOMAIN M
    BY <1>2
  <2> HIDE DEF M
  <2> QED
    BY <1>1, <2>1, EntryOfMerge
<1>. HIDE DEF M
<1>4. CASE id \notin DOMAIN local
  <2>1. Chosen(local, M, id) = Entry(M, id)
    BY <1>2, <1>4 DEF Chosen
  <2> QED
    BY <1>3, <2>1 DEF M
<1>5. CASE id \in DOMAIN local
  <2> DEFINE l == Entry(local, id)
             r == Entry(remote, id)
  <2>1. l \in Records /\ r \in Records
    BY <1>5, EntryIsRecord
  <2>2. ~Tie(l, r)
    BY <1>5
  <2>3. Entry(M, id) = Keep(l, r) /\ Entry(Merge(local, M), id) = Keep(l, Entry(M, id))
    BY <1>2, <1>3, <1>5 DEF Chosen
  <2>. HIDE DEF l, r
  <2>4. Keep(l, Keep(l, r)) = Keep(l, r)
    BY <2>1, <2>2 DEF Keep, Tie, SameContent, Records
  <2> QED
    BY <2>3, <2>4 DEF M
<1> QED
  BY <1>4, <1>5

-----------------------------------------------------------------------------
(* Passwords                                                               *)

LEMMA SecretKept ==
  ASSUME NEW l \in Secrets, NEW r \in Secrets
  PROVE  /\ KeptSecret(l, r) \in {l, r} /\ UploadedSecret(l, r) \in {l, r}
         /\ KeptSecret(l, r).at >= l.at /\ KeptSecret(l, r).at >= r.at
         /\ UploadedSecret(l, r).at >= l.at /\ UploadedSecret(l, r).at >= r.at
         /\ ~Tie(l, r) => KeptSecret(l, r) = UploadedSecret(l, r)
<1>1. l.at \in Nat /\ r.at \in Nat
  BY DEF Secrets
<1> QED
  BY <1>1 DEF KeptSecret, UploadedSecret, Keep, Tie

(* Neither the passwords a device keeps nor those it uploads fall behind:  *)
(* each is as new as the copies it was merged from, and the two differ for *)
(* a tie only (merge_secrets and the deleted hosts of the document).       *)
THEOREM NewestPasswordKept ==
  ASSUME NEW local, IsMap(local, Secrets), NEW remote, IsMap(remote, Secrets),
         NEW tombs, \A i \in DOMAIN tombs : tombs[i] \in Nat,
         NEW id \in DOMAIN local \cup DOMAIN remote
  PROVE  /\ id \in DOMAIN local =>
              /\ LocalView(local, remote, tombs)[id].at >= local[id].at
              /\ UploadView(local, remote, tombs)[id].at >= local[id].at
         /\ id \in DOMAIN remote =>
              /\ LocalView(local, remote, tombs)[id].at >= remote[id].at
              /\ UploadView(local, remote, tombs)[id].at >= remote[id].at
         /\ ~(id \in Both(local, remote) /\ Tie(local[id], remote[id])) =>
              LocalView(local, remote, tombs)[id] = UploadView(local, remote, tombs)[id]
<1> DEFINE L == LocalView(local, remote, tombs)[id]
           U == UploadView(local, remote, tombs)[id]
           out == Outdated(id, tombs, (IF id \in DOMAIN local THEN {local[id]} ELSE {})
                                      \cup (IF id \in DOMAIN remote THEN {remote[id]}
                                            ELSE {}))
<1>1. /\ L = IF out THEN Removed(tombs[id])
             ELSE IF id \notin DOMAIN remote THEN local[id]
             ELSE IF id \notin DOMAIN local THEN remote[id]
             ELSE KeptSecret(local[id], remote[id])
      /\ U = IF out THEN Removed(tombs[id])
             ELSE IF id \notin DOMAIN remote THEN local[id]
             ELSE IF id \notin DOMAIN local THEN remote[id]
             ELSE UploadedSecret(local[id], remote[id])
  BY DEF LocalView, UploadView, MergeSecrets
<1>2. out => /\ Removed(tombs[id]).at = tombs[id]
             /\ id \in DOMAIN local => tombs[id] >= local[id].at
             /\ id \in DOMAIN remote => tombs[id] >= remote[id].at
  BY DEF Outdated, Removed
<1>3. /\ id \in DOMAIN local => local[id] \in Secrets
      /\ id \in DOMAIN remote => remote[id] \in Secrets
  BY DEF IsMap
<1>4. \A s \in Secrets : s.at >= s.at
  BY DEF Secrets
<1>. HIDE DEF L, U, out
<1>5. CASE out
  BY <1>1, <1>2, <1>5 DEF L, U
<1>6. CASE ~out
  BY <1>1, <1>3, <1>4, <1>6, SecretKept DEF L, U, Both
<1> QED
  BY <1>5, <1>6

-----------------------------------------------------------------------------
(* What the exchange passes on.  Documents, sessions and passwords are well *)
(* formed, and their stamps are of the past, not after second c.  A host   *)
(* that is no conflict copy is one of the hosts M that users made, and a   *)
(* document lists it once.                                                 *)

MadeIds(M) == {<<h>> : h \in M}
Known(id, M) == Len(id) >= 1 /\ (IsCopy(id) \/ id \in MadeIds(M))

SoundDocument(doc, M, c) ==
  /\ IsDocument(doc)
  /\ \A id \in DOMAIN doc :
       /\ Known(id, M) /\ (IsCopy(id) \/ Len(doc[id]) = 1)
       /\ \A k \in DOMAIN doc[id] : doc[id][k].at <= c

SoundMap(m, R, c) ==
  /\ IsMap(m, R)
  /\ \A id \in DOMAIN m : m[id].at <= c

SoundSessions(s, M, c) ==
  /\ SoundMap(s, Sessions, c)
  /\ \A id \in DOMAIN s : Known(id, M)

Stamped == [pw : AllPasswords, at : Nat]

LEMMA FirstIsLeast ==
  ASSUME NEW K \in SUBSET Nat, K # {}
  PROVE  First(K) \in K /\ \A j \in K : First(K) <= j
<1> DEFINE R == {ss \in Nat \X Nat : ss[1] < ss[2]}
<1>1. IsWellFoundedOn(R, Nat)
  BY NatLessThanWellFounded DEF OpToRel
<1>2. \A x, y \in Nat : <<y, x>> \in R <=> y < x
  OBVIOUS
<1> HIDE DEF R
<1>3. PICK k \in K : \A j \in K : <<j, k>> \notin R
  BY <1>1, WFMin
<1>4. \A j \in K : j \in Nat /\ k \in Nat /\ ~(j < k)
  BY <1>2, <1>3
<1>5. \A j \in K : k <= j
  BY <1>4
<1> QED
  BY <1>5 DEF First

(* Time passes and users make more hosts.                                  *)
LEMMA StaysSound ==
  ASSUME NEW c \in Nat, NEW e \in Nat, c <= e, NEW M, NEW N, M \subseteq N
  PROVE  /\ \A doc : SoundDocument(doc, M, c) => SoundDocument(doc, N, e)
         /\ \A m : SoundMap(m, Secrets, c) => SoundMap(m, Secrets, e)
         /\ \A m : SoundMap(m, Stamped, c) => SoundMap(m, Stamped, e)
         /\ \A s : SoundSessions(s, M, c) => SoundSessions(s, N, e)
<1>1. \A id : Known(id, M) => Known(id, N)
  BY DEF Known, MadeIds
<1>2. \A a \in Nat : a <= c => a <= e
  OBVIOUS
<1>3. ASSUME NEW doc, SoundDocument(doc, M, c) PROVE SoundDocument(doc, N, e)
  <2>1. ASSUME NEW id \in DOMAIN doc, NEW k \in DOMAIN doc[id]
        PROVE  doc[id][k].at <= e
    <3>1. doc[id] \in Seq(Records) /\ doc[id][k].at <= c
      BY <1>3, <2>1 DEF SoundDocument, IsDocument, IsMap
    <3>2. doc[id][k] \in Records
      BY <2>1, <3>1, ElementOfSeq
    <3> QED
      BY <1>2, <3>1, <3>2 DEF Records
  <2> QED
    BY <1>1, <1>3, <2>1 DEF SoundDocument
<1>4. ASSUME NEW m, NEW R, SoundMap(m, R, c), \A r \in R : r.at \in Nat
      PROVE  SoundMap(m, R, e)
  BY <1>2, <1>4 DEF SoundMap, IsMap
<1>5. /\ \A r \in Secrets : r.at \in Nat
      /\ \A r \in Stamped : r.at \in Nat
      /\ \A r \in Sessions : r.at \in Nat
  BY DEF Secrets, Stamped, Sessions
<1> QED
  BY <1>1, <1>3, <1>4, <1>5 DEF SoundSessions

LEMMA NothingIsSound ==
  ASSUME NEW c, NEW M
  PROVE  /\ DOMAIN Nothing = {}
         /\ SoundDocument(Nothing, M, c) /\ SoundSessions(Nothing, M, c)
         /\ \A R : SoundMap(Nothing, R, c)
<1>1. DOMAIN Nothing = {}
  BY DEF Nothing
<1>2. Nothing = [x \in DOMAIN Nothing |-> Nothing[x]]
  BY DEF Nothing
<1> QED
  BY <1>1, <1>2 DEF SoundDocument, SoundSessions, SoundMap, IsDocument, IsMap

(* The last record of an id, and the only one of a host users made.        *)
LEMMA EntryIsSound ==
  ASSUME NEW doc, NEW M, NEW c, SoundDocument(doc, M, c), NEW id \in DOMAIN doc
  PROVE  /\ Entry(doc, id) \in Records /\ Entry(doc, id).at <= c /\ Entry(doc, id).at \in Nat
         /\ IsCopy(id) \/ (DOMAIN doc[id] = {1} /\ doc[id][1] = Entry(doc, id))
<1>1. /\ doc[id] \in Seq(Records) /\ doc[id] # <<>>
      /\ \A k \in DOMAIN doc[id] : doc[id][k].at <= c
      /\ IsCopy(id) \/ Len(doc[id]) = 1
  BY DEF SoundDocument, IsDocument, IsMap
<1>2. DOMAIN doc[id] = 1 .. Len(doc[id]) /\ Len(doc[id]) \in Nat
  BY <1>1, LenProperties
<1>3. Len(doc[id]) \in DOMAIN doc[id]
  BY <1>1, <1>2, EmptySeq
<1>4. Entry(doc, id) \in Records /\ Entry(doc, id).at <= c
  BY <1>1, <1>2, <1>3, ElementOfSeq DEF Entry
<1> QED
  BY <1>1, <1>2, <1>4 DEF Entry, Records

-----------------------------------------------------------------------------
(* The document a device sends is sound, and it passes on every deletion   *)
(* that it knows: as a session changed since, or as a tombstone.           *)

Carries(doc, previous) ==
  \A id \in DOMAIN previous :
    ~IsCopy(id) /\ Entry(previous, id).deleted =>
      id \in DOMAIN doc /\ Entry(doc, id).at >= Entry(previous, id).at

(* No session is older than its deletion.                                  *)
Respects(s, previous) ==
  \A id \in DOMAIN previous \cap DOMAIN s :
    ~IsCopy(id) /\ Entry(previous, id).deleted => s[id].at >= Entry(previous, id).at

LEMMA TombstoneIsRecord ==
  ASSUME NEW r \in Records, NEW c \in Nat, r.at <= c
  PROVE  /\ Tombstone(r, c) \in Records /\ Tombstone(r, c).at <= c
         /\ Tombstone(r, c).at >= r.at
<1> DEFINE t == IF c > r.at THEN c ELSE r.at
<1>1. r.at \in Nat /\ t \in Nat /\ t <= c /\ t >= r.at
  BY DEF Records
<1> HIDE DEF t
<1>2. [r EXCEPT !.deleted = TRUE, !.at = t] \in Records
  BY <1>1 DEF Records
<1>3. [r EXCEPT !.deleted = TRUE, !.at = t].at = t
  BY DEF Records
<1>4. CASE Tombstone(r, c) = r
  BY <1>1, <1>4
<1>5. CASE Tombstone(r, c) = [r EXCEPT !.deleted = TRUE, !.at = t]
  BY <1>1, <1>2, <1>3, <1>5
<1> QED
  BY <1>4, <1>5 DEF Tombstone, t

LEMMA LocalDocumentSound ==
  ASSUME NEW c \in Nat, NEW M, NEW s, SoundSessions(s, M, c),
         NEW previous, SoundDocument(previous, M, c)
  PROVE  /\ SoundDocument(LocalDocument(s, previous, c), M, c)
         /\ Respects(s, previous) => Carries(LocalDocument(s, previous, c), previous)
<1> DEFINE D == LocalDocument(s, previous, c)
           tomb(id) == [k \in DOMAIN previous[id] |-> Tombstone(previous[id][k], c)]
<1>1. /\ DOMAIN D = DOMAIN s \cup DOMAIN previous
      /\ D = [id \in DOMAIN D |-> D[id]]
      /\ \A id \in DOMAIN D :
           D[id] = IF id \in DOMAIN s THEN <<Record(s[id])>> ELSE tomb(id)
  BY DEF LocalDocument
<1>2. ASSUME NEW id \in DOMAIN s
      PROVE  /\ Record(s[id]) \in Records /\ Record(s[id]).at = s[id].at
             /\ s[id].at <= c /\ id \in Ids /\ Known(id, M)
    BY <1>2 DEF SoundSessions, SoundMap, IsMap, Record, Records, Sessions
<1>3. ASSUME NEW id \in DOMAIN previous
      PROVE  /\ id \in Ids /\ Known(id, M)
             /\ tomb(id) \in Seq(Records) /\ tomb(id) # <<>>
             /\ Len(tomb(id)) = Len(previous[id])
             /\ \A k \in DOMAIN tomb(id) : tomb(id)[k].at <= c
             /\ tomb(id)[Len(tomb(id))].at >= Entry(previous, id).at
  <2> DEFINE p == previous[id]
  <2>1. /\ p \in Seq(Records) /\ p # <<>> /\ id \in Ids /\ Known(id, M)
        /\ \A k \in DOMAIN p : p[k].at <= c
    BY DEF SoundDocument, IsDocument, IsMap
  <2>2. Len(p) \in Nat /\ DOMAIN p = 1 .. Len(p) /\ Len(p) \in DOMAIN p
    BY <2>1, LenProperties, EmptySeq
  <2>3. \A k \in DOMAIN p : p[k] \in Records
    BY <2>1, <2>2, ElementOfSeq
  <2>4. DOMAIN tomb(id) = 1 .. Len(p)
    BY <2>2
  <2>5. \A k \in DOMAIN p : /\ tomb(id)[k] \in Records /\ tomb(id)[k].at <= c
                            /\ tomb(id)[k].at >= p[k].at
    BY <2>1, <2>3, TombstoneIsRecord
  <2>6. tomb(id) = [k \in 1 .. Len(p) |-> Tombstone(p[k], c)]
    BY <2>2
  <2>7. tomb(id) \in Seq(Records) /\ Len(tomb(id)) = Len(p)
    <3> HIDE DEF p
    <3>1. \A k \in 1 .. Len(p) : Tombstone(p[k], c) \in Records
      BY <2>1, <2>2, <2>3, TombstoneIsRecord
    <3> DEFINE t == [k \in 1 .. Len(p) |-> Tombstone(p[k], c)]
    <3>2. t \in Seq(Records)
      BY <2>2, <3>1, IsASeq
    <3>3. DOMAIN t = 1 .. Len(p)
      OBVIOUS
    <3> HIDE DEF t
    <3>4. Len(t) = Len(p)
      BY <2>2, <3>2, <3>3, LenProperties
    <3> QED
      BY <2>6, <3>2, <3>4 DEF t
  <2>8. tomb(id) # <<>>
    BY <2>1, <2>7, EmptySeq
  <2> QED
    BY <2>1, <2>2, <2>4, <2>5, <2>7, <2>8 DEF Entry
<1> HIDE DEF tomb, D
<1>4. ASSUME NEW id \in DOMAIN D
      PROVE  /\ id \in Ids /\ D[id] \in Seq(Records) \ {<<>>}
             /\ Known(id, M) /\ (IsCopy(id) \/ Len(D[id]) = 1)
             /\ \A k \in DOMAIN D[id] : D[id][k].at <= c
  <2>1. CASE id \in DOMAIN s
    <3>1. D[id] = <<Record(s[id])>>
      BY <1>1, <2>1
    <3>2. /\ D[id] \in Seq(Records) /\ D[id] # <<>> /\ Len(D[id]) = 1
          /\ D[id][1] = Record(s[id]) /\ DOMAIN D[id] = {1}
      BY <1>2, <2>1, <3>1, OneRecord
    <3> QED
      BY <1>2, <2>1, <3>2
  <2>2. CASE id \notin DOMAIN s
    <3>1. id \in DOMAIN previous /\ D[id] = tomb(id)
      BY <1>1, <2>2
    <3>2. IsCopy(id) \/ Len(previous[id]) = 1
      BY <3>1 DEF SoundDocument
    <3> QED
      BY <1>3, <3>1, <3>2
  <2> QED
    BY <2>1, <2>2
<1>5. SoundDocument(D, M, c)
  BY <1>1, <1>4 DEF SoundDocument, IsDocument, IsMap
<1>6. ASSUME Respects(s, previous) PROVE Carries(D, previous)
  <2> SUFFICES ASSUME NEW id \in DOMAIN previous, ~IsCopy(id),
                      Entry(previous, id).deleted
               PROVE  id \in DOMAIN D /\ Entry(D, id).at >= Entry(previous, id).at
    BY DEF Carries
  <2>1. CASE id \in DOMAIN s
    <3>1. Entry(D, id) = Record(s[id])
      BY <1>1, <1>2, <2>1, OneRecord DEF Entry
    <3> QED
      BY <1>1, <1>2, <1>6, <2>1, <3>1 DEF Respects
  <2>2. CASE id \notin DOMAIN s
    BY <1>1, <1>3, <2>2 DEF Entry
  <2> QED
    BY <2>1, <2>2
<1> QED
  BY <1>5, <1>6 DEF D

-----------------------------------------------------------------------------
(* The merge of sound documents is sound, and as new as both.              *)

LEMMA CopyIsCopy ==
  ASSUME NEW id \in Ids, Len(id) >= 1, NEW r \in Records
  PROVE  Len(CopyId(id, r)) >= 1 /\ IsCopy(CopyId(id, r))
<1> DEFINE S == Hosts \cup Nat
<1>1. id \in Seq(S) /\ r.at \in S
  BY DEF Ids, Records
<1>2. Len(CopyId(id, r)) = Len(id) + 1
  BY <1>1, AppendProperties DEF CopyId
<1>3. Len(id) \in Nat
  BY <1>1, LenProperties
<1> QED
  BY <1>2, <1>3 DEF IsCopy

LEMMA MergeSound ==
  ASSUME NEW c \in Nat, NEW M, NEW local, SoundDocument(local, M, c),
         NEW remote, SoundDocument(remote, M, c)
  PROVE  SoundDocument(Merge(local, remote), M, c)
<1> DEFINE G == Merge(local, remote)
           C == CopyIds(local, remote)
           D == DOMAIN local \cup DOMAIN remote
<1>1. /\ G = [id \in MergedIds(local, remote) |-> Listed(local, remote, id)]
      /\ IsDocument(G) /\ IsDocument(local) /\ IsDocument(remote)
  BY MergeAt, MergeIsDocument DEF SoundDocument
<1>2. ASSUME NEW id \in C
      PROVE  /\ Len(id) >= 1 /\ IsCopy(id) /\ Copy(remote, id) \in Records
             /\ Copy(remote, id).at <= c
  <2>1. PICK j \in Tied(local, remote) : id = CopyId(j, Entry(remote, j))
    BY DEF CopyIds
  <2>2. j \in DOMAIN remote
    BY <2>1 DEF Tied, Both
  <2>3. /\ Entry(remote, j) \in Records /\ Entry(remote, j).at <= c
        /\ j \in Ids /\ Len(j) >= 1
    BY <1>1, <2>2, EntryIsSound DEF SoundDocument, IsDocument, IsMap, Known
  <2>4. Source(id) = j
    BY <2>1, <2>3, CopyHasSource
  <2>5. Copy(remote, id).at = Entry(remote, j).at
    BY <2>3, <2>4 DEF Copy, ConflictCopy, Records
  <2> QED
    BY <1>1, <2>1, <2>3, <2>5, CopyIsCopy, CopiesAreRecords
<1>3. ASSUME NEW id \in D
      PROVE  /\ Known(id, M) /\ Chosen(local, remote, id) \in Records
             /\ Chosen(local, remote, id).at <= c
  <2>1. id \in DOMAIN local =>
          Known(id, M) /\ Entry(local, id) \in Records /\ Entry(local, id).at <= c
    BY EntryIsSound DEF SoundDocument
  <2>2. id \in DOMAIN remote =>
          Known(id, M) /\ Entry(remote, id) \in Records /\ Entry(remote, id).at <= c
    BY EntryIsSound DEF SoundDocument
  <2> QED
    BY <2>1, <2>2, KeepProperties DEF Chosen
<1>4. ASSUME NEW id \in MergedIds(local, remote)
      PROVE  /\ Known(id, M) /\ (IsCopy(id) \/ Len(Listed(local, remote, id)) = 1)
             /\ \A k \in DOMAIN Listed(local, remote, id) :
                  Listed(local, remote, id)[k].at <= c
  <2> DEFINE l == Listed(local, remote, id)
             x == Copy(remote, id)
             y == Chosen(local, remote, id)
  <2>1. l = (IF id \in C THEN <<x>> ELSE <<>>) \o (IF id \in D THEN <<y>> ELSE <<>>)
    BY DEF Listed
  <2>2. id \in C \cup D
    BY DEF MergedIds
  <2>3. id \in C => Len(id) >= 1 /\ IsCopy(id) /\ x \in Records /\ x.at <= c
    BY <1>2
  <2>4. id \in D => Known(id, M) /\ y \in Records /\ y.at <= c
    BY <1>3
  <2> HIDE DEF l, x, y, C, D
  <2>5. CASE id \in C /\ id \in D
    <3>1. l = <<x>> \o <<y>>
      BY <2>1, <2>5
    <3>2. DOMAIN l = {1, 2} /\ l[1] = x /\ l[2] = y
      BY <3>1
    <3> QED
      BY <2>3, <2>4, <2>5, <3>2 DEF Known, l
  <2>6. CASE id \in C /\ id \notin D
    <3>1. l = <<x>>
      BY <2>1, <2>3, <2>6, ListAt
    <3>2. DOMAIN l = {1} /\ l[1] = x
      BY <3>1
    <3> QED
      BY <2>3, <2>6, <3>2 DEF Known, l
  <2>7. CASE id \notin C /\ id \in D
    <3>1. l = <<y>>
      BY <2>1, <2>4, <2>7, ListAt
    <3>2. DOMAIN l = {1} /\ l[1] = y /\ Len(l) = 1
      BY <3>1
    <3> QED
      BY <2>4, <2>7, <3>2 DEF Known, l
  <2> QED
    BY <2>2, <2>5, <2>6, <2>7
<1> HIDE DEF G
<1>5. SoundDocument(G, M, c)
  BY <1>1, <1>4 DEF SoundDocument
<1> QED
  BY <1>5 DEF G

(* What carries the deletions of a document still does once merged.        *)
LEMMA MergeCarries ==
  ASSUME NEW local, IsDocument(local), NEW remote, IsDocument(remote),
         NEW previous, IsDocument(previous), Carries(local, previous)
  PROVE  Carries(Merge(local, remote), previous)
<1> SUFFICES ASSUME NEW id \in DOMAIN previous, ~IsCopy(id),
                    Entry(previous, id).deleted
             PROVE  /\ id \in DOMAIN Merge(local, remote)
                    /\ Entry(Merge(local, remote), id).at >= Entry(previous, id).at
  BY DEF Carries
<1>1. id \in DOMAIN local /\ Entry(local, id).at >= Entry(previous, id).at
  BY DEF Carries
<1>2. /\ Entry(Merge(local, remote), id) = Chosen(local, remote, id)
      /\ Chosen(local, remote, id) \in Records
      /\ id \in DOMAIN Merge(local, remote)
      /\ Chosen(local, remote, id).at >= Entry(local, id).at
  BY <1>1, EntryOfMerge, ChosenIsRecord
<1>3. /\ Entry(local, id).at \in Nat /\ Entry(previous, id).at \in Nat
      /\ Chosen(local, remote, id).at \in Nat
  BY <1>1, <1>2, EntryIsRecord DEF Records
<1> QED
  BY <1>1, <1>2, <1>3

-----------------------------------------------------------------------------
(* Passwords are sound too.                                                *)

LEMMA TombsSound ==
  ASSUME NEW c, NEW M, NEW doc, SoundDocument(doc, M, c),
         NEW id \in DOMAIN Tombs(doc)
  PROVE  id \in DOMAIN doc /\ Tombs(doc)[id] \in Nat /\ Tombs(doc)[id] <= c
<1>1. /\ id \in DOMAIN doc /\ Dead(doc[id]) # {}
      /\ Tombs(doc)[id] = doc[id][First(Dead(doc[id]))].at
  BY DEF Tombs
<1>2. doc[id] \in Seq(Records) /\ \A k \in DOMAIN doc[id] : doc[id][k].at <= c
  BY <1>1 DEF SoundDocument, IsDocument, IsMap
<1>3. Dead(doc[id]) \in SUBSET Nat /\ Dead(doc[id]) \subseteq DOMAIN doc[id]
      /\ DOMAIN doc[id] = 1 .. Len(doc[id])
  BY <1>2, LenProperties DEF Dead
<1>4. First(Dead(doc[id])) \in DOMAIN doc[id]
  BY <1>1, <1>3, FirstIsLeast
<1>5. doc[id][First(Dead(doc[id]))] \in Records
  BY <1>2, <1>3, <1>4, ElementOfSeq
<1> QED
  BY <1>1, <1>2, <1>4, <1>5 DEF Records

LEMMA LocalSecretsSound ==
  ASSUME NEW c \in Nat, NEW M, NEW s, SoundSessions(s, M, c),
         NEW m, SoundMap(m, Stamped, c)
  PROVE  SoundMap(LocalSecrets(s, m, c), Secrets, c)
<1> DEFINE L == LocalSecrets(s, m, c)
<1>1. /\ L = [id \in DOMAIN L |-> L[id]] /\ DOMAIN L = DOMAIN s
      /\ \A id \in DOMAIN s :
           L[id] = [pw |-> s[id].pw, at |-> SecretAt(id, s[id], m, c),
                    deleted |-> FALSE]
  BY DEF LocalSecrets
<1>2. ASSUME NEW id \in DOMAIN s
      PROVE  /\ id \in Ids /\ s[id].pw \in AllPasswords
             /\ SecretAt(id, s[id], m, c) \in Nat /\ SecretAt(id, s[id], m, c) <= c
  <2>1. /\ id \in Ids /\ s[id] \in Sessions /\ s[id].at <= c
        /\ id \in DOMAIN m => m[id] \in Stamped /\ m[id].at <= c
    BY DEF SoundSessions, SoundMap, IsMap
  <2> QED
    BY <2>1 DEF SecretAt, Sessions, Stamped
<1> HIDE DEF L
<1>3. ASSUME NEW id \in DOMAIN L
      PROVE  id \in Ids /\ L[id] \in Secrets /\ L[id].at <= c
  <2>1. L[id] = [pw |-> s[id].pw, at |-> SecretAt(id, s[id], m, c),
                 deleted |-> FALSE]
    BY <1>1, <1>3
  <2> QED
    BY <1>1, <1>2, <1>3, <2>1 DEF Secrets
<1>4. SoundMap(L, Secrets, c)
  BY <1>1, <1>3 DEF SoundMap, IsMap
<1> QED
  BY <1>4 DEF L

LEMMA SecretsMerged ==
  ASSUME NEW c \in Nat, NEW local, SoundMap(local, Secrets, c),
         NEW remote, SoundMap(remote, Secrets, c), NEW upload \in BOOLEAN,
         NEW tombs, \A i \in DOMAIN tombs : tombs[i] \in Nat /\ tombs[i] <= c
  PROVE  SoundMap(MergeSecrets(local, remote, tombs, upload), Secrets, c)
<1> DEFINE G == MergeSecrets(local, remote, tombs, upload)
           out(id) == Outdated(id, tombs,
                        (IF id \in DOMAIN local THEN {local[id]} ELSE {})
                        \cup (IF id \in DOMAIN remote THEN {remote[id]} ELSE {}))
<1>1. /\ G = [id \in DOMAIN G |-> G[id]]
      /\ DOMAIN G = DOMAIN local \cup DOMAIN remote
      /\ \A id \in DOMAIN G :
           G[id] = IF out(id) THEN Removed(tombs[id])
                   ELSE IF id \notin DOMAIN remote THEN local[id]
                   ELSE IF id \notin DOMAIN local THEN remote[id]
                   ELSE IF upload THEN UploadedSecret(local[id], remote[id])
                   ELSE KeptSecret(local[id], remote[id])
  BY DEF MergeSecrets
<1>2. /\ \A id \in DOMAIN local : /\ id \in Ids /\ local[id] \in Secrets
                                  /\ local[id].at <= c
      /\ \A id \in DOMAIN remote : /\ id \in Ids /\ remote[id] \in Secrets
                                   /\ remote[id].at <= c
  BY DEF SoundMap, IsMap
<1>3. ASSUME NEW id, out(id)
      PROVE  Removed(tombs[id]) \in Secrets /\ Removed(tombs[id]).at <= c
  BY <1>3 DEF Outdated, Removed, Secrets, AllPasswords
<1> HIDE DEF G, out
<1>4. ASSUME NEW id \in DOMAIN G
      PROVE  id \in Ids /\ G[id] \in Secrets /\ G[id].at <= c
  <2>1. CASE out(id)
    BY <1>1, <1>2, <1>3, <2>1
  <2>2. CASE ~out(id) /\ id \in DOMAIN local /\ id \in DOMAIN remote
    <3>1. G[id] \in {local[id], remote[id]}
      BY <1>1, <1>2, <2>2, SecretKept
    <3> QED
      BY <1>2, <2>2, <3>1
  <2>3. CASE ~out(id) /\ ~(id \in DOMAIN local /\ id \in DOMAIN remote)
    BY <1>1, <1>2, <2>3
  <2> QED
    BY <2>1, <2>2, <2>3
<1>5. SoundMap(G, Secrets, c)
  BY <1>1, <1>4 DEF SoundMap, IsMap
<1> QED
  BY <1>5 DEF G

LEMMA StampsSound ==
  ASSUME NEW c, NEW view, SoundMap(view, Secrets, c)
  PROVE  SoundMap(Stamps(view), Stamped, c)
<1>1. \A id \in DOMAIN view :
        id \in Ids /\ view[id] \in Secrets /\ view[id].at <= c
  BY DEF SoundMap, IsMap
<1> DEFINE G == Stamps(view)
<1>2. /\ G = [id \in DOMAIN G |-> G[id]] /\ DOMAIN G \subseteq DOMAIN view
      /\ \A id \in DOMAIN G : G[id] = [pw |-> view[id].pw, at |-> view[id].at]
  BY DEF Stamps
<1> HIDE DEF G
<1>3. SoundMap(G, Stamped, c)
  BY <1>1, <1>2 DEF SoundMap, IsMap, Secrets, Stamped
<1> QED
  BY <1>3 DEF G

-----------------------------------------------------------------------------
(* The sessions after an outcome.                                          *)

(* A host that the document lists has the stamp it lists, and there is no  *)
(* session for one that it lists as deleted.                               *)
LEMMA AfterHostsSound ==
  ASSUME NEW c, NEW M, NEW s, SoundSessions(s, M, c),
         NEW doc, SoundDocument(doc, M, c)
  PROVE  /\ SoundSessions(AfterHosts(s, doc), M, c)
         /\ \A id \in DOMAIN doc \cap DOMAIN AfterHosts(s, doc) :
              ~IsCopy(id) => /\ ~Entry(doc, id).deleted
                             /\ AfterHosts(s, doc)[id].at = Entry(doc, id).at
<1> DEFINE G == AfterHosts(s, doc)
           r(id) == doc[id][First(Live(doc[id]))]
           pw(id) == IF id \in DOMAIN s /\ ~doc[id][1].deleted
                     THEN s[id].pw ELSE NoPassword
<1>1. /\ G = [id \in DOMAIN G |-> G[id]]
      /\ \A id \in DOMAIN G :
           \/ id \in DOMAIN s /\ id \notin DOMAIN doc /\ G[id] = s[id]
           \/ /\ id \in DOMAIN doc /\ Live(doc[id]) # {}
              /\ G[id] = FromRecord(r(id), pw(id))
  BY DEF AfterHosts
<1>2. \A id \in DOMAIN s : /\ id \in Ids /\ Known(id, M) /\ s[id] \in Sessions
                           /\ s[id].at <= c
  BY DEF SoundSessions, SoundMap, IsMap
<1>3. \A id : pw(id) \in AllPasswords
  BY <1>2 DEF Sessions, AllPasswords
<1>4. ASSUME NEW id \in DOMAIN doc, Live(doc[id]) # {}
      PROVE  /\ id \in Ids /\ Known(id, M) /\ r(id) \in Records /\ r(id).at <= c
             /\ ~IsCopy(id) => ~Entry(doc, id).deleted /\ r(id) = Entry(doc, id)
  <2>1. /\ doc[id] \in Seq(Records) /\ id \in Ids /\ Known(id, M)
        /\ \A k \in DOMAIN doc[id] : doc[id][k].at <= c
    BY DEF SoundDocument, IsDocument, IsMap
  <2>2. /\ Live(doc[id]) \in SUBSET Nat /\ Live(doc[id]) \subseteq DOMAIN doc[id]
        /\ DOMAIN doc[id] = 1 .. Len(doc[id])
    BY <2>1, LenProperties DEF Live
  <2>3. First(Live(doc[id])) \in Live(doc[id])
    BY <1>4, <2>2, FirstIsLeast
  <2>4. r(id) \in Records
    BY <2>1, <2>2, <2>3, ElementOfSeq
  <2>5. ~r(id).deleted
    BY <2>3 DEF Live, Dead
  <2>6. ~IsCopy(id) => r(id) = Entry(doc, id)
    BY <2>2, <2>3, EntryIsSound
  <2> QED
    BY <2>1, <2>2, <2>3, <2>4, <2>5, <2>6
<1> HIDE DEF G, r, pw
<1>5. ASSUME NEW id \in DOMAIN G
      PROVE  /\ id \in Ids /\ Known(id, M) /\ G[id] \in Sessions /\ G[id].at <= c
             /\ id \in DOMAIN doc /\ ~IsCopy(id) =>
                  ~Entry(doc, id).deleted /\ G[id].at = Entry(doc, id).at
  <2>1. CASE id \in DOMAIN s /\ id \notin DOMAIN doc /\ G[id] = s[id]
    BY <1>2, <2>1
  <2>2. CASE /\ id \in DOMAIN doc /\ Live(doc[id]) # {}
             /\ G[id] = FromRecord(r(id), pw(id))
    BY <1>3, <1>4, <2>2 DEF FromRecord, Records, Sessions
  <2> QED
    BY <1>1, <2>1, <2>2
<1>6. SoundSessions(G, M, c)
  BY <1>1, <1>5 DEF SoundSessions, SoundMap, IsMap
<1> QED
  BY <1>5, <1>6 DEF G

(* A password that is taken over may make its session newer, never older.  *)
LEMMA AfterSecretsSound ==
  ASSUME NEW c \in Nat, NEW M, NEW s, SoundSessions(s, M, c),
         NEW view, SoundMap(view, Secrets, c)
  PROVE  /\ SoundSessions(AfterSecrets(s, view), M, c)
         /\ DOMAIN AfterSecrets(s, view) = DOMAIN s
         /\ \A id \in DOMAIN s : AfterSecrets(s, view)[id].at >= s[id].at
<1> DEFINE G == AfterSecrets(s, view)
<1>1. /\ G = [id \in DOMAIN G |-> G[id]] /\ DOMAIN G = DOMAIN s
      /\ \A id \in DOMAIN s :
           G[id] = IF id \in DOMAIN view THEN WithSecret(s[id], view[id])
                   ELSE s[id]
  BY DEF AfterSecrets
<1>2. /\ \A id \in DOMAIN s : /\ id \in Ids /\ Known(id, M) /\ s[id] \in Sessions
                              /\ s[id].at <= c
      /\ \A id \in DOMAIN view : view[id] \in Secrets /\ view[id].at <= c
  BY DEF SoundSessions, SoundMap, IsMap
<1>3. ASSUME NEW x \in Sessions, x.at <= c, NEW y \in Secrets, y.at <= c
      PROVE  /\ WithSecret(x, y) \in Sessions /\ WithSecret(x, y).at <= c
             /\ WithSecret(x, y).at >= x.at
  <2> DEFINE t == IF y.at > x.at THEN y.at ELSE x.at
  <2>1. /\ x.at \in Nat /\ t \in Nat /\ t <= c /\ t >= x.at
        /\ y.pw \in AllPasswords /\ NoPassword \in AllPasswords
    BY <1>3 DEF Sessions, Secrets, AllPasswords
  <2> HIDE DEF t
  <2>2. CASE WithSecret(x, y) = [x EXCEPT !.pw = NoPassword]
    BY <1>3, <2>1, <2>2 DEF Sessions
  <2>3. CASE WithSecret(x, y) = x
    BY <1>3, <2>1, <2>3
  <2>4. CASE WithSecret(x, y) = [x EXCEPT !.pw = y.pw, !.at = t]
    BY <1>3, <2>1, <2>4 DEF Sessions
  <2> QED
    BY <2>2, <2>3, <2>4 DEF WithSecret, t
<1> HIDE DEF G
<1>4. ASSUME NEW id \in DOMAIN s
      PROVE  G[id] \in Sessions /\ G[id].at <= c /\ G[id].at >= s[id].at
  <2>1. CASE id \in DOMAIN view
    BY <1>1, <1>2, <1>3, <2>1
  <2>2. CASE id \notin DOMAIN view
    <3>1. s[id].at \in Nat
      BY <1>2 DEF Sessions
    <3> QED
      BY <1>1, <1>2, <2>2, <3>1
  <2> QED
    BY <2>1, <2>2
<1>5. SoundSessions(G, M, c)
  BY <1>1, <1>2, <1>4 DEF SoundSessions, SoundMap, IsMap
<1> QED
  BY <1>1, <1>4, <1>5 DEF G

-----------------------------------------------------------------------------
(* The inductive invariant.  A job carries the deletions of the device from *)
(* its local document to the outcome, and no session is older than a       *)
(* deletion that the device knows.                                         *)

Exchange == {"get", "put", "put2", "force"}

(* A record with the fields of a job.                                      *)
JobFields(j) ==
  j \in [stage : Stages, creds : BOOLEAN, gotHosts : BOOLEAN, gotCreds : BOOLEAN,
         sent : SUBSET Ids, doc : {j.doc}, base : {j.base}, view : {j.view},
         upload : {j.upload}, cbase : {j.cbase}]

SoundJob(j, previous, M, c) ==
  /\ JobFields(j)
  /\ SoundDocument(j.doc, M, c) /\ SoundDocument(j.base, M, c)
  /\ SoundMap(j.view, Secrets, c) /\ SoundMap(j.upload, Secrets, c)
  /\ SoundMap(j.cbase, Secrets, c)
  /\ j.stage \in Exchange => ~j.gotHosts
  /\ j.stage \in Exchange \/ j.gotHosts => Carries(j.doc, previous)

SoundDevice(d) ==
  /\ SoundSessions(sess[d], made, clock)
  /\ SoundDocument(last[d], made, clock)
  /\ SoundMap(stamps[d], Stamped, clock)
  /\ Respects(sess[d], last[d])
  /\ SoundJob(job[d], last[d], made, clock)

Scalars ==
  /\ clock \in 1 .. MaxClock
  /\ {DOMAIN sess, DOMAIN last, DOMAIN stamps, DOMAIN job} = {Devices}
  /\ creds \in [Devices -> BOOLEAN]
  /\ made \subseteq Hosts
  /\ edits \in 0 .. MaxEdits /\ faults \in 0 .. MaxFaults /\ ties \in Nat
  /\ IsMap(typed, Nat) /\ lost \in BOOLEAN

SyncInv ==
  /\ Scalars
  /\ SoundDocument(hosts, made, clock) /\ SoundMap(secrets, Secrets, clock)
  /\ \A d \in Devices : SoundDevice(d)

LEMMA SyncTypes == SyncInv => TypeOK
<1> SUFFICES ASSUME SyncInv PROVE TypeOK
  OBVIOUS
<1>1. ASSUME NEW d \in Devices
      PROVE  /\ IsMap(sess[d], Sessions) /\ IsDocument(last[d])
             /\ IsMap(stamps[d], Stamped)
             /\ DOMAIN job[d] = DOMAIN NoJob /\ job[d].stage \in Stages
             /\ {job[d].creds, job[d].gotHosts, job[d].gotCreds} \subseteq BOOLEAN
             /\ job[d].sent \subseteq Ids
             /\ IsDocument(job[d].doc) /\ IsDocument(job[d].base)
             /\ \A m \in {job[d].view, job[d].upload, job[d].cbase} :
                  IsMap(m, Secrets)
  <2>1. SoundDevice(d)
    BY DEF SyncInv
  <2>2. /\ DOMAIN job[d] = DOMAIN NoJob /\ job[d].stage \in Stages
        /\ {job[d].creds, job[d].gotHosts, job[d].gotCreds} \subseteq BOOLEAN
        /\ job[d].sent \subseteq Ids
    BY <2>1 DEF SoundDevice, SoundJob, JobFields, NoJob
  <2> QED
    BY <2>1, <2>2 DEF SoundDevice, SoundJob, SoundSessions, SoundDocument, SoundMap
<1> QED
  BY <1>1 DEF SyncInv, Scalars, TypeOK, SoundDocument, SoundMap, Stamped

LEMMA SyncInit == Init => SyncInv
<1> SUFFICES ASSUME Init PROVE SyncInv
  OBVIOUS
<1>1. Scalars
  <2>1. clock \in 1 .. MaxClock /\ edits \in 0 .. MaxEdits /\ faults \in 0 .. MaxFaults
    BY SyncAssumption DEF Init
  <2>2. IsMap(typed, Nat)
    BY NothingIsSound DEF Init, SoundMap
  <2> QED
    BY <2>1, <2>2 DEF Init, Scalars
<1>2. ASSUME NEW d \in Devices PROVE SoundDevice(d)
  <2>1. /\ sess[d] = Nothing /\ last[d] = Nothing /\ stamps[d] = Nothing
        /\ job[d] = NoJob
    BY DEF Init
  <2>2. SoundJob(NoJob, Nothing, made, clock)
    <3>1. JobFields(NoJob) /\ NoJob.stage \notin Exchange /\ ~NoJob.gotHosts
      BY DEF JobFields, NoJob, Stages, Exchange
    <3> QED
      BY <3>1, NothingIsSound DEF SoundJob, NoJob
  <2>3. Respects(Nothing, Nothing)
    BY NothingIsSound DEF Respects
  <2> QED
    BY <2>1, <2>2, <2>3, NothingIsSound DEF SoundDevice
<1>3. hosts = Nothing /\ secrets = Nothing
  BY DEF Init
<1> QED
  BY <1>1, <1>2, <1>3, NothingIsSound DEF SyncInv

(* A step of the sync of one device, as to its job.                        *)
LEMMA JobStep ==
  ASSUME SyncInv, NEW d \in Devices, NEW j, Goes(d, j), Working,
         SoundJob(j, last[d], made, clock), SoundDocument(hosts', made, clock),
         SoundMap(secrets', Secrets, clock),
         faults' \in 0 .. MaxFaults, ties' \in Nat
  PROVE  SyncInv'
<1>1. Scalars /\ DOMAIN job = Devices
  BY DEF SyncInv, Scalars
<1>2. /\ DOMAIN job' = Devices /\ job'[d] = j
      /\ \A e \in Devices \ {d} : job'[e] = job[e]
  BY <1>1 DEF Goes
<1>3. Scalars'
  BY <1>1, <1>2 DEF Scalars, Working
<1>4. ASSUME NEW e \in Devices PROVE SoundDevice(e)'
  <2>1. SoundDevice(e)
    BY DEF SyncInv
  <2> QED
    BY <1>2, <2>1 DEF SoundDevice, Working
<1> QED
  BY <1>3, <1>4 DEF SyncInv, Working

(* A step of the user of one device.                                       *)
LEMMA UserStep ==
  ASSUME SyncInv, NEW d \in Devices, NEW s, Offline,
         sess' = [sess EXCEPT ![d] = s],
         made \subseteq made', made' \subseteq Hosts, edits' \in 0 .. MaxEdits,
         creds' \in [Devices -> BOOLEAN], IsMap(typed', Nat),
         SoundSessions(s, made', clock), Respects(s, last[d])
  PROVE  SyncInv'
<1>1. Scalars /\ DOMAIN sess = Devices /\ clock \in Nat
  BY DEF SyncInv, Scalars
<1>2. /\ DOMAIN sess' = Devices /\ sess'[d] = s
      /\ \A e \in Devices \ {d} : sess'[e] = sess[e]
  BY <1>1
<1>3. Scalars'
  BY <1>1, <1>2 DEF Scalars, Offline
<1>4. /\ \A doc : SoundDocument(doc, made, clock) => SoundDocument(doc, made', clock)
      /\ \A t : SoundSessions(t, made, clock) => SoundSessions(t, made', clock)
  BY <1>1, StaysSound
<1>5. ASSUME NEW e \in Devices PROVE SoundDevice(e)'
  <2>1. SoundDevice(e)
    BY DEF SyncInv
  <2>2. /\ SoundDocument(last[e], made', clock) /\ SoundMap(stamps[e], Stamped, clock)
        /\ SoundJob(job[e], last[e], made', clock)
    BY <1>4, <2>1 DEF SoundDevice, SoundJob
  <2>3. SoundSessions(sess'[e], made', clock) /\ Respects(sess'[e], last[e])
    BY <1>2, <1>4, <2>1 DEF SoundDevice
  <2> QED
    BY <2>2, <2>3 DEF SoundDevice, Offline
<1> QED
  BY <1>3, <1>4, <1>5 DEF SyncInv, Offline

(* The job, from one exchange to the next and to its outcome.              *)
LEMMA HostsMove ==
  ASSUME NEW M, NEW c, NEW previous, NEW j, SoundJob(j, previous, M, c),
         j.stage \in Exchange, NEW doc, SoundDocument(doc, M, c),
         Carries(doc, previous), NEW base, SoundDocument(base, M, c),
         NEW next \in Exchange
  PROVE  /\ SoundJob(HostsDone(j, doc), previous, M, c)
         /\ SoundJob(HostsFailed(j), previous, M, c)
         /\ SoundJob([j EXCEPT !.stage = next], previous, M, c)
         /\ SoundJob([j EXCEPT !.doc = doc, !.base = base, !.stage = next],
                     previous, M, c)
<1>1. /\ JobFields(j) /\ ~j.gotHosts /\ Carries(j.doc, previous)
      /\ next \in Stages
  BY DEF SoundJob, Stages, Exchange
<1>2. AfterHostsStage(j) \in Stages \ Exchange
  BY DEF AfterHostsStage, Stages, Exchange
<1>3. SoundJob(HostsDone(j, doc), previous, M, c)
  <2> DEFINE k == HostsDone(j, doc)
  <2>1. /\ JobFields(k) /\ k.doc = doc /\ k.base = Nothing
        /\ k.stage = AfterHostsStage(j) /\ k.gotHosts
        /\ k.view = j.view /\ k.upload = j.upload /\ k.cbase = j.cbase
    BY <1>1, <1>2 DEF JobFields, HostsDone
  <2> HIDE DEF k
  <2>2. SoundJob(k, previous, M, c)
    BY <1>2, <2>1, NothingIsSound DEF SoundJob
  <2> QED
    BY <2>2 DEF k
<1>4. SoundJob(HostsFailed(j), previous, M, c)
  <2> DEFINE k == HostsFailed(j)
  <2>1. /\ JobFields(k) /\ k.doc = Nothing /\ k.base = Nothing
        /\ k.stage = AfterHostsStage(j) /\ k.gotHosts = j.gotHosts
        /\ k.view = j.view /\ k.upload = j.upload /\ k.cbase = j.cbase
    BY <1>1, <1>2 DEF JobFields, HostsFailed
  <2> HIDE DEF k
  <2>2. SoundJob(k, previous, M, c)
    BY <1>1, <1>2, <2>1, NothingIsSound DEF SoundJob
  <2> QED
    BY <2>2 DEF k
<1>5. SoundJob([j EXCEPT !.stage = next], previous, M, c)
  <2> DEFINE k == [j EXCEPT !.stage = next]
  <2>1. /\ JobFields(k) /\ k.doc = j.doc /\ k.base = j.base
        /\ k.stage = next /\ k.gotHosts = j.gotHosts
        /\ k.view = j.view /\ k.upload = j.upload /\ k.cbase = j.cbase
    BY <1>1 DEF JobFields
  <2> HIDE DEF k
  <2>2. SoundJob(k, previous, M, c)
    BY <1>1, <2>1 DEF SoundJob
  <2> QED
    BY <2>2 DEF k
<1>6. SoundJob([j EXCEPT !.doc = doc, !.base = base, !.stage = next],
               previous, M, c)
  <2> DEFINE k == [j EXCEPT !.doc = doc, !.base = base, !.stage = next]
  <2>1. /\ JobFields(k) /\ k.doc = doc /\ k.base = base
        /\ k.stage = next /\ k.gotHosts = j.gotHosts
        /\ k.view = j.view /\ k.upload = j.upload /\ k.cbase = j.cbase
    BY <1>1 DEF JobFields
  <2> HIDE DEF k
  <2>2. SoundJob(k, previous, M, c)
    BY <1>1, <2>1 DEF SoundJob
  <2> QED
    BY <2>2 DEF k
<1> QED
  BY <1>3, <1>4, <1>5, <1>6

LEMMA CredsMove ==
  ASSUME NEW M, NEW c, NEW previous, NEW j, SoundJob(j, previous, M, c),
         j.stage \notin Exchange, NEW view, SoundMap(view, Secrets, c),
         NEW upload, SoundMap(upload, Secrets, c),
         NEW cbase, SoundMap(cbase, Secrets, c), NEW next \in {"cput", "cput2"}
  PROVE  /\ SoundJob(CredsDone(j, view), previous, M, c)
         /\ SoundJob(CredsFailed(j), previous, M, c)
         /\ SoundJob([j EXCEPT !.view = view, !.upload = upload, !.cbase = cbase,
                               !.stage = next], previous, M, c)
<1>1. JobFields(j) /\ {"done", next} \subseteq Stages \ Exchange
  BY DEF SoundJob, Stages, Exchange
<1>2. SoundJob(CredsDone(j, view), previous, M, c)
  <2> DEFINE k == CredsDone(j, view)
  <2>1. /\ JobFields(k) /\ k.doc = j.doc /\ k.base = j.base
        /\ k.stage = "done" /\ k.gotHosts = j.gotHosts
        /\ k.view = view /\ k.upload = Nothing /\ k.cbase = Nothing
    BY <1>1 DEF JobFields, CredsDone
  <2> HIDE DEF k
  <2>2. SoundJob(k, previous, M, c)
    BY <1>1, <2>1, NothingIsSound DEF SoundJob
  <2> QED
    BY <2>2 DEF k
<1>3. SoundJob(CredsFailed(j), previous, M, c)
  <2> DEFINE k == CredsFailed(j)
  <2>1. /\ JobFields(k) /\ k.doc = j.doc /\ k.base = j.base
        /\ k.stage = "done" /\ k.gotHosts = j.gotHosts
        /\ k.view = Nothing /\ k.upload = Nothing /\ k.cbase = Nothing
    BY <1>1 DEF JobFields, CredsFailed
  <2> HIDE DEF k
  <2>2. SoundJob(k, previous, M, c)
    BY <1>1, <2>1, NothingIsSound DEF SoundJob
  <2> QED
    BY <2>2 DEF k
<1>4. SoundJob([j EXCEPT !.view = view, !.upload = upload, !.cbase = cbase,
                         !.stage = next], previous, M, c)
  <2> DEFINE k == [j EXCEPT !.view = view, !.upload = upload, !.cbase = cbase,
                            !.stage = next]
  <2>1. /\ JobFields(k) /\ k.doc = j.doc /\ k.base = j.base
        /\ k.stage = next /\ k.gotHosts = j.gotHosts
        /\ k.view = view /\ k.upload = upload /\ k.cbase = cbase
    BY <1>1 DEF JobFields
  <2> HIDE DEF k
  <2>2. SoundJob(k, previous, M, c)
    BY <1>1, <2>1 DEF SoundJob
  <2> QED
    BY <2>2 DEF k
<1> QED
  BY <1>2, <1>3, <1>4

-----------------------------------------------------------------------------
(* The steps.                                                              *)

LEMMA UserKeeps ==
  ASSUME SyncInv, NEW d \in Devices, User(d)
  PROVE  SyncInv'
<1>1. /\ Scalars /\ SoundDevice(d) /\ clock \in Nat /\ edits \in Nat
      /\ edits + 1 \in Nat /\ MaxEdits \in Nat
  BY SyncAssumption DEF SyncInv, Scalars
<1>2. /\ SoundSessions(sess[d], made, clock) /\ SoundDocument(last[d], made, clock)
      /\ Respects(sess[d], last[d])
  BY <1>1 DEF SoundDevice
<1>3. /\ sess[d] = [i \in DOMAIN sess[d] |-> sess[d][i]]
      /\ \A i \in DOMAIN sess[d] : /\ i \in Ids /\ sess[d][i] \in Sessions
                                   /\ sess[d][i].at <= clock /\ Known(i, made)
  BY <1>2 DEF SoundSessions, SoundMap, IsMap
<1>4. /\ IsMap(typed, Nat)
      /\ \A i \in Ids : IsMap(With(typed, i, clock), Nat)
      /\ \A i : IsMap(Without(typed, i), Nat)
  BY <1>1 DEF Scalars, IsMap, With, Without
<1>5. ASSUME NEW h \in Hosts, Add(d, h) PROVE SyncInv'
  <2> DEFINE s == [val |-> New, mark |-> FALSE, at |-> clock, pw |-> NewPassword]
             id == <<h>>
             t == With(sess[d], id, s)
  <2>1. /\ h \notin made /\ made' = made \cup {h} /\ Offline
        /\ sess' = [sess EXCEPT ![d] = t] /\ typed' = With(typed, id, clock)
        /\ UNCHANGED <<creds, edits>>
    BY <1>5 DEF Add, Save
  <2>2. id \in Ids /\ Len(id) = 1 /\ id \in MadeIds(made') /\ id \notin MadeIds(made)
    <3>1. h \in Hosts \cup Nat
      OBVIOUS
    <3>2. id \in Ids /\ Len(id) = 1 /\ id[1] = h
      BY <3>1 DEF Ids
    <3>3. \A g \in made : <<g>>[1] = g
      OBVIOUS
    <3> QED
      BY <2>1, <3>2, <3>3 DEF MadeIds
  <2>3. s \in Sessions /\ s.at = clock
    BY <1>1, SyncAssumption DEF Sessions
  <2>4. /\ t = [i \in DOMAIN t |-> t[i]] /\ DOMAIN t = DOMAIN sess[d] \cup {id}
        /\ \A i \in DOMAIN t : t[i] = IF i = id THEN s ELSE sess[d][i]
    BY DEF With
  <2>5. \A i : Known(i, made) => Known(i, made')
    BY <2>1 DEF Known, MadeIds
  <2> HIDE DEF s, id, t
  <2>6. ~IsCopy(id) /\ Known(id, made') /\ ~Known(id, made)
    BY <2>2 DEF IsCopy, Known
  <2>7. \A i \in DOMAIN t : /\ i \in Ids /\ t[i] \in Sessions /\ t[i].at <= clock
                            /\ Known(i, made')
    BY <1>1, <1>3, <2>2, <2>3, <2>4, <2>5, <2>6
  <2>8. SoundSessions(t, made', clock)
    BY <2>4, <2>7 DEF SoundSessions, SoundMap, IsMap
  <2>9. id \notin DOMAIN last[d]
    BY <1>2, <2>6 DEF SoundDocument
  <2>10. Respects(t, last[d])
    BY <1>2, <2>4, <2>9 DEF Respects
  <2>11. made \subseteq made' /\ made' \subseteq Hosts
    BY <1>1, <2>1 DEF Scalars
  <2> QED
    BY <1>1, <1>4, <2>1, <2>2, <2>8, <2>10, <2>11, UserStep DEF Scalars
<1>6. ASSUME NEW id \in DOMAIN sess[d], NEW v \in Values, NEW p \in Passwords,
             Update(d, id, v, p)
      PROVE  SyncInv'
  <2> DEFINE s == [sess[d][id] EXCEPT !.val = v, !.pw = p, !.at = clock]
             t == With(sess[d], id, s)
  <2>1. /\ edits' \in 0 .. MaxEdits /\ Offline
        /\ sess' = [sess EXCEPT ![d] = t] /\ typed' = With(typed, id, clock)
        /\ UNCHANGED <<creds, made>>
    BY <1>1, <1>6 DEF Update, Save, Changes
  <2>2. s \in Sessions /\ s.at = clock
    BY <1>1, <1>3 DEF Sessions, AllPasswords
  <2>3. /\ t = [i \in DOMAIN t |-> t[i]] /\ DOMAIN t = DOMAIN sess[d] \cup {id}
        /\ \A i \in DOMAIN t : t[i] = IF i = id THEN s ELSE sess[d][i]
    BY DEF With
  <2> HIDE DEF s, t
  <2>4. \A i \in DOMAIN t : /\ i \in Ids /\ t[i] \in Sessions /\ t[i].at <= clock
                            /\ Known(i, made)
    BY <1>1, <1>3, <2>2, <2>3
  <2>5. SoundSessions(t, made, clock)
    BY <2>3, <2>4 DEF SoundSessions, SoundMap, IsMap
  <2>6. ASSUME NEW i \in DOMAIN last[d] \cap DOMAIN t, ~IsCopy(i),
               Entry(last[d], i).deleted
        PROVE  t[i].at >= Entry(last[d], i).at
    <3>1. Entry(last[d], i).at <= clock /\ Entry(last[d], i).at \in Nat
      BY <1>2, EntryIsSound
    <3> QED
      BY <1>1, <1>2, <2>2, <2>3, <2>6, <3>1 DEF Respects
  <2>7. Respects(t, last[d])
    BY <2>6 DEF Respects
  <2> QED
    BY <1>1, <1>3, <1>4, <2>1, <2>5, <2>7, UserStep DEF Scalars
<1>7. ASSUME NEW id \in DOMAIN sess[d], Delete(d, id) PROVE SyncInv'
  <2> DEFINE t == Without(sess[d], id)
  <2>1. /\ edits' \in 0 .. MaxEdits /\ Offline
        /\ sess' = [sess EXCEPT ![d] = t] /\ IsMap(typed', Nat)
        /\ UNCHANGED <<creds, made>>
    BY <1>1, <1>4, <1>7 DEF Delete, Changes
  <2>2. /\ t = [i \in DOMAIN t |-> t[i]] /\ DOMAIN t \subseteq DOMAIN sess[d]
        /\ \A i \in DOMAIN t : t[i] = sess[d][i]
    BY DEF Without
  <2> HIDE DEF t
  <2>3. SoundSessions(t, made, clock)
    BY <1>3, <2>2 DEF SoundSessions, SoundMap, IsMap
  <2>4. Respects(t, last[d])
    BY <1>2, <2>2 DEF Respects
  <2> QED
    BY <1>1, <2>1, <2>3, <2>4, UserStep DEF Scalars
<1>8. CASE SwitchCreds(d)
  <2>1. /\ Offline /\ UNCHANGED <<sess, made, edits, typed>>
        /\ creds' \in [Devices -> BOOLEAN]
    BY <1>1, <1>8 DEF SwitchCreds, Scalars
  <2>2. sess' = [sess EXCEPT ![d] = sess[d]] \/ sess' = sess
    BY <2>1
  <2>3. Scalars'
    BY <1>1, <2>1 DEF Scalars, Offline
  <2> QED
    BY <2>1, <2>3 DEF SyncInv, SoundDevice, Offline
<1> QED
  BY <1>5, <1>6, <1>7, <1>8 DEF User

LEMMA StartKeeps ==
  ASSUME SyncInv, NEW d \in Devices, Start(d)
  PROVE  SyncInv'
<1>1. /\ Scalars /\ SoundDevice(d) /\ clock \in Nat /\ creds[d] \in BOOLEAN
  BY DEF SyncInv, Scalars
<1>2. /\ SoundSessions(sess[d], made, clock) /\ SoundDocument(last[d], made, clock)
      /\ SoundMap(stamps[d], Stamped, clock) /\ Respects(sess[d], last[d])
  BY <1>1 DEF SoundDevice
<1> DEFINE doc == LocalDocument(sess[d], last[d], clock)
           view == IF creds[d] THEN LocalSecrets(sess[d], stamps[d], clock)
                   ELSE Nothing
           j == [NoJob EXCEPT !.stage = "get", !.creds = creds[d],
                              !.sent = DOMAIN sess[d], !.doc = doc, !.view = view]
<1>3. Goes(d, j) /\ UNCHANGED <<hosts, secrets, faults, ties>> /\ Working
  BY DEF Start
<1>4. SoundDocument(doc, made, clock) /\ Carries(doc, last[d])
  BY <1>1, <1>2, LocalDocumentSound
<1>5. SoundMap(view, Secrets, clock)
  BY <1>1, <1>2, LocalSecretsSound, NothingIsSound
<1>6. DOMAIN sess[d] \subseteq Ids
  BY <1>2 DEF SoundSessions, SoundMap, IsMap
<1> HIDE DEF doc, view
<1>7. /\ JobFields(j) /\ j.doc = doc /\ j.base = Nothing /\ j.view = view
      /\ j.upload = Nothing /\ j.cbase = Nothing /\ j.stage = "get" /\ ~j.gotHosts
  BY <1>1, <1>6 DEF JobFields, NoJob, Stages
<1> HIDE DEF j
<1>8. SoundJob(j, last[d], made, clock)
  BY <1>4, <1>5, <1>7, NothingIsSound DEF SoundJob
<1> QED
  BY <1>1, <1>3, <1>8, JobStep DEF SyncInv, Scalars

LEMMA HostsKeep ==
  ASSUME SyncInv, NEW d \in Devices,
         \/ Get(d) \/ Put(d) \/ PutAgain(d) \/ PutAnything(d)
  PROVE  SyncInv'
<1> DEFINE j == job[d]
           merged == Merge(j.doc, hosts)
           sound(k) == SoundJob(k, last[d], made, clock)
<1>1. /\ Scalars /\ sound(j) /\ clock \in Nat /\ ties \in Nat
      /\ faults \in 0 .. MaxFaults /\ SoundDocument(last[d], made, clock)
      /\ SoundDocument(hosts, made, clock) /\ SoundMap(secrets, Secrets, clock)
  BY DEF SyncInv, Scalars, SoundDevice
<1>2. j.stage \in Exchange /\ Working /\ UNCHANGED <<secrets, faults>>
  BY DEF Get, Put, PutAgain, PutAnything, At, Exchange
<1>3. /\ SoundDocument(j.doc, made, clock) /\ Carries(j.doc, last[d])
      /\ SoundDocument(j.base, made, clock)
  BY <1>1, <1>2 DEF SoundJob
<1>4. SoundDocument(merged, made, clock) /\ Carries(merged, last[d])
  BY <1>1, <1>3, MergeSound, MergeCarries DEF SoundDocument
<1> HIDE DEF merged
<1>5. /\ sound(HostsDone(j, merged)) /\ sound(HostsFailed(j))
      /\ \A next \in Exchange : /\ sound([j EXCEPT !.stage = next])
           /\ sound([j EXCEPT !.doc = merged, !.base = hosts, !.stage = next])
  BY <1>1, <1>2, <1>4, HostsMove
<1>6. sound(HostsDone(j, j.doc))
  BY <1>1, <1>2, <1>3, HostsMove
<1>7. ASSUME NEW next \in Exchange, MergeHosts(d, next)
      PROVE  ties' \in Nat /\ \E k : Goes(d, k) /\ sound(k)
  <2>1. /\ ties' = ties + IF Tied(j.doc, hosts) = {} THEN 0 ELSE 1
        /\ Goes(d, IF merged = hosts THEN HostsDone(j, merged)
                   ELSE [j EXCEPT !.doc = merged, !.base = hosts, !.stage = next])
    BY <1>7 DEF MergeHosts, merged
  <2>2. ties' \in Nat
    BY <1>1, <2>1
  <2>3. sound(IF merged = hosts THEN HostsDone(j, merged)
              ELSE [j EXCEPT !.doc = merged, !.base = hosts, !.stage = next])
    BY <1>5
  <2> HIDE DEF j, sound
  <2> QED
    BY <2>1, <2>2, <2>3
<1>8. /\ SoundDocument(hosts', made, clock) /\ ties' \in Nat
      /\ \E k : Goes(d, k) /\ sound(k)
  <2>1. CASE Get(d)
    BY <1>1, <1>7, <2>1 DEF Get, Exchange
  <2>2. CASE Stored(d)
    BY <1>1, <1>3, <1>6, <2>2 DEF Stored
  <2>3. CASE UNCHANGED hosts /\ MergeHosts(d, "put2")
    BY <1>1, <1>7, <2>3 DEF Exchange
  <2>4. CASE /\ UNCHANGED <<hosts, ties>>
             /\ \/ Goes(d, [j EXCEPT !.stage = "force"])
                \/ Goes(d, HostsDone(j, j.doc)) \/ Goes(d, HostsFailed(j))
    BY <1>1, <1>5, <1>6, <2>4 DEF Exchange
  <2>5. CASE PutAnything(d)
    BY <1>1, <1>3, <1>6, <2>5 DEF PutAnything
  <2> QED
    BY <2>1, <2>2, <2>3, <2>4, <2>5 DEF Put, PutAgain, Refused
<1>9. PICK k : Goes(d, k) /\ sound(k)
  BY <1>8
<1> QED
  BY <1>1, <1>2, <1>8, <1>9, JobStep

LEMMA CredsKeep ==
  ASSUME SyncInv, NEW d \in Devices,
         \/ \E passphrase \in BOOLEAN : GetCreds(d, passphrase)
         \/ PutCreds(d) \/ PutCredsAgain(d)
  PROVE  SyncInv'
<1> DEFINE j == job[d]
           tombs == DeletedHosts(d)
           view == LocalView(j.view, secrets, tombs)
           upload == UploadView(j.view, secrets, tombs)
           sound(k) == SoundJob(k, last[d], made, clock)
           merged(next) == [j EXCEPT !.view = view, !.upload = upload,
                                     !.cbase = secrets, !.stage = next]
<1>1. /\ Scalars /\ sound(j) /\ clock \in Nat /\ ties \in Nat
      /\ faults \in 0 .. MaxFaults /\ SoundDocument(last[d], made, clock)
      /\ SoundDocument(hosts, made, clock) /\ SoundMap(secrets, Secrets, clock)
  BY DEF SyncInv, Scalars, SoundDevice
<1>2. /\ j.stage \notin Exchange /\ Working /\ UNCHANGED <<hosts, ties>>
      /\ UNCHANGED faults \/ Faulty("recovery")
  BY DEF GetCreds, PutCreds, PutCredsAgain, At, Exchange
<1>3. faults' \in 0 .. MaxFaults
  BY <1>1, <1>2, SyncAssumption DEF Faulty
<1>4. /\ SoundDocument(j.doc, made, clock) /\ SoundMap(j.view, Secrets, clock)
      /\ SoundMap(j.upload, Secrets, clock) /\ JobFields(j)
  BY <1>1 DEF SoundJob
<1>5. \A i \in DOMAIN tombs : tombs[i] \in Nat /\ tombs[i] <= clock
  <2>1. CASE j.gotHosts
    BY <1>4, <2>1, TombsSound DEF DeletedHosts
  <2>2. CASE ~j.gotHosts
    BY <1>1, <2>2, TombsSound DEF DeletedHosts
  <2> QED
    BY <2>1, <2>2
<1> HIDE DEF tombs
<1>6. SoundMap(view, Secrets, clock) /\ SoundMap(upload, Secrets, clock)
  BY <1>1, <1>4, <1>5, SecretsMerged DEF LocalView, UploadView
<1>7. \A next : MergeCreds(d, next) = merged(next)
  BY DEF MergeCreds, tombs
<1> HIDE DEF view, upload
<1>8. \A next \in {"cput", "cput2"} :
        /\ sound(merged(next)) /\ merged(next).stage \notin Exchange
        /\ merged(next).view = view /\ merged(next).upload = upload
  <2>1. \A next \in {"cput", "cput2"} : sound(merged(next))
    BY <1>1, <1>2, <1>6, CredsMove
  <2> QED
    BY <1>4, <2>1 DEF JobFields, Exchange
<1>9. /\ sound(CredsDone(merged("cput"), view)) /\ sound(CredsDone(j, j.view))
      /\ sound(CredsFailed(j))
  <2> HIDE DEF merged
  <2>1. sound(CredsDone(merged("cput"), view))
    BY <1>1, <1>6, <1>8, CredsMove
  <2>2. sound(CredsDone(j, j.view)) /\ sound(CredsFailed(j))
    BY <1>1, <1>2, <1>4, <1>6, CredsMove
  <2> QED
    BY <2>1, <2>2
<1>10. SoundMap(secrets', Secrets, clock) /\ \E k : Goes(d, k) /\ sound(k)
  <2>1. ASSUME NEW passphrase \in BOOLEAN, GetCreds(d, passphrase)
        PROVE  UNCHANGED secrets /\ \E k : Goes(d, k) /\ sound(k)
    <3>1. /\ UNCHANGED secrets
          /\ \/ Goes(d, CredsDone(MergeCreds(d, "cput"), MergeCreds(d, "cput").view))
             \/ Goes(d, MergeCreds(d, "cput"))
      BY <2>1 DEF GetCreds
    <3> HIDE DEF sound, merged
    <3> QED
      BY <1>7, <1>8, <1>9, <3>1
  <2>2. CASE StoredCreds(d)
    BY <1>4, <1>9, <2>2 DEF StoredCreds
  <2>3. CASE UNCHANGED secrets /\ Goes(d, MergeCreds(d, "cput2"))
    BY <1>1, <1>7, <1>8, <2>3
  <2>4. CASE /\ UNCHANGED secrets
             /\ Goes(d, CredsDone(j, j.view)) \/ Goes(d, CredsFailed(j))
    BY <1>1, <1>9, <2>4
  <2> QED
    BY <1>1, <2>1, <2>2, <2>3, <2>4 DEF PutCreds, PutCredsAgain, RefusedCreds
<1>11. PICK k : Goes(d, k) /\ sound(k)
  BY <1>10
<1> QED
  BY <1>1, <1>2, <1>3, <1>10, <1>11, JobStep

(* What the outcome makes of the sessions: a host of which a deletion is   *)
(* known is older than it in no case.                                      *)
LEMMA AppliedSound ==
  ASSUME SyncInv, NEW d \in Devices
  PROVE  /\ SoundSessions(Applied(d), made, clock)
         /\ Respects(Applied(d), last[d])
         /\ job[d].gotHosts => Respects(Applied(d), job[d].doc)
<1> DEFINE j == job[d]
           after == IF j.gotHosts THEN AfterHosts(sess[d], j.doc) ELSE sess[d]
<1>1. /\ clock \in Nat /\ SoundSessions(sess[d], made, clock)
      /\ SoundDocument(last[d], made, clock) /\ Respects(sess[d], last[d])
      /\ SoundJob(j, last[d], made, clock)
  BY DEF SyncInv, Scalars, SoundDevice
<1>2. /\ SoundDocument(j.doc, made, clock) /\ SoundMap(j.view, Secrets, clock)
      /\ j.gotHosts => Carries(j.doc, last[d])
  BY <1>1 DEF SoundJob
<1>3. /\ SoundSessions(after, made, clock) /\ Respects(after, last[d])
      /\ j.gotHosts => Respects(after, j.doc)
  <2>1. CASE ~j.gotHosts
    BY <1>1, <2>1
  <2>2. CASE j.gotHosts
    <3>1. /\ SoundSessions(after, made, clock)
          /\ \A id \in DOMAIN j.doc \cap DOMAIN after :
               ~IsCopy(id) => /\ ~Entry(j.doc, id).deleted
                              /\ after[id].at = Entry(j.doc, id).at
      BY <1>1, <1>2, <2>2, AfterHostsSound
    <3> HIDE DEF after, j
    <3>2. Respects(after, j.doc)
      BY <3>1 DEF Respects
    <3>3. Respects(after, last[d])
      BY <1>2, <2>2, <3>1 DEF Respects, Carries
    <3> QED
      BY <3>1, <3>2, <3>3
  <2> QED
    BY <2>1, <2>2
<1>4. Applied(d) = IF j.gotCreds THEN AfterSecrets(after, j.view) ELSE after
  BY DEF Applied
<1> HIDE DEF after
<1>5. CASE ~j.gotCreds
  BY <1>3, <1>4, <1>5
<1>6. CASE j.gotCreds
  <2> DEFINE G == AfterSecrets(after, j.view)
  <2>1. /\ SoundSessions(G, made, clock) /\ DOMAIN G = DOMAIN after
        /\ \A id \in DOMAIN after : G[id].at >= after[id].at
    BY <1>1, <1>2, <1>3, AfterSecretsSound
  <2>2. \A id \in DOMAIN after : G[id].at \in Nat /\ after[id].at \in Nat
    BY <1>3, <2>1 DEF SoundSessions, SoundMap, IsMap, Sessions
  <2> HIDE DEF G
  <2>3. ASSUME NEW doc, SoundDocument(doc, made, clock), Respects(after, doc)
        PROVE  Respects(G, doc)
    <3> SUFFICES ASSUME NEW id \in DOMAIN doc \cap DOMAIN G, ~IsCopy(id),
                        Entry(doc, id).deleted
                 PROVE  G[id].at >= Entry(doc, id).at
      BY DEF Respects
    <3>1. Entry(doc, id).at \in Nat
      BY <2>3, EntryIsSound
    <3>2. after[id].at >= Entry(doc, id).at
      BY <2>1, <2>3 DEF Respects
    <3> QED
      BY <2>1, <2>2, <3>1, <3>2
  <2>4. Respects(G, last[d]) /\ (j.gotHosts => Respects(G, j.doc))
    BY <1>1, <1>2, <1>3, <2>3
  <2> QED
    BY <1>4, <1>6, <2>1, <2>4 DEF G
<1> QED
  BY <1>5, <1>6

LEMMA NoJobSound ==
  ASSUME NEW previous, NEW M, NEW c
  PROVE  SoundJob(NoJob, previous, M, c)
<1>1. JobFields(NoJob) /\ NoJob.stage \notin Exchange /\ ~NoJob.gotHosts
  BY DEF JobFields, NoJob, Stages, Exchange
<1> QED
  BY <1>1, NothingIsSound DEF SoundJob, NoJob

(* The job of a device ends, with its outcome applied or not, saved or not.*)
LEMMA EndStep ==
  ASSUME SyncInv, NEW d \in Devices, Goes(d, NoJob),
         UNCHANGED <<clock, creds, hosts, secrets, made, edits, ties, typed>>,
         faults' \in 0 .. MaxFaults, UNCHANGED <<sess, lost>> \/ ApplySessions(d),
         UNCHANGED <<last, stamps>> \/ (ApplySessions(d) /\ SaveState(d))
  PROVE  SyncInv'
<1>1. /\ Scalars /\ SoundDevice(d)
      /\ DOMAIN sess = Devices /\ DOMAIN last = Devices
      /\ DOMAIN stamps = Devices /\ DOMAIN job = Devices
  BY DEF SyncInv, Scalars
<1>2. /\ DOMAIN sess' = Devices /\ DOMAIN last' = Devices
      /\ DOMAIN stamps' = Devices /\ DOMAIN job' = Devices
      /\ lost' \in BOOLEAN /\ job'[d] = NoJob
      /\ \A e \in Devices \ {d} :
           /\ sess'[e] = sess[e] /\ last'[e] = last[e]
           /\ stamps'[e] = stamps[e] /\ job'[e] = job[e]
  BY <1>1 DEF Goes, ApplySessions, SaveState, Scalars
<1>3. Scalars'
  BY <1>1, <1>2 DEF Scalars
<1>4. /\ SoundSessions(sess[d], made, clock) /\ Respects(sess[d], last[d])
      /\ SoundDocument(last[d], made, clock) /\ SoundMap(stamps[d], Stamped, clock)
      /\ SoundJob(job[d], last[d], made, clock)
  BY <1>1 DEF SoundDevice
<1>5. SoundDocument(job[d].doc, made, clock) /\ SoundMap(job[d].view, Secrets, clock)
  BY <1>4 DEF SoundJob
<1>6. /\ SoundSessions(sess'[d], made, clock) /\ SoundDocument(last'[d], made, clock)
      /\ SoundMap(stamps'[d], Stamped, clock) /\ Respects(sess'[d], last'[d])
  <2>1. CASE UNCHANGED <<sess, last, stamps>>
    BY <1>4, <2>1
  <2>2. CASE ApplySessions(d) /\ UNCHANGED <<last, stamps>>
    <3>1. sess'[d] = Applied(d)
      BY <1>1, <2>2 DEF ApplySessions
    <3> QED
      BY <1>4, <2>2, <3>1, AppliedSound
  <2>3. CASE ApplySessions(d) /\ SaveState(d)
    <3>1. /\ sess'[d] = Applied(d)
          /\ last'[d] = IF job[d].gotHosts THEN job[d].doc ELSE last[d]
          /\ stamps'[d] = IF job[d].gotCreds THEN Stamps(job[d].view) ELSE stamps[d]
      BY <1>1, <2>3 DEF ApplySessions, SaveState
    <3> QED
      BY <1>4, <1>5, <3>1, AppliedSound, StampsSound
  <2> QED
    BY <2>1, <2>2, <2>3
<1>7. ASSUME NEW e \in Devices PROVE SoundDevice(e)'
  <2>1. CASE e = d
    BY <1>2, <1>6, <2>1, NoJobSound DEF SoundDevice
  <2>2. CASE e # d
    BY <1>2, <2>2 DEF SyncInv, SoundDevice
  <2> QED
    BY <2>1, <2>2
<1> QED
  BY <1>3, <1>7 DEF SyncInv

LEMMA FaultKeeps ==
  ASSUME SyncInv, NEW d \in Devices, Fail(d) \/ LoseAnswer(d)
  PROVE  SyncInv'
<1> DEFINE j == job[d]
           sound(k) == SoundJob(k, last[d], made, clock)
<1>1. /\ Scalars /\ sound(j) /\ clock \in Nat /\ ties \in Nat
      /\ faults \in 0 .. MaxFaults /\ SoundDocument(last[d], made, clock)
      /\ SoundDocument(hosts, made, clock) /\ SoundMap(secrets, Secrets, clock)
  BY DEF SyncInv, Scalars, SoundDevice
<1>2. /\ SoundDocument(j.doc, made, clock) /\ SoundMap(j.upload, Secrets, clock)
      /\ SoundMap(j.view, Secrets, clock)
      /\ j.stage \in Exchange => Carries(j.doc, last[d])
  BY <1>1 DEF SoundJob
<1>3. /\ Working /\ UNCHANGED ties /\ Goes(d, Gone(j)) /\ faults' \in 0 .. MaxFaults
      /\ hosts' \in {hosts, j.doc} /\ secrets' \in {secrets, j.upload}
  BY <1>1, SyncAssumption DEF Fail, LoseAnswer, Faulty
<1>4. sound(Gone(j))
  <2>1. CASE j.stage \in Exchange
    BY <1>1, <1>2, <2>1, HostsMove DEF Gone, Exchange
  <2>2. CASE j.stage \notin Exchange
    BY <1>1, <1>2, <2>2, CredsMove DEF Gone, Exchange
  <2> QED
    BY <2>1, <2>2
<1>5. SoundDocument(hosts', made, clock) /\ SoundMap(secrets', Secrets, clock)
  BY <1>1, <1>2, <1>3
<1> QED
  BY <1>1, <1>3, <1>4, <1>5, JobStep

LEMMA TickKeeps ==
  ASSUME SyncInv, Tick
  PROVE  SyncInv'
<1>1. /\ Scalars /\ clock \in Nat /\ clock' \in Nat /\ clock <= clock'
      /\ clock' \in 1 .. MaxClock
      /\ UNCHANGED <<sess, last, stamps, creds, job, hosts, secrets, made,
                     edits, faults, ties, typed, lost>>
  BY SyncAssumption DEF SyncInv, Scalars, Tick
<1>2. Scalars'
  BY <1>1 DEF Scalars
<1>3. /\ \A doc : SoundDocument(doc, made, clock) => SoundDocument(doc, made, clock')
      /\ \A m : SoundMap(m, Secrets, clock) => SoundMap(m, Secrets, clock')
      /\ \A m : SoundMap(m, Stamped, clock) => SoundMap(m, Stamped, clock')
      /\ \A s : SoundSessions(s, made, clock) => SoundSessions(s, made, clock')
  BY <1>1, StaysSound
<1>4. \A d \in Devices : SoundDevice(d)'
  BY <1>1, <1>3 DEF SyncInv, SoundDevice, SoundJob
<1> QED
  BY <1>1, <1>2, <1>3, <1>4 DEF SyncInv

LEMMA SyncStep == SyncInv /\ [Next]_vars => SyncInv'
<1> SUFFICES ASSUME SyncInv, [Next]_vars PROVE SyncInv'
  OBVIOUS
<1>1. CASE UNCHANGED vars
  BY <1>1 DEF vars, SyncInv, Scalars, SoundDevice
<1>2. CASE Tick
  BY <1>2, TickKeeps
<1>3. ASSUME NEW d \in Devices, Apply(d) \/ Crash(d) PROVE SyncInv'
  <2>1. /\ Goes(d, NoJob)
        /\ UNCHANGED <<clock, creds, hosts, secrets, made, edits, ties, typed>>
        /\ UNCHANGED <<sess, lost>> \/ ApplySessions(d)
        /\ UNCHANGED <<last, stamps>> \/ (ApplySessions(d) /\ SaveState(d))
    BY <1>3 DEF Apply, Crash
  <2>2. faults' \in 0 .. MaxFaults
    <3>1. faults \in 0 .. MaxFaults /\ MaxFaults \in Nat
      BY SyncAssumption DEF SyncInv, Scalars
    <3> QED
      BY <1>3, <3>1 DEF Apply, Crash, Faulty
  <2> QED
    BY <2>1, <2>2, EndStep
<1> QED
  BY <1>1, <1>2, <1>3, UserKeeps, StartKeeps, HostsKeep, CredsKeep, FaultKeeps
  DEF Next, Sync

LEMMA SyncInvariant == Spec => []SyncInv
BY SyncInit, SyncStep, PTL DEF Spec

-----------------------------------------------------------------------------
(* Documents, envelopes, sessions and the sync states stay well formed, for *)
(* any number of devices, hosts and conflict copies.                       *)
THEOREM SyncTypeCorrect == Spec => []TypeOK
BY SyncInvariant, SyncTypes, PTL

(* A host users made and a device knows as deleted comes back on it only   *)
(* with a change as recent as the deletion: whatever other devices do, and *)
(* whatever is refused, written over with If-Match: *, lost, or cut off by *)
(* the end of the program between the save of the sessions and that of the *)
(* sync state.                                                             *)
THEOREM DeletedStaysDeleted == Spec => NoResurrection
<1> DEFINE Kept == \A d \in Devices : \A id \in DOMAIN last[d] :
                     ~IsCopy(id) /\ Entry(last[d], id).deleted
                       /\ id \in DOMAIN sess'[d] \ DOMAIN sess[d]
                       => sess'[d][id].at >= Entry(last[d], id).at
<1>1. ASSUME SyncInv, [Next]_vars PROVE Kept
  <2> SUFFICES ASSUME NEW d \in Devices, NEW id \in DOMAIN last[d], ~IsCopy(id),
                      Entry(last[d], id).deleted,
                      id \in DOMAIN sess'[d] \ DOMAIN sess[d]
               PROVE  sess'[d][id].at >= Entry(last[d], id).at
    OBVIOUS
  <2>1. /\ DOMAIN sess = Devices /\ sess'[d] # sess[d]
        /\ SoundDocument(last[d], made, clock)
    BY <1>1 DEF SyncInv, Scalars, SoundDevice
  <2>2. CASE last'[d] = last[d]
    <3>1. Respects(sess'[d], last'[d])
      BY <1>1, SyncStep DEF SyncInv, SoundDevice
    <3> QED
      BY <2>2, <3>1 DEF Respects
  <2>3. ASSUME NEW e \in Devices, Apply(e) PROVE sess'[d][id].at >= Entry(last[d], id).at
    <3>1. e = d /\ sess'[d] = Applied(d)
      BY <2>1, <2>3 DEF Apply, ApplySessions
    <3>2. Respects(Applied(d), last[d])
      BY <1>1, AppliedSound
    <3> QED
      BY <3>1, <3>2 DEF Respects
  <2>4. ASSUME NEW e \in Devices,
               \/ User(e) \/ Start(e) \/ Fail(e) \/ LoseAnswer(e) \/ Crash(e)
               \/ Get(e) \/ Put(e) \/ PutAgain(e) \/ PutAnything(e)
               \/ \E passphrase \in BOOLEAN : GetCreds(e, passphrase)
               \/ PutCreds(e) \/ PutCredsAgain(e)
        PROVE  last'[d] = last[d]
    BY <2>4 DEF User, Add, Update, Delete, SwitchCreds, Offline, Start, Fail,
       LoseAnswer, Crash, Get, Put, PutAgain, PutAnything, GetCreds, PutCreds,
       PutCredsAgain, Working
  <2>5. CASE Tick \/ UNCHANGED vars
    BY <2>1, <2>5 DEF Tick, vars
  <2> QED
    BY <1>1, <2>2, <2>3, <2>4, <2>5 DEF Next, Sync
<1> QED
  BY SyncInvariant, <1>1, PTL DEF Spec, NoResurrection

-----------------------------------------------------------------------------
(* What If-Match is for: a copy of the server is only ever replaced by a   *)
(* merge with that very copy.                                              *)

Newer(doc, base) ==
  \A id \in DOMAIN base :
    id \in DOMAIN doc /\ Entry(doc, id).at >= Entry(base, id).at
NewerSecrets(view, base) ==
  \A id \in DOMAIN base : id \in DOMAIN view /\ view[id].at >= base[id].at

Writing == {"put", "put2", "cput", "cput2"}
JobMerged(j) ==
  /\ j.stage \in {"put", "put2"} => Newer(j.doc, j.base)
  /\ j.stage \in {"cput", "cput2"} => NewerSecrets(j.upload, j.cbase)
MergedInv == \A d \in Devices : JobMerged(job[d])

LEMMA ExchangeMerges ==
  ASSUME SyncInv, NEW d \in Devices,
         \/ Get(d) \/ Put(d) \/ PutAgain(d) \/ PutAnything(d)
  PROVE  JobMerged(job'[d])
<1> DEFINE j == job[d]
           merged == Merge(j.doc, hosts)
<1>1. /\ DOMAIN job = Devices /\ JobFields(j)
      /\ IsDocument(j.doc) /\ IsDocument(hosts)
  BY DEF SyncInv, Scalars, SoundDevice, SoundJob, SoundDocument
<1>2. Newer(merged, hosts)
  <2> SUFFICES ASSUME NEW id \in DOMAIN hosts
               PROVE  /\ id \in DOMAIN merged
                      /\ Entry(merged, id).at >= Entry(hosts, id).at
    BY DEF Newer
  <2> QED
    BY <1>1, MergeKeepsNewest
<1> HIDE DEF merged
<1>3. \A k : Goes(d, k) => job'[d] = k
  BY <1>1 DEF Goes
<1>4. \A doc : /\ HostsDone(j, doc).stage \notin Writing
               /\ HostsFailed(j).stage \notin Writing
               /\ [j EXCEPT !.stage = "force"].stage \notin Writing
  BY <1>1 DEF HostsDone, HostsFailed, AfterHostsStage, JobFields, Writing
<1>5. ASSUME NEW next \in {"put", "put2"}, MergeHosts(d, next)
      PROVE  JobMerged(job'[d])
  <2> DEFINE k == [j EXCEPT !.doc = merged, !.base = hosts, !.stage = next]
  <2>1. job'[d] = HostsDone(j, merged) \/ job'[d] = k
    BY <1>3, <1>5 DEF MergeHosts, merged
  <2>2. k.stage = next /\ k.doc = merged /\ k.base = hosts
    BY <1>1 DEF JobFields
  <2> HIDE DEF k
  <2>3. JobMerged(k)
    BY <1>2, <2>2 DEF JobMerged
  <2> HIDE DEF j
  <2> QED
    BY <1>4, <2>1, <2>3 DEF JobMerged, Writing
<1>6. ASSUME \/ Goes(d, HostsDone(j, j.doc)) \/ Goes(d, HostsFailed(j))
             \/ Goes(d, [j EXCEPT !.stage = "force"])
      PROVE  JobMerged(job'[d])
  <2>1. job'[d].stage \notin Writing
    BY <1>3, <1>4, <1>6
  <2> QED
    BY <2>1 DEF JobMerged, Writing
<1> QED
  BY <1>5, <1>6 DEF Get, Put, PutAgain, PutAnything, Stored

LEMMA CredsMerge ==
  ASSUME SyncInv, NEW d \in Devices,
         \/ \E passphrase \in BOOLEAN : GetCreds(d, passphrase)
         \/ PutCreds(d) \/ PutCredsAgain(d)
  PROVE  JobMerged(job'[d])
<1> DEFINE j == job[d]
           tombs == DeletedHosts(d)
           upload == UploadView(j.view, secrets, tombs)
<1>1. /\ DOMAIN job = Devices /\ JobFields(j)
      /\ IsMap(j.view, Secrets) /\ IsMap(secrets, Secrets)
      /\ SoundDocument(j.doc, made, clock) /\ SoundDocument(last[d], made, clock)
  BY DEF SyncInv, Scalars, SoundDevice, SoundJob, SoundMap
<1>2. \A i \in DOMAIN tombs : tombs[i] \in Nat
  <2>1. CASE j.gotHosts
    BY <1>1, <2>1, TombsSound DEF DeletedHosts
  <2>2. CASE ~j.gotHosts
    BY <1>1, <2>2, TombsSound DEF DeletedHosts
  <2> QED
    BY <2>1, <2>2
<1> HIDE DEF tombs
<1>3. NewerSecrets(upload, secrets)
  <2>1. DOMAIN upload = DOMAIN j.view \cup DOMAIN secrets
    BY DEF UploadView, MergeSecrets
  <2>2. ASSUME NEW id \in DOMAIN secrets PROVE upload[id].at >= secrets[id].at
    BY <1>1, <1>2, NewestPasswordKept
  <2> QED
    BY <2>1, <2>2 DEF NewerSecrets
<1>4. \A next : /\ MergeCreds(d, next).upload = upload
                /\ MergeCreds(d, next).cbase = secrets
                /\ MergeCreds(d, next).stage = next
                /\ JobFields(MergeCreds(d, next)) \/ next \notin Stages
  BY <1>1 DEF MergeCreds, JobFields, tombs
<1> HIDE DEF upload
<1>5. \A k : Goes(d, k) => job'[d] = k
  BY <1>1 DEF Goes
<1>6. \A k, view : JobFields(k) => /\ CredsDone(k, view).stage \notin Writing
                                   /\ CredsFailed(k).stage \notin Writing
  BY DEF CredsDone, CredsFailed, JobFields, Writing
<1>7. ASSUME NEW next \in {"cput", "cput2"}, Goes(d, MergeCreds(d, next))
      PROVE  JobMerged(job'[d])
  BY <1>3, <1>4, <1>5, <1>7 DEF JobMerged
<1>8. ASSUME NEW k, JobFields(k), NEW view,
             Goes(d, CredsDone(k, view)) \/ Goes(d, CredsFailed(k))
      PROVE  JobMerged(job'[d])
  <2>1. job'[d].stage \notin Writing
    BY <1>5, <1>6, <1>8
  <2> QED
    BY <2>1 DEF JobMerged, Writing
<1>9. ASSUME NEW passphrase \in BOOLEAN, GetCreds(d, passphrase)
      PROVE  JobMerged(job'[d])
  <2>1. \/ Goes(d, CredsDone(MergeCreds(d, "cput"), MergeCreds(d, "cput").view))
        \/ Goes(d, MergeCreds(d, "cput"))
    BY <1>9 DEF GetCreds
  <2>2. JobFields(MergeCreds(d, "cput"))
    BY <1>4 DEF Stages
  <2> QED
    BY <1>7, <1>8, <2>1, <2>2
<1> QED
  BY <1>1, <1>7, <1>8, <1>9 DEF PutCreds, PutCredsAgain, StoredCreds

LEMMA GoneEnds ==
  ASSUME NEW j, JobFields(j)
  PROVE  Gone(j).stage \in {"cget", "done"}
BY DEF Gone, HostsFailed, CredsFailed, AfterHostsStage, JobFields

LEMMA MergedStep == SyncInv /\ MergedInv /\ [Next]_vars => MergedInv'
<1> SUFFICES ASSUME SyncInv, MergedInv, [Next]_vars, NEW e \in Devices
             PROVE  JobMerged(job'[e])
  BY DEF MergedInv
<1>1. DOMAIN job = Devices /\ JobMerged(job[e]) /\ JobFields(job[e])
  BY DEF SyncInv, Scalars, MergedInv, SoundDevice, SoundJob
<1>2. CASE job'[e] = job[e]
  BY <1>1, <1>2
<1>3. ASSUME NEW d \in Devices, d # e,
             \/ User(d) \/ Start(d) \/ Sync(d) \/ Fail(d) \/ LoseAnswer(d) \/ Crash(d)
      PROVE  job'[e] = job[e]
  BY <1>1, <1>3
  DEF User, Add, Update, Delete, SwitchCreds, Offline, Start, Sync, Get, Put,
      PutAgain, PutAnything, MergeHosts, Stored, GetCreds, PutCreds,
      PutCredsAgain, StoredCreds, Apply, Fail, LoseAnswer, Crash, Goes
<1>4. CASE \/ Get(e) \/ Put(e) \/ PutAgain(e) \/ PutAnything(e)
           \/ \E passphrase \in BOOLEAN : GetCreds(e, passphrase)
           \/ PutCreds(e) \/ PutCredsAgain(e)
  BY <1>4, ExchangeMerges, CredsMerge
<1>5. CASE Start(e) \/ Apply(e) \/ Fail(e) \/ LoseAnswer(e) \/ Crash(e)
  <2>1. \A k : Goes(e, k) => job'[e] = k
    BY <1>1 DEF Goes
  <2>2. CASE Start(e)
    <3>1. job'[e].stage = "get"
      BY <1>1, <2>2 DEF Start, Goes, NoJob
    <3> QED
      BY <3>1 DEF JobMerged
  <2>3. CASE Goes(e, NoJob)
    BY <2>1, <2>3 DEF NoJob, JobMerged
  <2>4. CASE Goes(e, Gone(job[e]))
    <3>1. Gone(job[e]).stage \notin Writing
      BY <1>1, GoneEnds DEF Writing
    <3> QED
      BY <2>1, <2>4, <3>1 DEF JobMerged, Writing
  <2> QED
    BY <1>5, <2>2, <2>3, <2>4 DEF Apply, Fail, LoseAnswer, Crash
<1>6. CASE Tick \/ User(e) \/ UNCHANGED vars
  <2>1. job'[e] = job[e]
    BY <1>6 DEF Tick, User, Add, Update, Delete, SwitchCreds, Offline, vars
  <2> QED
    BY <1>2, <2>1
<1> QED
  BY <1>2, <1>3, <1>4, <1>5, <1>6 DEF Next, Sync

LEMMA MergedInvariant == Spec => [](SyncInv /\ MergedInv)
<1>1. Init => MergedInv
  BY DEF Init, MergedInv, JobMerged, NoJob
<1> QED
  BY <1>1, SyncInvariant, MergedStep, PTL DEF Spec

(* Only the writes of a job change what the server keeps.                  *)
LEMMA ServerWrites ==
  ASSUME SyncInv, [Next]_vars
  PROVE  \/ UNCHANGED <<hosts, secrets>>
         \/ \E d \in Devices :
              \/ /\ job[d].stage \in {"put", "put2"} /\ hosts = job[d].base
                 /\ hosts' = job[d].doc /\ UNCHANGED secrets
              \/ At(d, "force") /\ job'[d] # job[d] /\ UNCHANGED secrets
              \/ /\ job[d].stage \in {"cput", "cput2"} /\ secrets = job[d].cbase
                 /\ secrets' = job[d].upload /\ UNCHANGED hosts
<1> DEFINE Puts(d) ==
      /\ job[d].stage \in {"put", "put2"} /\ hosts = job[d].base
      /\ hosts' = job[d].doc /\ UNCHANGED secrets
           Forces(d) == At(d, "force") /\ job'[d] # job[d] /\ UNCHANGED secrets
           PutsCreds(d) ==
      /\ job[d].stage \in {"cput", "cput2"} /\ secrets = job[d].cbase
      /\ secrets' = job[d].upload /\ UNCHANGED hosts
<1>1. ASSUME Tick \/ UNCHANGED vars PROVE UNCHANGED <<hosts, secrets>>
  BY <1>1 DEF Tick, vars
<1>2. ASSUME NEW d \in Devices,
             \/ User(d) \/ Start(d) \/ Fail(d) \/ Apply(d) \/ Crash(d) \/ Get(d)
             \/ \E passphrase \in BOOLEAN : GetCreds(d, passphrase)
      PROVE  UNCHANGED <<hosts, secrets>>
  BY <1>2 DEF User, Add, Update, Delete, SwitchCreds, Offline, Start, Fail,
     Apply, Crash, Get, GetCreds
<1>3. ASSUME NEW d \in Devices, Put(d) \/ PutAgain(d)
      PROVE  UNCHANGED <<hosts, secrets>> \/ Puts(d)
  BY <1>3 DEF Put, PutAgain, Stored, Refused, At
<1>4. ASSUME NEW d \in Devices, PutCreds(d) \/ PutCredsAgain(d)
      PROVE  UNCHANGED <<hosts, secrets>> \/ PutsCreds(d)
  BY <1>4 DEF PutCreds, PutCredsAgain, StoredCreds, RefusedCreds, At
<1>5. ASSUME NEW d \in Devices, PutAnything(d) \/ LoseAnswer(d)
      PROVE  Puts(d) \/ Forces(d) \/ PutsCreds(d)
  <2>1. DOMAIN job = Devices /\ JobFields(job[d])
    BY DEF SyncInv, Scalars, SoundDevice, SoundJob
  <2>2. CASE PutAnything(d)
    <3>1. job'[d] = HostsDone(job[d], job[d].doc) /\ job[d].stage = "force"
      BY <2>1, <2>2 DEF PutAnything, Goes, At
    <3>2. HostsDone(job[d], job[d].doc).stage \in {"cget", "done"}
      BY <2>1 DEF HostsDone, AfterHostsStage, JobFields
    <3> QED
      BY <2>2, <3>1, <3>2 DEF PutAnything, At
  <2>3. CASE LoseAnswer(d)
    <3>1. job'[d] = Gone(job[d])
      BY <2>1, <2>3 DEF LoseAnswer, Goes
    <3>2. Gone(job[d]).stage \in {"cget", "done"}
      BY <2>1, GoneEnds
    <3> QED
      BY <2>3, <3>1, <3>2 DEF LoseAnswer, At
  <2> QED
    BY <1>5, <2>2, <2>3
<1> HIDE DEF Puts, Forces, PutsCreds
<1>6. \/ UNCHANGED <<hosts, secrets>>
      \/ \E d \in Devices : Puts(d) \/ Forces(d) \/ PutsCreds(d)
  BY <1>1, <1>2, <1>3, <1>4, <1>5 DEF Next, Sync
<1> QED
  BY <1>6 DEF Puts, Forces, PutsCreds

(* The document of the server never loses a host, and never falls back to  *)
(* an older state of one, except where a device stores with If-Match: *.   *)
ServerKeepsNewest ==
  [][\A id \in DOMAIN hosts :
       \/ \E d \in Devices : At(d, "force") /\ job'[d] # job[d]
       \/ id \in DOMAIN hosts' /\ Entry(hosts', id).at >= Entry(hosts, id).at]_vars

THEOREM IfMatchProtects == Spec => ServerKeepsNewest
<1> DEFINE Kept == \A id \in DOMAIN hosts :
       \/ \E d \in Devices : At(d, "force") /\ job'[d] # job[d]
       \/ id \in DOMAIN hosts' /\ Entry(hosts', id).at >= Entry(hosts, id).at
<1>1. ASSUME SyncInv, MergedInv, [Next]_vars PROVE Kept
  <2>1. CASE UNCHANGED hosts
    <3>1. \A id \in DOMAIN hosts : Entry(hosts, id).at \in Nat
      BY <1>1, EntryIsSound DEF SyncInv
    <3>2. \A id \in DOMAIN hosts : Entry(hosts', id).at >= Entry(hosts, id).at
      BY <2>1, <3>1
    <3> QED
      BY <2>1, <3>2
  <2>2. ASSUME NEW d \in Devices, job[d].stage \in {"put", "put2"},
               hosts = job[d].base, hosts' = job[d].doc
        PROVE  Kept
    BY <1>1, <2>2 DEF MergedInv, JobMerged, Newer
  <2>3. ASSUME NEW d \in Devices, At(d, "force"), job'[d] # job[d]
        PROVE  Kept
    BY <2>3
  <2> HIDE DEF Kept
  <2> QED
    BY <1>1, <2>1, <2>2, <2>3, ServerWrites
<1> QED
  BY MergedInvariant, <1>1, PTL DEF Spec, ServerKeepsNewest

(* The envelope never loses a password, a removed one included, and never  *)
(* falls back to an older one: it is not written with If-Match: *.         *)
EnvelopeKeepsNewest ==
  [][\A id \in DOMAIN secrets :
       id \in DOMAIN secrets' /\ secrets'[id].at >= secrets[id].at]_vars

THEOREM EnvelopeIsSafe == Spec => EnvelopeKeepsNewest
<1> DEFINE Kept == \A id \in DOMAIN secrets :
       id \in DOMAIN secrets' /\ secrets'[id].at >= secrets[id].at
<1>1. ASSUME SyncInv, MergedInv, [Next]_vars PROVE Kept
  <2>1. CASE UNCHANGED secrets
    <3>1. \A id \in DOMAIN secrets : secrets[id].at \in Nat
      BY <1>1 DEF SyncInv, SoundMap, IsMap, Secrets
    <3> QED
      BY <2>1, <3>1
  <2>2. ASSUME NEW d \in Devices, job[d].stage \in {"cput", "cput2"},
               secrets = job[d].cbase, secrets' = job[d].upload
        PROVE  Kept
    BY <1>1, <2>2 DEF MergedInv, JobMerged, NewerSecrets
  <2> HIDE DEF Kept
  <2> QED
    BY <1>1, <2>1, <2>2, ServerWrites
<1> QED
  BY MergedInvariant, <1>1, PTL DEF Spec, EnvelopeKeepsNewest
=============================================================================
