----------------------- MODULE TransactionalBackupProofs -----------------------
(***************************************************************************)
(* Proofs about TransactionalBackup, for every set of servers, number of   *)
(* backups, transactions, snapshots and faults, and whichever transactions *)
(* are of unknown types: types; which directories are left behind; that    *)
(* every server recovers the files of the backup; and which transactions a *)
(* successful backup stands for.                                           *)
(***************************************************************************)
EXTENDS TransactionalBackup, TLAPS

(* The inductive invariant.                                                *)

UniqueNames(fs) == \A f, g \in fs : Name(f) = Name(g) => f = g

\* z is the last snapshot; the transactions after its first are in one log, or there are none.
Newest(z) ==
    /\ \A y \in Snapshot(files) : y = z \/ (y.first < z.first /\ y.time < z.time)
    /\ IF rolled THEN z.first = txns
       ELSE \E g \in Log(files) : g.first = z.first + 1 /\ g.last = txns

\* A log ends before a snapshot begins, or it is the later one exactly if it has
\* transactions that the snapshot cannot have.
Ordered(g, z) == /\ g.first <= z.first => g.last <= z.first
                 /\ g.time > z.time <=> g.last > z.last

\* What ZooKeeper writes: a log begins where a snapshot does, and ends, at the latest, where
\* the next one begins.
FilesInv ==
    /\ txns <= MaxTxns
    /\ \A f, g \in Snapshot(files) : f.first = g.first => f = g
    /\ \A f, g \in Log(files) : f.first = g.first => f = g
    /\ \A z \in Snapshot(files) : /\ z.first <= z.last /\ z.last <= txns /\ z.time < clock
                                  /\ ~rolled => z.first < txns
    /\ \A g \in Log(files) : /\ g.first <= g.last /\ g.last <= txns /\ g.time < clock
                             /\ \E z \in Snapshot(files) : g.first = z.first + 1
    /\ \A g \in Log(files), z \in Snapshot(files) : Ordered(g, z)
    /\ \E z \in Snapshot(files) : Newest(z)

\* The daemon works on one backup; a request is at work while it waits, or unheard; a
\* directory that is not in use was left behind.
DaemonInv ==
    /\ IF pc = "idle" THEN current = {} ELSE \E b \in Backups : current = {b}
    /\ \A b \in Backups : backups[b].state = "running" <=> pc \in BackupPhase /\ current = {b}
    /\ \A b \in Backups : pc \in RecoveryPhase /\ current = {b} => backups[b].state = "done"
    /\ \A b \in Backups : /\ Active(b) => /\ pod[Leader] = "up"
                                          /\ store[b].lost \/ (pc = "wait" /\ current = {b})
                          /\ store[b].phase \in {"remove", "mkdir"} => store[b].done = {}
    /\ tmp.exists => pc \in BackupPhase \/ "tmp" \in dirty
    /\ recover # {} => pc \in RecoveryPhase \/ "recover" \in dirty

-----------------------------------------------------------------------------
(* Facts about the operators and the records.                              *)

LEMMA ConstantFacts ==
    /\ NoStore \in StoreRequest
    /\ NoStore.phase = "none" /\ NoStore.due = {} /\ NoStore.done = {}
    /\ NoBackup \in Backup
    /\ NoBackup.state = "none" /\ NoBackup.files = {} /\ NoBackup.to = 0
    /\ Backups \subseteq Nat
BY BoundsAssumption DEF NoStore, StoreRequest, NoBackup, Backup, Backups

\* The records of a backup that has failed, and of one whose copy is disturbed.
LEMMA FailedFacts ==
    /\ Failed \in Backup /\ Failed.state = "failed" /\ Failed.files = {} /\ Failed.to = 0
    /\ Disturbed \in Backup /\ Disturbed.state = "running" /\ Disturbed.files = {}
    /\ Disturbed.to = 0 /\ ~Disturbed.instant
BY Zenon DEF Failed, Disturbed, NoBackup, Backup

LEMMA NameFacts ==
    ASSUME NEW f \in File
    PROVE  /\ Name(f) \in FileName
           /\ \A g \in File : Name(f) = Name(g) <=> f.kind = g.kind /\ f.first = g.first
           /\ f.kind \in {"snapshot", "log"}
           /\ f.first \in Nat /\ f.last \in Nat /\ f.time \in Nat
BY DEF Name, FileName, File

LEMMA NamesFacts ==
    ASSUME NEW fs \in SUBSET File
    PROVE  Names(fs) \subseteq FileName
BY NameFacts DEF Names

LEMMA PutFacts ==
    ASSUME NEW f \in File, NEW fs \in SUBSET File
    PROVE  /\ Put(f, fs) \subseteq File /\ f \in Put(f, fs)
           /\ \A g \in Put(f, fs) : g = f \/ (g \in fs /\ Name(g) # Name(f))
           /\ \A g \in fs : Name(g) # Name(f) => g \in Put(f, fs)
           /\ Names(fs) \cup {Name(f)} \subseteq Names(Put(f, fs))
           /\ UniqueNames(fs) => UniqueNames(Put(f, fs))
           /\ \A gs : UniqueNames(gs) /\ f \in gs /\ fs \subseteq gs =>
                 Put(f, fs) = fs \cup {f}
BY DEF Put, Names, UniqueNames

\* A request whose answer nobody hears, and the end of one.
LEMMA RequestFacts ==
    ASSUME store \in [Backups -> StoreRequest], NEW r \in Backups, NEW p \in {"ok", "error"}
    PROVE  /\ LET q == Answer(r, p)
              IN q \in StoreRequest /\ q.phase \in {p, "none"} /\ q.done = {}
           /\ LET q == Unheard(r)
              IN /\ q \in StoreRequest
                 /\ Active(r) => /\ q.phase = store[r].phase /\ q.due = store[r].due
                                 /\ q.done = store[r].done /\ q.lost
                 /\ ~Active(r) => q = NoStore
<1>1. store[r] \in StoreRequest
  OBVIOUS
<1>2. LET q == [NoStore EXCEPT !.phase = p]
      IN q \in StoreRequest /\ q.phase = p /\ q.done = {}
  BY Zenon DEF NoStore, StoreRequest
<1>3. LET q == [store[r] EXCEPT !.lost = TRUE]
      IN /\ q \in StoreRequest /\ q.phase = store[r].phase /\ q.due = store[r].due
         /\ q.done = store[r].done /\ q.lost
  BY <1>1, Zenon DEF StoreRequest
<1> QED
  BY <1>2, <1>3, ConstantFacts, Zenon DEF Answer, Unheard

\* One request changes.
LEMMA OneRequest ==
    ASSUME store \in [Backups -> StoreRequest], NEW r \in Backups, NEW q \in StoreRequest,
           store' = [store EXCEPT ![r] = q]
    PROVE  /\ store' \in [Backups -> StoreRequest] /\ store'[r] = q
           /\ \A a \in Backups \ {r} : store'[a] = store[a]
BY Zenon

\* What a request does when it has removed the directory, when it has created it, and when
\* it copies a file.
LEMMA RemoveFacts ==
    ASSUME store \in [Backups -> StoreRequest], NEW r \in Backups,
           store' = [store EXCEPT ![r].phase = "mkdir"]
    PROVE  /\ store' \in [Backups -> StoreRequest]
           /\ store'[r].phase = "mkdir" /\ store'[r].lost = store[r].lost
           /\ store'[r].done = store[r].done
           /\ \A q \in Backups \ {r} : store'[q] = store[q]
BY Zenon DEF StoreRequest

LEMMA MkdirFacts ==
    ASSUME store \in [Backups -> StoreRequest], NEW r \in Backups, NEW ns \in SUBSET FileName,
           store' = [store EXCEPT ![r].phase = "copy", ![r].due = ns]
    PROVE  /\ store' \in [Backups -> StoreRequest]
           /\ store'[r].phase = "copy" /\ store'[r].due = ns
           /\ store'[r].done = store[r].done /\ store'[r].lost = store[r].lost
           /\ \A q \in Backups \ {r} : store'[q] = store[q]
BY Zenon DEF StoreRequest

LEMMA CopyFacts ==
    ASSUME store \in [Backups -> StoreRequest], NEW r \in Backups, NEW n \in FileName,
           store' = [store EXCEPT ![r].done = @ \cup {n}]
    PROVE  /\ store' \in [Backups -> StoreRequest]
           /\ store'[r].phase = store[r].phase /\ store'[r].due = store[r].due
           /\ store'[r].done = store[r].done \cup {n} /\ store'[r].lost = store[r].lost
           /\ \A q \in Backups \ {r} : store'[q] = store[q]
BY DEF StoreRequest

LEMMA DirectoryFacts ==
    ASSUME tmp \in Directory, NEW fs \in SUBSET File
    PROVE  /\ [exists |-> FALSE, files |-> {}] \in Directory
           /\ [exists |-> TRUE, files |-> {}] \in Directory
           /\ [tmp EXCEPT !.files = fs] \in Directory
           /\ [tmp EXCEPT !.files = fs].files = fs
           /\ [tmp EXCEPT !.files = fs].exists = tmp.exists
           /\ [tmp EXCEPT !.exists = TRUE] \in Directory
           /\ [tmp EXCEPT !.exists = TRUE].files = tmp.files
           /\ [tmp EXCEPT !.exists = TRUE].exists = TRUE
BY Zenon DEF Directory

\* A file to which transactions are appended, or of which some are read.
Grown(f, n, t) == [f EXCEPT !.last = n, !.time = t]

LEMMA GrownFacts ==
    \A f \in File : \A n, t :
       /\ n \in Nat /\ t \in Nat => Grown(f, n, t) \in File
       /\ Grown(f, n, t).kind = f.kind
       /\ Grown(f, n, t).first = f.first
       /\ Grown(f, n, t).last = n
       /\ Grown(f, n, t).time = t
       /\ Name(Grown(f, n, t)) = Name(f)
BY Zenon DEF File, Grown, Name

\* A snapshot as it is stored.
Undated(f) == [f EXCEPT !.time = 0]

LEMMA UndatedFacts ==
    \A f \in File : /\ Undated(f) \in File /\ Undated(f).kind = f.kind
                    /\ Undated(f).first = f.first /\ Undated(f).last = f.last
                    /\ Name(Undated(f)) = Name(f)
<1>1. \A f \in File : /\ Undated(f).kind = f.kind
                      /\ Undated(f).first = f.first /\ Undated(f).last = f.last
  BY Zenon DEF File, Undated
<1>2. \A f \in File : Undated(f) \in File
  BY DEF File, Undated
<1> QED
  BY <1>1, <1>2, Zenon DEF Name

\* What StartBackup creates.
Begun(n) == IF saving \/ \E a \in Backups : Active(a) THEN Disturbed
            ELSE [NoBackup EXCEPT !.state = "running", !.from = n]

LEMMA StartFacts ==
    ASSUME NEW n \in Nat
    PROVE  /\ LET q == [NoStore EXCEPT !.phase = "remove"]
              IN q \in StoreRequest /\ q.phase = "remove" /\ q.done = {}
           /\ LET k == Begun(n)
              IN /\ k \in Backup /\ k.state = "running" /\ k.files = {} /\ k.to = 0
                 /\ k.instant => /\ k.from = n /\ ~saving
                                 /\ \A a \in Backups : ~Active(a)
<1>1. LET q == [NoStore EXCEPT !.phase = "remove"]
      IN q \in StoreRequest /\ q.phase = "remove" /\ q.done = {}
  BY Zenon DEF NoStore, StoreRequest
<1>2. LET k == [NoBackup EXCEPT !.state = "running", !.from = n]
      IN /\ k \in Backup /\ k.state = "running" /\ k.files = {} /\ k.to = 0
         /\ k.from = n
  BY Zenon DEF NoBackup, Backup
<1> QED
  BY <1>1, <1>2, FailedFacts, Zenon DEF Begun

\* A step of a backup changes one part of its record.
LEMMA MomentFacts ==
    ASSUME backups \in [Backups -> Backup], NEW b \in Backups, NEW n,
           backups' = [backups EXCEPT ![b].to = n]
    PROVE  /\ \A a \in Backups \ {b} : backups'[a] = backups[a]
           /\ backups'[b].state = backups[b].state /\ backups'[b].files = backups[b].files
           /\ backups'[b].from = backups[b].from /\ backups'[b].to = n
           /\ backups'[b].instant = backups[b].instant
BY DEF Backup

LEMMA ContentFacts ==
    ASSUME backups \in [Backups -> Backup], NEW b \in Backups, NEW fs,
           backups' = [backups EXCEPT ![b].files = fs]
    PROVE  /\ \A a \in Backups \ {b} : backups'[a] = backups[a]
           /\ backups'[b].state = backups[b].state /\ backups'[b].files = fs
           /\ backups'[b].from = backups[b].from /\ backups'[b].to = backups[b].to
           /\ backups'[b].instant = backups[b].instant
BY DEF Backup

LEMMA KillFacts ==
    ASSUME backups \in [Backups -> Backup], store \in [Backups -> StoreRequest], Kill
    PROVE  /\ backups' \in [Backups -> Backup]
           /\ \A b \in Backups :
                 backups'[b] = IF backups[b].state = "running" THEN Failed ELSE backups[b]
           /\ store' \in [Backups -> StoreRequest]
           /\ \A b \in Backups : store'[b] = IF b \in current THEN Unheard(b) ELSE store[b]
<1>1. \A b \in Backups : Unheard(b) \in StoreRequest
  BY RequestFacts, Zenon
<1>2. store' = [b \in Backups |-> IF b \in current THEN Unheard(b) ELSE store[b]]
  BY Zenon DEF Kill
<1>3. backups' = [b \in Backups |-> IF backups[b].state = "running" THEN Failed ELSE backups[b]]
  BY Zenon DEF Kill
<1> QED
  BY <1>1, <1>2, <1>3, FailedFacts, Zenon

\* The requests that end with their pod.
LEMMA AbortedFacts ==
    ASSUME store \in [Backups -> StoreRequest]
    PROVE  /\ Aborted \in [Backups -> StoreRequest]
           /\ \A b \in Backups : /\ Aborted[b].phase \notin {"remove", "mkdir", "copy"}
                                 /\ Aborted[b] = store[b] \/ Aborted[b].phase # "ok"
<1>1. \A b \in Backups : LET q == Answer(b, "error")
                         IN q \in StoreRequest /\ q.phase \in {"error", "none"}
  BY RequestFacts, Zenon
<1>2. \A b \in Backups : Aborted[b] = IF Active(b) THEN Answer(b, "error") ELSE store[b]
  BY Zenon DEF Aborted
<1>3. Aborted \in [Backups -> StoreRequest]
  BY <1>1, Zenon DEF Aborted
<1>4. ASSUME NEW b \in Backups
      PROVE  /\ Aborted[b].phase \notin {"remove", "mkdir", "copy"}
             /\ Aborted[b] = store[b] \/ Aborted[b].phase # "ok"
  BY <1>1, <1>2 DEF Active
<1> QED
  BY <1>3, <1>4, Zenon

-----------------------------------------------------------------------------
(* Types.                                                                  *)

\* Steps leave parts of the state alone.
LEMMA FrameTypes ==
    /\ ZooKeeperType /\ UNCHANGED <<zkVars, podVars>> => ZooKeeperType'
    /\ StorageType /\ UNCHANGED <<recover, tmp, backups, store>> => StorageType'
    /\ DaemonType /\ UNCHANGED <<daemonVars, recovered, leftover, dirty, faults>> => DaemonType'
<1>1. ZooKeeperType /\ UNCHANGED <<zkVars, podVars>> => ZooKeeperType'
  BY Zenon DEF ZooKeeperType, zkVars, podVars
<1>2. StorageType /\ UNCHANGED <<recover, tmp, backups, store>> => StorageType'
  BY Zenon DEF StorageType
<1>3. DaemonType /\ UNCHANGED <<daemonVars, recovered, leftover, dirty, faults>> => DaemonType'
  BY Zenon DEF DaemonType, daemonVars
<1> QED
  BY <1>1, <1>2, <1>3

LEMMA AppendType ==
    ASSUME TypeOK, Append
    PROVE  TypeOK'
<1>1. /\ txns' = txns + 1 /\ clock' = clock + 1 /\ rolled' = FALSE
      /\ UNCHANGED <<saving, snapshots, podVars, tmp, recover, backups, store, daemonVars,
                     recovered, leftover, dirty, faults>>
  BY Zenon DEF Append
<1>2. files' \subseteq File
  <2>1. txns + 1 \in Nat /\ clock \in Nat /\ files \subseteq File
    BY DEF TypeOK, ZooKeeperType
  <2>2. CASE rolled
    <3>1. files' = files \cup {[kind |-> "log", first |-> txns + 1, last |-> txns + 1,
                                time |-> clock]}
      BY <2>2, Zenon DEF Append
    <3> QED
      BY <2>1, <3>1 DEF File
  <2>3. CASE ~rolled
    <3> SUFFICES ASSUME NEW f \in files' PROVE f \in File
      OBVIOUS
    <3>1. PICK g \in files : f = IF g.kind = "log" /\ g.last = txns
                                 THEN Grown(g, txns + 1, clock) ELSE g
      BY <2>3, Zenon DEF Append, Grown
    <3>2. Grown(g, txns + 1, clock) \in File
      BY <2>1, GrownFacts
    <3> QED
      BY <2>1, <3>1, <3>2, Zenon
  <2> QED
    BY <2>2, <2>3
<1>3. txns' \in Nat /\ clock' \in Nat
  BY <1>1 DEF TypeOK, ZooKeeperType
<1>4. ZooKeeperType'
  BY <1>1, <1>2, <1>3, Zenon DEF TypeOK, ZooKeeperType, podVars
<1> QED
  BY <1>1, <1>4, FrameTypes, Zenon DEF TypeOK

\* A snapshot is put into the leader's directory, when it begins and when it is finished.
LEMMA SnapshotType ==
    ASSUME TypeOK, NEW n \in Nat, NEW z \in File, files' = Put(Grown(z, n, clock), files),
           clock' = clock + 1
    PROVE  files' \subseteq File /\ clock' \in Nat
<1>1. clock \in Nat /\ files \in SUBSET File
  BY DEF TypeOK, ZooKeeperType
<1>2. Grown(z, n, clock) \in File
  BY <1>1, GrownFacts, Zenon
<1> QED
  BY <1>1, <1>2, PutFacts

\* The snapshot of what there is now.
LEMMA NewSnapshotFacts ==
    ASSUME TypeOK, NewSnapshot
    PROVE  \E n \in File :
              /\ n.kind = "snapshot" /\ n.first = txns /\ n.last = txns /\ n.time = clock
              /\ files' = Put(n, files) /\ files' \subseteq File
              /\ rolled' = TRUE /\ clock' = clock + 1 /\ clock' \in Nat
<1> DEFINE n == [kind |-> "snapshot", first |-> txns, last |-> txns, time |-> clock]
<1>1. clock \in Nat /\ txns \in Nat /\ files \in SUBSET File
  BY DEF TypeOK, ZooKeeperType
<1>2. /\ n \in File /\ n.kind = "snapshot" /\ n.first = txns /\ n.last = txns
      /\ n.time = clock
  BY <1>1, Zenon DEF File
<1>3. files' = Put(n, files) /\ rolled' = TRUE /\ clock' = clock + 1
  BY Zenon DEF NewSnapshot
<1> HIDE DEF n
<1>4. files' \subseteq File /\ clock' \in Nat
  BY <1>1, <1>2, <1>3, PutFacts
<1> QED
  BY <1>2, <1>3, <1>4, Zenon

LEMMA BeginSnapshotFacts ==
    ASSUME backups \in [Backups -> Backup], BeginSnapshot
    PROVE  /\ backups' \in [Backups -> Backup]
           /\ \A b \in Backups :
                 backups'[b] = IF pc = "wait" /\ current = {b} THEN Disturbed ELSE backups[b]
<1>1. backups' = [b \in Backups |->
                    IF pc = "wait" /\ current = {b} THEN Disturbed ELSE backups[b]]
  BY Zenon DEF BeginSnapshot
<1> QED
  BY <1>1, FailedFacts, Zenon

LEMMA BeginSnapshotType ==
    ASSUME TypeOK, BeginSnapshot
    PROVE  TypeOK'
<1>1. /\ NewSnapshot /\ snapshots' = snapshots + 1 /\ saving' = TRUE
      /\ UNCHANGED <<txns, podVars, tmp, recover, store, daemonVars, recovered, leftover,
                     dirty, faults>>
  BY Zenon DEF BeginSnapshot
<1>2. files' \subseteq File /\ clock' \in Nat /\ rolled' = TRUE
  BY <1>1, NewSnapshotFacts, Zenon
<1>3. snapshots' \in Nat
  BY <1>1 DEF TypeOK, ZooKeeperType
<1>4. ZooKeeperType'
  BY <1>1, <1>2, <1>3, Zenon DEF TypeOK, ZooKeeperType, podVars
<1>5. StorageType'
  BY <1>1, BeginSnapshotFacts, Zenon DEF TypeOK, StorageType
<1> QED
  BY <1>1, <1>4, <1>5, FrameTypes, Zenon DEF TypeOK

\* The last snapshot is finished.
LEMMA FinishSnapshotFacts ==
    ASSUME TypeOK, FinishSnapshot
    PROVE  \E z \in Snapshot(files) :
              /\ z \in File
              /\ \A y \in Snapshot(files) : y.first <= z.first
              /\ files' = Put(Grown(z, txns, clock), files)
              /\ files' \subseteq File /\ clock' \in Nat /\ clock' = clock + 1
<1>1. clock' = clock + 1 /\ files \in SUBSET File /\ txns \in Nat
  BY DEF TypeOK, ZooKeeperType, FinishSnapshot
<1>2. PICK z \in Snapshot(files) :
         /\ \A y \in Snapshot(files) : y.first <= z.first
         /\ files' = Put(Grown(z, txns, clock), files)
  BY Zenon DEF FinishSnapshot, Grown
<1>3. z \in File
  BY <1>1, Zenon DEF Snapshot
<1>4. files' \subseteq File /\ clock' \in Nat
  BY <1>1, <1>2, <1>3, SnapshotType, Zenon
<1> QED
  BY <1>1, <1>2, <1>3, <1>4, Zenon

LEMMA FinishSnapshotType ==
    ASSUME TypeOK, FinishSnapshot
    PROVE  TypeOK'
<1>1. /\ saving' = FALSE
      /\ UNCHANGED <<txns, rolled, snapshots, podVars, tmp, recover, backups, store,
                     daemonVars, recovered, leftover, dirty, faults>>
  BY Zenon DEF FinishSnapshot
<1>2. files' \subseteq File /\ clock' \in Nat
  BY FinishSnapshotFacts, Zenon
<1>3. ZooKeeperType'
  BY <1>1, <1>2, Zenon DEF TypeOK, ZooKeeperType, podVars
<1> QED
  BY <1>1, <1>3, FrameTypes, Zenon DEF TypeOK

\* A step of a request to /store.
LEMMA StoreFacts ==
    ASSUME TypeOK, NEW r \in Backups, StoreStep(r) \/ StoreFails(r)
    PROVE  /\ UNCHANGED storeVars /\ Active(r)
           /\ store' \in [Backups -> StoreRequest]
           /\ \A q \in Backups \ {r} : store'[q] = store[q]
           /\ store'[r].phase # "remove"
           /\ store'[r].phase = "mkdir" =>
                 /\ store[r].phase = "remove" /\ store'[r].done = store[r].done
                 /\ ~tmp'.exists
           /\ store'[r].phase \in {"mkdir", "copy"} => store'[r].lost = store[r].lost
           /\ tmp' \in Directory /\ (tmp'.files # {} => tmp'.exists)
           /\ dirty' \in {dirty, dirty \cup {"tmp"}}
           /\ tmp'.exists => \/ tmp.exists \/ ~store[r].lost \/ "tmp" \in dirty'
<1>1. /\ store \in [Backups -> StoreRequest] /\ files \in SUBSET File /\ tmp \in Directory
      /\ tmp.files \in SUBSET File /\ (tmp.files # {} => tmp.exists)
  BY Zenon DEF TypeOK, StorageType, ZooKeeperType, Directory
<1>2. CASE RemoveAll(r)
  <2>1. /\ store' = [store EXCEPT ![r].phase = "mkdir"]
        /\ tmp' = [exists |-> FALSE, files |-> {}]
        /\ store[r].phase = "remove" /\ UNCHANGED <<storeVars, dirty>>
    BY <1>2, Zenon DEF RemoveAll
  <2>2. tmp' \in Directory /\ tmp'.files = {} /\ ~tmp'.exists
    BY <1>1, <2>1, DirectoryFacts, Zenon
  <2>3. Active(r)
    BY <2>1, Zenon DEF Active
  <2> QED
    BY <1>1, <2>1, <2>2, <2>3, RemoveFacts, Zenon
<1>3. CASE /\ \E p \in {"ok", "error"} : End(r, p)
           /\ Active(r) /\ UNCHANGED <<storeVars, dirty, tmp>>
  <2>1. PICK p \in {"ok", "error"} : store' = [store EXCEPT ![r] = Answer(r, p)]
    BY <1>3, Zenon DEF End
  <2>2. Answer(r, p) \in StoreRequest /\ Answer(r, p).phase \in {p, "none"}
    BY <1>1, RequestFacts, Zenon
  <2>3. /\ store' \in [Backups -> StoreRequest] /\ store'[r] = Answer(r, p)
        /\ \A q \in Backups \ {r} : store'[q] = store[q]
    BY <1>1, <2>1, <2>2, OneRequest, Zenon
  <2>4. store'[r].phase \notin {"remove", "mkdir", "copy"}
    BY <2>2, <2>3
  <2> QED
    BY <1>1, <1>3, <2>3, <2>4, Zenon
<1>4. CASE Mkdir(r) /\ ~tmp.exists
  <2>1. /\ store' = [store EXCEPT ![r].phase = "copy", ![r].due = Names(files)]
        /\ tmp' = [exists |-> TRUE, files |-> {}]
        /\ store[r].phase = "mkdir" /\ UNCHANGED storeVars
        /\ dirty' = IF store[r].lost THEN dirty \cup {"tmp"} ELSE dirty
    BY <1>4, Zenon DEF Mkdir
  <2>2. Names(files) \in SUBSET FileName
    BY <1>1, NamesFacts
  <2>3. /\ store' \in [Backups -> StoreRequest] /\ store'[r].phase = "copy"
        /\ store'[r].lost = store[r].lost
        /\ \A q \in Backups \ {r} : store'[q] = store[q]
    BY <1>1, <2>1, <2>2, MkdirFacts, Zenon
  <2>4. tmp' \in Directory /\ tmp'.exists
    BY <1>1, <2>1, DirectoryFacts, Zenon
  <2>5. Active(r) /\ (store[r].lost => "tmp" \in dirty')
    BY <2>1, Zenon DEF Active
  <2>6. "copy" # "mkdir" /\ "copy" # "remove"
    OBVIOUS
  <2> QED
    BY <2>1, <2>3, <2>4, <2>5, <2>6, Zenon
<1>5. CASE Copy(r) /\ tmp.exists
  <2>1. PICK f \in files : /\ tmp' = [tmp EXCEPT !.files = Put(f, @)]
                           /\ store' = [store EXCEPT ![r].done = @ \cup {Name(f)}]
    BY <1>5, Zenon DEF Copy
  <2>2. f \in File /\ Name(f) \in FileName /\ Put(f, tmp.files) \in SUBSET File
    BY <1>1, NameFacts, PutFacts
  <2>3. /\ store' \in [Backups -> StoreRequest] /\ store'[r].phase = store[r].phase
        /\ store'[r].lost = store[r].lost
        /\ \A q \in Backups \ {r} : store'[q] = store[q]
    BY <1>1, <2>1, <2>2, CopyFacts, Zenon
  <2>4. tmp' \in Directory /\ tmp'.exists = tmp.exists
    BY <1>1, <2>1, <2>2, DirectoryFacts, Zenon
  <2>5. store[r].phase = "copy" /\ UNCHANGED <<storeVars, dirty>>
    BY <1>5, Zenon DEF Copy
  <2>6. Active(r)
    BY <2>5, Zenon DEF Active
  <2>7. "copy" # "mkdir" /\ "copy" # "remove"
    OBVIOUS
  <2> QED
    BY <1>5, <2>3, <2>4, <2>5, <2>6, <2>7, Zenon
<1>6. \/ RemoveAll(r)
      \/ /\ \E p \in {"ok", "error"} : End(r, p)
         /\ Active(r) /\ UNCHANGED <<storeVars, dirty, tmp>>
      \/ Mkdir(r) /\ ~tmp.exists
      \/ Copy(r) /\ tmp.exists
  BY Zenon DEF StoreStep, Mkdir, Copy, Copied, StoreFails, Active
<1> QED
  BY <1>2, <1>3, <1>4, <1>5, <1>6, Zenon

LEMMA StoreType ==
    ASSUME TypeOK, NEW r \in Backups, StoreStep(r) \/ StoreFails(r)
    PROVE  TypeOK'
<1>1. UNCHANGED storeVars /\ faults' \in Nat /\ dirty' \subseteq {"tmp", "recover"}
  <2>1. faults' \in Nat
    BY DEF StoreStep, StoreFails, RemoveAll, Mkdir, Copy, Copied, TypeOK, DaemonType
  <2>2. dirty \subseteq {"tmp", "recover"}
    BY Zenon DEF TypeOK, DaemonType
  <2> QED
    BY <2>1, <2>2, StoreFacts, Zenon
<1>2. StorageType'
  BY <1>1, StoreFacts, Zenon DEF TypeOK, StorageType, storeVars
<1>3. DaemonType'
  BY <1>1, Zenon DEF TypeOK, DaemonType, storeVars, daemonVars
<1> QED
  BY <1>1, <1>2, <1>3, FrameTypes, Zenon DEF TypeOK, storeVars

LEMMA StartBackupFacts ==
    ASSUME TypeOK, NEW b \in Backups, StartBackup(b)
    PROVE  /\ store' \in [Backups -> StoreRequest]
           /\ \A a \in Backups \ {b} : store'[a] = store[a]
           /\ store'[b].phase = "remove" /\ store'[b].done = {}
           /\ backups' \in [Backups -> Backup]
           /\ \A a \in Backups \ {b} : backups'[a] = backups[a]
           /\ backups'[b].state = "running" /\ backups'[b].files = {} /\ backups'[b].to = 0
           /\ backups'[b].instant => /\ backups'[b].from = txns /\ ~saving
                                     /\ \A a \in Backups : ~Active(a)
           /\ tmp' \in Directory /\ tmp'.files = tmp.files /\ tmp'.exists
<1>1. /\ tmp' = [tmp EXCEPT !.exists = TRUE]
      /\ store' = [store EXCEPT ![b] = [NoStore EXCEPT !.phase = "remove"]]
      /\ backups' = [backups EXCEPT ![b] = Begun(txns)]
  BY Zenon DEF StartBackup, SetBackup, Begun
<1>2. /\ txns \in Nat
      /\ store \in [Backups -> StoreRequest] /\ backups \in [Backups -> Backup]
      /\ tmp \in Directory
  BY DEF TypeOK, ZooKeeperType, StorageType
<1>3. tmp' \in Directory /\ tmp'.files = tmp.files /\ tmp'.exists
  BY <1>1, <1>2, DirectoryFacts, Zenon
<1> DEFINE q == [NoStore EXCEPT !.phase = "remove"]
           k == Begun(txns)
<1>4. /\ q \in StoreRequest /\ q.phase = "remove" /\ q.done = {}
      /\ k \in Backup /\ k.state = "running" /\ k.files = {} /\ k.to = 0
      /\ k.instant => k.from = txns /\ ~saving /\ \A a \in Backups : ~Active(a)
  BY <1>2, StartFacts, Zenon
<1>5. store' = [store EXCEPT ![b] = q] /\ backups' = [backups EXCEPT ![b] = k]
  BY <1>1, Zenon
<1> HIDE DEF q, k
<1>6. /\ store' \in [Backups -> StoreRequest] /\ store'[b] = q
      /\ \A a \in Backups \ {b} : store'[a] = store[a]
  BY <1>2, <1>4, <1>5, Zenon
<1>7. /\ backups' \in [Backups -> Backup] /\ backups'[b] = k
      /\ \A a \in Backups \ {b} : backups'[a] = backups[a]
  BY <1>2, <1>4, <1>5, Zenon
<1> QED
  BY <1>3, <1>4, <1>6, <1>7, Zenon

LEMMA StartBackupType ==
    ASSUME TypeOK, NEW b \in Backups, StartBackup(b)
    PROVE  TypeOK'
<1>1. /\ pc' = "wait" /\ current' = {b} /\ todo' = {}
      /\ UNCHANGED <<zkVars, podVars, recover, recovered, leftover, dirty, faults>>
  BY Zenon DEF StartBackup
<1>2. StorageType'
  BY <1>1, StartBackupFacts, Zenon DEF TypeOK, StorageType
<1>3. DaemonType'
  BY <1>1 DEF TypeOK, DaemonType, BackupPhase
<1> QED
  BY <1>1, <1>2, <1>3, FrameTypes, Zenon DEF TypeOK

\* A backup that ends: its directory is gone, or left behind.
LEMMA LeaveFacts ==
    ASSUME TypeOK, NEW b \in Backups, NEW new \in Backup, Leave(b, new)
    PROVE  /\ backups' \in [Backups -> Backup]
           /\ \A a \in Backups \ {b} : backups'[a] = backups[a]
           /\ backups'[b] \in {new, Failed}
           /\ tmp' \in Directory /\ tmp'.files \subseteq tmp.files
           /\ tmp'.files # {} => tmp'.exists
           /\ tmp'.exists => "tmp" \in dirty'
           /\ dirty' \subseteq {"tmp", "recover"}
           /\ "recover" \in dirty => "recover" \in dirty'
           /\ pc' = "idle" /\ current' = {} /\ todo' = {}
<1>1. /\ backups \in [Backups -> Backup] /\ tmp \in Directory /\ Failed \in Backup
      /\ tmp.files \in SUBSET File /\ dirty \subseteq {"tmp", "recover"}
  BY FailedFacts, Zenon DEF TypeOK, StorageType, DaemonType, Directory
<1>2. pc' = "idle" /\ current' = {} /\ todo' = {}
  BY Zenon DEF Leave
<1>3. CASE /\ tmp' = [exists |-> FALSE, files |-> {}]
           /\ backups' = [backups EXCEPT ![b] = new]
           /\ dirty' = dirty \ {"tmp"}
  <2>1. tmp' \in Directory /\ tmp'.files = {} /\ ~tmp'.exists
    BY <1>1, <1>3, DirectoryFacts, Zenon
  <2>2. /\ backups' \in [Backups -> Backup] /\ backups'[b] = new
        /\ \A a \in Backups \ {b} : backups'[a] = backups[a]
    BY <1>1, <1>3, Zenon
  <2>3. dirty' \subseteq {"tmp", "recover"} /\ ("recover" \in dirty => "recover" \in dirty')
    BY <1>1, <1>3
  <2> QED
    BY <1>2, <2>1, <2>2, <2>3, Zenon
<1>4. CASE /\ tmp.exists
           /\ \E fs \in SUBSET tmp.files : tmp' = [tmp EXCEPT !.files = fs]
           /\ backups' = [backups EXCEPT ![b] = Failed]
           /\ dirty' = dirty \cup {"tmp"}
  <2>1. PICK fs \in SUBSET tmp.files : tmp' = [tmp EXCEPT !.files = fs]
    BY <1>4, Zenon
  <2>2. fs \in SUBSET File
    BY <1>1
  <2>3. tmp' \in Directory /\ tmp'.files = fs /\ tmp'.exists
    BY <1>1, <1>4, <2>1, <2>2, DirectoryFacts, Zenon
  <2>4. /\ backups' \in [Backups -> Backup] /\ backups'[b] = Failed
        /\ \A a \in Backups \ {b} : backups'[a] = backups[a]
    BY <1>1, <1>4, Zenon
  <2>5. /\ dirty' \subseteq {"tmp", "recover"} /\ ("recover" \in dirty => "recover" \in dirty')
        /\ "tmp" \in dirty'
    BY <1>1, <1>4
  <2> QED
    BY <1>2, <2>3, <2>4, <2>5, Zenon
<1> QED
  BY <1>3, <1>4, Zenon DEF Leave, SetBackup

\* The record of a backup that is done.
Finished(b) == [backups[b] EXCEPT !.state = "done"]

LEMMA FinishedFacts ==
    ASSUME TypeOK, NEW b \in Backups
    PROVE  /\ Finished(b) \in Backup /\ Finished(b).state = "done"
           /\ Finished(b).files = backups[b].files /\ Finished(b).from = backups[b].from
           /\ Finished(b).to = backups[b].to /\ Finished(b).instant = backups[b].instant
BY Zenon DEF TypeOK, StorageType, Backup, Finished

LEMMA LeaveType ==
    ASSUME TypeOK, NEW b \in Backups, NEW new \in Backup, Leave(b, new),
           store' \in [Backups -> StoreRequest], faults' \in Nat,
           UNCHANGED <<zkVars, podVars, recover, recovered, leftover>>
    PROVE  TypeOK'
<1>1. /\ backups' \in [Backups -> Backup]
      /\ tmp' \in Directory /\ (tmp'.files # {} => tmp'.exists)
      /\ dirty' \subseteq {"tmp", "recover"}
      /\ pc' = "idle" /\ current' = {} /\ todo' = {}
  BY LeaveFacts, Zenon
<1>2. StorageType'
  BY <1>1, Zenon DEF TypeOK, StorageType
<1>3. DaemonType'
  BY <1>1, Zenon DEF TypeOK, DaemonType
<1> QED
  BY <1>2, <1>3, FrameTypes, Zenon DEF TypeOK

LEMMA AnsweredType ==
    ASSUME TypeOK, NEW b \in Backups, Answered(b)
    PROVE  TypeOK'
<1>1. UNCHANGED <<zkVars, podVars, recover, recovered, leftover, faults>>
  BY Zenon DEF Answered
<1>2. store' \in [Backups -> StoreRequest] /\ faults' \in Nat
  <2>1. store' = [store EXCEPT ![b] = NoStore]
    BY Zenon DEF Answered
  <2> QED
    BY <1>1, <2>1, OneRequest, ConstantFacts, Zenon DEF TypeOK, StorageType, DaemonType
<1>3. CASE Leave(b, Failed)
  BY <1>1, <1>2, <1>3, FailedFacts, LeaveType, Zenon
<1>4. CASE /\ pc' = "select"
           /\ backups' = [backups EXCEPT ![b].to = IF backups[b].instant THEN txns ELSE 0]
           /\ UNCHANGED <<tmp, current, todo, dirty>>
  <2>1. backups' \in [Backups -> Backup]
    <3> DEFINE n == IF backups[b].instant THEN txns ELSE 0
    <3>1. n \in Nat
      BY DEF TypeOK, ZooKeeperType
    <3>2. backups' = [backups EXCEPT ![b].to = n]
      BY <1>4, Zenon
    <3> HIDE DEF n
    <3> QED
      BY <3>1, <3>2, ZenonT(30) DEF TypeOK, StorageType, Backup
  <2>2. StorageType'
    BY <1>1, <1>2, <1>4, <2>1, Zenon DEF TypeOK, StorageType
  <2>3. DaemonType'
    BY <1>1, <1>4 DEF Answered, TypeOK, DaemonType, BackupPhase
  <2> QED
    BY <1>1, <2>2, <2>3, FrameTypes, Zenon DEF TypeOK
<1> QED
  BY <1>3, <1>4, Zenon DEF Answered

LEMMA FilesFacts ==
    ASSUME TypeOK
    PROVE  /\ tmp.files \subseteq File /\ Snapshot(tmp.files) \subseteq File
           /\ Log(tmp.files) \subseteq File
           /\ \A b \in Backups : backups[b].files \subseteq File
           /\ Log(files) \subseteq File /\ Snapshot(files) \subseteq File
BY DEF TypeOK, StorageType, ZooKeeperType, Directory, Backup, Snapshot, Log

\* The request loses its listener; so it may, when the daemon raises an exception.
LEMMA UnheardFacts ==
    ASSUME TypeOK, NEW b \in Backups, LoseAnswer(b) \/ BackupFails(b)
    PROVE  /\ store' \in [Backups -> StoreRequest] /\ store'[b] = Unheard(b)
           /\ \A a \in Backups \ {b} : store'[a] = store[a]
           /\ faults' \in Nat
<1>1. store' = [store EXCEPT ![b] = Unheard(b)]
  BY Zenon DEF LoseAnswer, BackupFails
<1>2. store \in [Backups -> StoreRequest] /\ Unheard(b) \in StoreRequest
  BY RequestFacts, Zenon DEF TypeOK, StorageType
<1>3. faults' \in Nat
  BY DEF LoseAnswer, BackupFails, TypeOK, DaemonType
<1> QED
  BY <1>1, <1>2, <1>3, OneRequest, Zenon

LEMMA FaultType ==
    ASSUME TypeOK, NEW b \in Backups, LoseAnswer(b) \/ BackupFails(b)
    PROVE  TypeOK'
<1>1. store' \in [Backups -> StoreRequest] /\ faults' \in Nat
  BY UnheardFacts, Zenon
<1>2. CASE LoseAnswer(b)
  <2>1. UNCHANGED <<zkVars, podVars, tmp, recover, backups, daemonVars, recovered, leftover,
                    dirty>>
    BY <1>2, Zenon DEF LoseAnswer
  <2>2. StorageType'
    BY <1>1, <2>1, Zenon DEF TypeOK, StorageType
  <2>3. DaemonType'
    BY <1>1, <2>1, Zenon DEF TypeOK, DaemonType, daemonVars
  <2> QED
    BY <2>1, <2>2, <2>3, FrameTypes, Zenon DEF TypeOK
<1>3. CASE BackupFails(b)
  <2>1. Leave(b, Failed) /\ UNCHANGED <<zkVars, podVars, recover, recovered, leftover>>
    BY <1>3, Zenon DEF BackupFails
  <2> QED
    BY <1>1, <2>1, FailedFacts, LeaveType, Zenon
<1> QED
  BY <1>2, <1>3, Zenon

LEMMA SelectType ==
    ASSUME TypeOK, NEW b \in Backups, Select(b)
    PROVE  TypeOK'
<1>1. UNCHANGED <<zkVars, podVars, recover, store, recovered, leftover, faults>>
  BY Zenon DEF Select
<1>2. store' \in [Backups -> StoreRequest] /\ faults' \in Nat
  BY <1>1, Zenon DEF TypeOK, StorageType, DaemonType
<1>3. CASE Leave(b, Failed)
  BY <1>1, <1>2, <1>3, FailedFacts, LeaveType, Zenon
<1>4. CASE \E f \in Snapshot(tmp.files) :
              /\ backups' = [backups EXCEPT ![b].files = {Undated(f)}]
              /\ todo' = Names({g \in Log(tmp.files) : g.time > f.time})
              /\ pc' = "logs" /\ UNCHANGED <<tmp, current, dirty>>
  <2>1. PICK f \in Snapshot(tmp.files) :
              /\ backups' = [backups EXCEPT ![b].files = {Undated(f)}]
              /\ todo' = Names({g \in Log(tmp.files) : g.time > f.time})
    BY <1>4, Zenon
  <2>2. backups' \in [Backups -> Backup]
    <3>1. Undated(f) \in File
      BY FilesFacts, UndatedFacts, Zenon
    <3> QED
      BY <2>1, <3>1 DEF TypeOK, StorageType, Backup
  <2>3. todo' \subseteq FileName
    BY <2>1, FilesFacts, NamesFacts
  <2>4. StorageType'
    BY <1>1, <1>4, <2>2, Zenon DEF TypeOK, StorageType
  <2>5. DaemonType'
    BY <1>1, <1>4, <2>3, Zenon DEF TypeOK, DaemonType, BackupPhase
  <2> QED
    BY <1>1, <2>4, <2>5, FrameTypes, Zenon DEF TypeOK
<1> QED
  BY <1>3, <1>4, Zenon DEF Select, Undated

\* What StoreLog does with a log.
LEMMA StoreLogFacts ==
    ASSUME TypeOK, NEW b \in Backups, StoreLog(b)
    PROVE  \/ Leave(b, Failed)
           \/ todo = {} /\ Leave(b, Finished(b))
           \/ \E f \in Log(tmp.files), n \in Nat :
                 /\ Name(f) \in todo /\ todo' = todo \ {Name(f)}
                 /\ Readable(f, n) /\ n <= f.last
                 /\ Grown(f, n, 0) \in File
                 /\ backups' = [backups EXCEPT ![b].files = @ \cup {Grown(f, n, 0)}]
                 /\ UNCHANGED <<tmp, pc, current, dirty>>
<1>1. CASE \E f \in Log(tmp.files) :
              /\ Name(f) \in todo /\ todo' = todo \ {Name(f)}
              /\ \E n \in 0..f.last :
                    /\ Readable(f, n)
                    /\ backups' = [backups EXCEPT ![b].files = @ \cup {Grown(f, n, 0)}]
              /\ UNCHANGED <<tmp, pc, current, dirty>>
  <2>1. PICK f \in Log(tmp.files) :
              /\ Name(f) \in todo /\ todo' = todo \ {Name(f)}
              /\ \E n \in 0..f.last :
                    /\ Readable(f, n)
                    /\ backups' = [backups EXCEPT ![b].files = @ \cup {Grown(f, n, 0)}]
              /\ UNCHANGED <<tmp, pc, current, dirty>>
    BY <1>1, Zenon
  <2>2. PICK n \in 0..f.last :
              /\ Readable(f, n)
              /\ backups' = [backups EXCEPT ![b].files = @ \cup {Grown(f, n, 0)}]
    BY <2>1, Zenon
  <2>3. f \in File /\ f.last \in Nat
    BY FilesFacts, NameFacts, Zenon
  <2>4. n \in Nat /\ n <= f.last /\ 0 \in Nat
    BY <2>3
  <2>5. Grown(f, n, 0) \in File
    BY <2>3, <2>4, GrownFacts, Zenon
  <2> QED
    BY <2>1, <2>2, <2>4, <2>5, Zenon
<1>2. \/ Leave(b, Failed)
      \/ todo = {} /\ Leave(b, Finished(b))
      \/ \E f \in Log(tmp.files) :
              /\ Name(f) \in todo /\ todo' = todo \ {Name(f)}
              /\ \E n \in 0..f.last :
                    /\ Readable(f, n)
                    /\ backups' = [backups EXCEPT ![b].files = @ \cup {Grown(f, n, 0)}]
              /\ UNCHANGED <<tmp, pc, current, dirty>>
  BY Zenon DEF StoreLog, Grown, Finished
<1> QED
  BY <1>1, <1>2, Zenon

LEMMA StoreLogType ==
    ASSUME TypeOK, NEW b \in Backups, StoreLog(b)
    PROVE  TypeOK'
<1>1. /\ pc = "logs"
      /\ UNCHANGED <<zkVars, podVars, recover, store, recovered, leftover, faults>>
  BY Zenon DEF StoreLog
<1>2. store' \in [Backups -> StoreRequest] /\ faults' \in Nat
  BY <1>1, Zenon DEF TypeOK, StorageType, DaemonType
<1>3. CASE Leave(b, Failed) \/ Leave(b, Finished(b))
  BY <1>1, <1>2, <1>3, FailedFacts, FinishedFacts, LeaveType, Zenon
<1>4. CASE \E f \in File :
              /\ todo' \subseteq todo
              /\ backups' = [backups EXCEPT ![b].files = @ \cup {f}]
              /\ UNCHANGED <<tmp, pc, current, dirty>>
  <2>1. PICK f \in File : backups' = [backups EXCEPT ![b].files = @ \cup {f}]
    BY <1>4, Zenon
  <2>2. backups' \in [Backups -> Backup]
    BY <2>1, FilesFacts DEF TypeOK, StorageType, Backup
  <2>3. StorageType'
    BY <1>1, <1>4, <2>2, Zenon DEF TypeOK, StorageType
  <2>4. DaemonType'
    BY <1>1, <1>4, Zenon DEF TypeOK, DaemonType
  <2> QED
    BY <1>1, <2>3, <2>4, FrameTypes, Zenon DEF TypeOK
<1>5. \/ Leave(b, Failed) \/ Leave(b, Finished(b))
      \/ \E f \in File :
              /\ todo' \subseteq todo
              /\ backups' = [backups EXCEPT ![b].files = @ \cup {f}]
              /\ UNCHANGED <<tmp, pc, current, dirty>>
  <2>1. \A f \in Log(tmp.files), n \in Nat :
           /\ todo' = todo \ {Name(f)}
           /\ Grown(f, n, 0) \in File
           /\ backups' = [backups EXCEPT ![b].files = @ \cup {Grown(f, n, 0)}]
           => /\ todo' \subseteq todo
              /\ \E g \in File : backups' = [backups EXCEPT ![b].files = @ \cup {g}]
    BY Zenon
  <2> QED
    BY <2>1, StoreLogFacts, Zenon
<1> QED
  BY <1>3, <1>4, <1>5, Zenon

LEMMA RecoveryType ==
    ASSUME TypeOK,
           \/ \E b \in Backups : StartRecovery(b)
           \/ CopyToRecover \/ ScaleUp \/ RemoveRecover \/ RecoveryFails
    PROVE  TypeOK'
<1>1. UNCHANGED <<zkVars, pod, data, tmp, backups, store>>
  BY Zenon DEF StartRecovery, CopyToRecover, ScaleUp, RemoveRecover, RecoveryFails, podVars
<1>2. disturbed' \subseteq disturbed /\ recover' \subseteq File
  BY PutFacts, Zenon DEF StartRecovery, CopyToRecover, ScaleUp, RemoveRecover,
                         RecoveryFails, podVars, TypeOK, ZooKeeperType, StorageType,
                         DaemonType
<1>3. ZooKeeperType'
  BY <1>1, <1>2 DEF TypeOK, ZooKeeperType, zkVars
<1>4. StorageType'
  BY <1>1, <1>2, Zenon DEF TypeOK, StorageType
<1>5. DaemonType'
  <2> USE DEF RecoveryPhase
  <2>1. CASE \E b \in Backups : StartRecovery(b)
    BY <2>1, FilesFacts, Zenon DEF StartRecovery, TypeOK, DaemonType
  <2>2. CASE CopyToRecover
    BY <2>2, Zenon DEF CopyToRecover, TypeOK, DaemonType
  <2>3. CASE ScaleUp
    BY <2>3, Zenon DEF ScaleUp, TypeOK, DaemonType
  <2>4. CASE RemoveRecover
    BY <2>4, Zenon DEF RemoveRecover, TypeOK, DaemonType
  <2>5. CASE RecoveryFails
    BY <2>5 DEF RecoveryFails, TypeOK, DaemonType
  <2> QED
    BY <2>1, <2>2, <2>3, <2>4, <2>5, Zenon
<1> QED
  BY <1>3, <1>4, <1>5, Zenon DEF TypeOK

LEMMA ScaleDownType ==
    ASSUME TypeOK, ScaleDown
    PROVE  TypeOK'
<1>1. store' \in [Backups -> StoreRequest]
  BY AbortedFacts, Zenon DEF ScaleDown, TypeOK, StorageType
<1>2. ZooKeeperType'
  BY DEF ScaleDown, TypeOK, ZooKeeperType, zkVars
<1>3. StorageType'
  BY <1>1, Zenon DEF ScaleDown, TypeOK, StorageType
<1>4. DaemonType'
  BY DEF ScaleDown, TypeOK, DaemonType, RecoveryPhase
<1> QED
  BY <1>2, <1>3, <1>4, Zenon DEF TypeOK

LEMMA KillType ==
    ASSUME TypeOK, Kill
    PROVE  TypeOK'
<1>1. backups' \in [Backups -> Backup] /\ store' \in [Backups -> StoreRequest]
  BY KillFacts, Zenon DEF TypeOK, StorageType
<1>2. StorageType'
  BY <1>1, Zenon DEF Kill, TypeOK, StorageType
<1>3. DaemonType'
  BY DEF Kill, TypeOK, DaemonType
<1> QED
  BY <1>2, <1>3, FrameTypes, Zenon DEF Kill, TypeOK

\* What a server starts from, and what the leader then writes.
LEMMA EntrypointFacts ==
    ASSUME TypeOK, NEW s \in Servers, Entrypoint(s)
    PROVE  /\ data' \in [Servers -> SUBSET File]
           /\ \A t \in Servers \ {s} : data'[t] = data[t]
           /\ data'[s] = IF recover = {} THEN data[s] ELSE recover
BY Zenon DEF Entrypoint, TypeOK, ZooKeeperType, StorageType

LEMMA LoadDataFacts ==
    ASSUME TypeOK, NEW s \in Servers, LoadData(s)
    PROVE  /\ UNCHANGED <<txns, snapshots>> /\ saving' \in BOOLEAN /\ (saving' => saving)
           /\ \/ s = Leader /\ NewSnapshot
              \/ UNCHANGED <<files, rolled, clock>>
           /\ files' \subseteq File /\ clock' \in Nat /\ rolled' \in BOOLEAN
<1>1. /\ UNCHANGED <<txns, snapshots>> /\ saving' = (saving /\ s # Leader)
      /\ \/ s = Leader /\ NewSnapshot
         \/ UNCHANGED <<files, rolled, clock>>
  BY Zenon DEF LoadData
<1>2. NewSnapshot => files' \subseteq File /\ clock' \in Nat /\ rolled' \in BOOLEAN
  BY NewSnapshotFacts, Zenon
<1>3. files \subseteq File /\ clock \in Nat /\ rolled \in BOOLEAN
  BY Zenon DEF TypeOK, ZooKeeperType
<1>4. saving' \in BOOLEAN /\ (saving' => saving)
  BY <1>1
<1> QED
  BY <1>1, <1>2, <1>3, <1>4, Zenon

LEMMA PodType ==
    ASSUME TypeOK, NEW s \in Servers, StartPod(s) \/ RestartPod(s)
    PROVE  TypeOK'
<1>1. /\ UNCHANGED <<tmp, recover, backups, daemonVars, recovered, leftover, dirty>>
      /\ Entrypoint(s) /\ LoadData(s)
  BY Zenon DEF StartPod, RestartPod
<1>2. /\ pod' \in [Servers -> {"up", "down"}] /\ disturbed' \subseteq Servers
      /\ faults' \in Nat
  BY DEF StartPod, RestartPod, TypeOK, ZooKeeperType, DaemonType
<1>3. store' \in [Backups -> StoreRequest]
  BY AbortedFacts, Zenon DEF StartPod, RestartPod, TypeOK, StorageType
<1>4. data' \in [Servers -> SUBSET File]
  BY <1>1, EntrypointFacts, Zenon
<1>5. /\ UNCHANGED <<txns, snapshots>> /\ saving' \in BOOLEAN
      /\ files' \subseteq File /\ clock' \in Nat /\ rolled' \in BOOLEAN
  BY <1>1, LoadDataFacts, Zenon
<1>6. ZooKeeperType'
  BY <1>2, <1>4, <1>5, Zenon DEF TypeOK, ZooKeeperType
<1>7. StorageType'
  BY <1>1, <1>3, Zenon DEF TypeOK, StorageType
<1>8. DaemonType'
  BY <1>1, <1>2, Zenon DEF TypeOK, DaemonType, daemonVars
<1> QED
  BY <1>6, <1>7, <1>8, Zenon DEF TypeOK

LEMMA InitType ==
    ASSUME Init
    PROVE  TypeOK
<1>1. ZooKeeperType
  <2>1. files \subseteq File
    BY DEF Init, File
  <2>2. /\ txns \in Nat /\ clock \in Nat /\ snapshots \in Nat
        /\ rolled \in BOOLEAN /\ saving \in BOOLEAN /\ disturbed \subseteq Servers
    BY DEF Init
  <2>3. pod \in [Servers -> {"up", "down"}] /\ data \in [Servers -> SUBSET File]
    BY Zenon DEF Init
  <2> QED
    BY <2>1, <2>2, <2>3, Zenon DEF ZooKeeperType
<1>2. StorageType
  BY ConstantFacts DEF Init, StorageType, Directory
<1>3. DaemonType
  BY Zenon DEF Init, DaemonType
<1> QED
  BY <1>1, <1>2, <1>3, Zenon DEF TypeOK

LEMMA StepType ==
    ASSUME TypeOK, [Next]_vars
    PROVE  TypeOK'
<1>1. CASE UNCHANGED vars
  BY <1>1, FrameTypes, Zenon DEF vars, TypeOK
<1> QED
  BY <1>1, AppendType, BeginSnapshotType, FinishSnapshotType, StoreType, StartBackupType,
     AnsweredType, FaultType, SelectType, StoreLogType, RecoveryType, ScaleDownType, KillType,
     PodType, Zenon
  DEF Next, DaemonStep, BackupStep

\* The state of the backup model keeps its type: the programs that share the file system
\* find there only what their formats allow.
THEOREM TypeCorrect == Spec => []TypeOK
BY InitType, StepType, PTL DEF Spec

-----------------------------------------------------------------------------
(* The files that ZooKeeper writes.                                        *)

\* A transaction opens a log, or goes to the logs that end with the last one.
LEMMA AppendFacts ==
    ASSUME TypeOK, Append
    PROVE  /\ Snapshot(files') = Snapshot(files)
           /\ rolled => \E n \in File :
                 /\ n.kind = "log" /\ n.first = txns + 1 /\ n.last = txns + 1 /\ n.time = clock
                 /\ files' = files \cup {n}
                 /\ Log(files') = Log(files) \cup {n}
           /\ ~rolled =>
                 /\ \A f \in Log(files') : \E g \in Log(files) :
                       /\ f.first = g.first
                       /\ IF g.last = txns THEN /\ f.last = txns + 1 /\ f.time = clock
                                               /\ f = Grown(g, txns + 1, clock)
                          ELSE f = g
                 /\ \A g \in Log(files) : \E f \in Log(files') :
                       /\ f.first = g.first
                       /\ IF g.last = txns THEN /\ f.last = txns + 1 /\ f.time = clock
                                               /\ f = Grown(g, txns + 1, clock)
                          ELSE f = g
<1>1. files \subseteq File /\ txns + 1 \in Nat /\ clock \in Nat
  BY DEF TypeOK, ZooKeeperType
<1>2. CASE rolled
  <2> DEFINE n == [kind |-> "log", first |-> txns + 1, last |-> txns + 1, time |-> clock]
  <2>1. files' = files \cup {n}
    BY <1>2, Zenon DEF Append
  <2>2. /\ n \in File /\ n.kind = "log" /\ n.first = txns + 1 /\ n.last = txns + 1
        /\ n.time = clock
    BY <1>1, Zenon DEF File
  <2> HIDE DEF n
  <2>3. Snapshot(files') = Snapshot(files) /\ Log(files') = Log(files) \cup {n}
    BY <2>1, <2>2, Zenon DEF Snapshot, Log
  <2> QED
    BY <1>2, <2>1, <2>2, <2>3, Zenon
<1>3. CASE ~rolled
  <2> DEFINE new(g) == IF g.kind = "log" /\ g.last = txns THEN Grown(g, txns + 1, clock)
                       ELSE g
  <2>1. files' = {new(g) : g \in files}
    BY <1>3, Zenon DEF Append, Grown
  <2>2. \A g \in File : /\ Grown(g, txns + 1, clock).kind = g.kind
                        /\ Grown(g, txns + 1, clock).first = g.first
                        /\ Grown(g, txns + 1, clock).last = txns + 1
                        /\ Grown(g, txns + 1, clock).time = clock
    BY <1>1, GrownFacts
  <2>3. \A g \in files : /\ new(g).kind = g.kind /\ new(g).first = g.first
                         /\ g.kind = "snapshot" => new(g) = g
                         /\ g.kind = "log" =>
                               IF g.last = txns
                               THEN /\ new(g).last = txns + 1 /\ new(g).time = clock
                                    /\ new(g) = Grown(g, txns + 1, clock)
                               ELSE new(g) = g
    BY <1>1, <2>2, Zenon
  <2> HIDE DEF new
  <2>4. Snapshot(files') = Snapshot(files)
    BY <2>1, <2>3, Zenon DEF Snapshot
  <2>5. /\ \A f \in Log(files') : \E g \in Log(files) : f = new(g)
        /\ \A g \in Log(files) : new(g) \in Log(files') /\ g \in files /\ g.kind = "log"
    BY <2>1, <2>3 DEF Log
  <2> QED
    BY <1>3, <2>3, <2>4, <2>5
<1> QED
  BY <1>2, <1>3, Zenon

\* Every file is a snapshot or a log.
LEMMA KindFacts ==
    ASSUME NEW fs \in SUBSET File
    PROVE  /\ fs = Snapshot(fs) \cup Log(fs)
           /\ \A f \in Snapshot(fs) : f.kind = "snapshot"
           /\ \A f \in Log(fs) : f.kind = "log"
           /\ \A f \in fs : f.first \in Nat /\ f.last \in Nat /\ f.time \in Nat
BY Zenon DEF Snapshot, Log, File

\* Names are unique if the first transactions are, of snapshots and of logs.
LEMMA UniqueFacts ==
    ASSUME NEW fs \in SUBSET File
    PROVE  UniqueNames(fs) <=> /\ \A f, g \in Snapshot(fs) : f.first = g.first => f = g
                               /\ \A f, g \in Log(fs) : f.first = g.first => f = g
<1>1. \A f, g \in fs : Name(f) = Name(g) <=> f.kind = g.kind /\ f.first = g.first
  BY NameFacts, Zenon
<1> QED
  BY <1>1, KindFacts DEF UniqueNames, Snapshot, Log

\* A snapshot replaces the one of the same first transaction.
LEMMA PutSnapshot ==
    ASSUME NEW n \in File, n.kind = "snapshot", NEW fs \in SUBSET File
    PROVE  /\ \A y \in Snapshot(Put(n, fs)) : y = n \/ (y \in Snapshot(fs) /\ y.first # n.first)
           /\ \A y \in Snapshot(fs) : y.first # n.first => y \in Snapshot(Put(n, fs))
           /\ n \in Snapshot(Put(n, fs))
           /\ Log(Put(n, fs)) = Log(fs)
<1>1. \A g \in fs : Name(g) # Name(n) <=> g.kind # "snapshot" \/ g.first # n.first
  BY NameFacts, Zenon
<1>2. \A g \in fs : g.kind = "log" => g.kind # "snapshot"
  OBVIOUS
<1> QED
  BY <1>1, <1>2 DEF Put, Snapshot, Log

LEMMA FilesTypes ==
    ASSUME TypeOK
    PROVE  /\ txns \in Nat /\ clock \in Nat /\ MaxTxns \in Nat
           /\ \A f \in Snapshot(files) : f.first \in Nat /\ f.last \in Nat /\ f.time \in Nat
           /\ \A f \in Log(files) : f.first \in Nat /\ f.last \in Nat /\ f.time \in Nat
BY BoundsAssumption, KindFacts, Zenon DEF TypeOK, ZooKeeperType

LEMMA AppendFiles ==
    ASSUME TypeOK, FilesInv, Append
    PROVE  FilesInv'
<1>1. /\ txns < MaxTxns /\ txns' = txns + 1 /\ clock' = clock + 1 /\ rolled' = FALSE
      /\ Snapshot(files') = Snapshot(files)
  BY AppendFacts, Zenon DEF Append
<1>2. /\ txns \in Nat /\ clock \in Nat /\ MaxTxns \in Nat
      /\ \A f \in Snapshot(files) : f.first \in Nat /\ f.last \in Nat /\ f.time \in Nat
      /\ \A f \in Log(files) : f.first \in Nat /\ f.last \in Nat /\ f.time \in Nat
  BY FilesTypes, Zenon
<1>3. /\ \A f, g \in Snapshot(files) : f.first = g.first => f = g
      /\ \A f, g \in Log(files) : f.first = g.first => f = g
      /\ \A z \in Snapshot(files) : z.first <= z.last /\ z.last <= txns /\ z.time < clock
      /\ \A z \in Snapshot(files) : ~rolled => z.first < txns
      /\ \A g \in Log(files) : g.first <= g.last /\ g.last <= txns /\ g.time < clock
      /\ \A g \in Log(files) : \E z \in Snapshot(files) : g.first = z.first + 1
      /\ \A g \in Log(files), z \in Snapshot(files) : Ordered(g, z)
  BY Zenon DEF FilesInv
<1>4. PICK z0 \in Snapshot(files) : Newest(z0)
  BY Zenon DEF FilesInv
<1>5. \A z \in Snapshot(files) : z.last <= txns' /\ z.time < clock' /\ z.first < txns'
  BY <1>1, <1>2, <1>3
<1>6. /\ \A f, g \in Log(files') : f.first = g.first => f = g
      /\ \A g \in Log(files') : g.first <= g.last /\ g.last <= txns' /\ g.time < clock'
      /\ \A g \in Log(files') : \E z \in Snapshot(files) : g.first = z.first + 1
      /\ \A g \in Log(files'), z \in Snapshot(files) : Ordered(g, z)
      /\ \E g \in Log(files') : g.first = z0.first + 1 /\ g.last = txns'
  <2>1. CASE rolled
    <3>1. PICK n : /\ n.first = txns + 1 /\ n.last = txns + 1 /\ n.time = clock
                   /\ Log(files') = Log(files) \cup {n}
      BY <2>1, AppendFacts, Zenon
    <3>2. z0.first = txns
      BY <1>4, <2>1, Zenon DEF Newest
    <3>3. \A g \in Log(files) : g.first # n.first /\ g.last <= txns' /\ g.time < clock'
      BY <1>1, <1>2, <1>3, <3>1
    <3>4. \A z \in Snapshot(files) : Ordered(n, z)
      BY <1>2, <1>3, <3>1 DEF Ordered
    <3>5. /\ n.first <= n.last /\ n.last = txns' /\ n.time < clock' /\ n.last <= txns'
          /\ n.first = z0.first + 1
      BY <1>1, <1>2, <3>1, <3>2
    <3> QED
      BY <1>3, <1>4, <3>1, <3>3, <3>4, <3>5, Zenon
  <2>2. CASE ~rolled
    <3>1. /\ \A f \in Log(files') : \E g \in Log(files) :
                /\ f.first = g.first
                /\ IF g.last = txns THEN /\ f.last = txns + 1 /\ f.time = clock
                                        /\ f = Grown(g, txns + 1, clock)
                   ELSE f = g
          /\ \A g \in Log(files) : \E f \in Log(files') :
                /\ f.first = g.first
                /\ IF g.last = txns THEN /\ f.last = txns + 1 /\ f.time = clock
                                        /\ f = Grown(g, txns + 1, clock)
                   ELSE f = g
      BY <2>2, AppendFacts, Zenon
    <3>2. \E g \in Log(files') : g.first = z0.first + 1 /\ g.last = txns'
      BY <1>1, <1>4, <2>2, <3>1, Zenon DEF Newest
    <3>3. \A f, g \in Log(files') : f.first = g.first => f = g
      BY <1>3, <3>1
    <3>4. SUFFICES ASSUME NEW f \in Log(files')
                   PROVE  /\ f.first <= f.last /\ f.last <= txns' /\ f.time < clock'
                          /\ \E z \in Snapshot(files) : f.first = z.first + 1
                          /\ \A z \in Snapshot(files) : Ordered(f, z)
      BY <3>2, <3>3, Zenon
    <3>5. PICK g \in Log(files) :
             /\ f.first = g.first
             /\ IF g.last = txns THEN f.last = txns + 1 /\ f.time = clock ELSE f = g
      BY <3>1, Zenon
    <3>6. f.first <= f.last /\ f.last <= txns' /\ f.time < clock'
      BY <1>1, <1>2, <1>3, <3>5
    <3>7. \E z \in Snapshot(files) : f.first = z.first + 1
      <4>1. \A h \in Log(files) : \E z \in Snapshot(files) : h.first = z.first + 1
        BY <1>3, Zenon
      <4> QED
        BY <4>1, <3>5, Zenon
    <3>8. ASSUME NEW z \in Snapshot(files)
          PROVE  Ordered(f, z)
      <4>1. CASE g.last = txns
        <5>1. g.first > z.first /\ clock > z.time /\ txns + 1 > z.last
          BY <1>2, <1>3, <2>2, <4>1 DEF Ordered
        <5> QED
          BY <1>2, <3>5, <4>1, <5>1 DEF Ordered
      <4>2. CASE g.last # txns
        BY <1>3, <3>5, <4>2, Zenon
      <4> QED
        BY <4>1, <4>2, Zenon
    <3> QED
      BY <3>6, <3>7, <3>8, Zenon
  <2> QED
    BY <2>1, <2>2, Zenon
<1>7. Newest(z0)'
  BY <1>1, <1>4, <1>6, Zenon DEF Newest
<1>8. txns' <= MaxTxns
  BY <1>1, <1>2
<1> QED
  BY <1>1, <1>3, <1>4, <1>5, <1>6, <1>7, <1>8, Zenon DEF FilesInv

\* A snapshot n, of the last transaction, is added, or replaces the last snapshot.
LEMMA SnapshotFiles ==
    ASSUME TypeOK, FilesInv, NEW n \in File, n.kind = "snapshot", n.last = txns,
           n.time = clock, n.first <= txns, ~rolled' => n.first < txns,
           files' = Put(n, files), txns' = txns, clock' = clock + 1,
           \A y \in Snapshot(files) : y.first # n.first => y.first < n.first,
           \A g \in Log(files) : g.first <= n.first => g.last <= n.first,
           IF rolled' THEN n.first = txns
           ELSE \E g \in Log(files) : g.first = n.first + 1 /\ g.last = txns
    PROVE  FilesInv'
<1>1. /\ txns \in Nat /\ clock \in Nat /\ MaxTxns \in Nat
      /\ \A f \in Snapshot(files) : f.first \in Nat /\ f.last \in Nat /\ f.time \in Nat
      /\ \A f \in Log(files) : f.first \in Nat /\ f.last \in Nat /\ f.time \in Nat
      /\ n.first \in Nat /\ files \in SUBSET File
  BY FilesTypes, NameFacts, Zenon DEF TypeOK, ZooKeeperType
<1>2. /\ \A y \in Snapshot(files') : y = n \/ (y \in Snapshot(files) /\ y.first # n.first)
      /\ \A y \in Snapshot(files) : y.first # n.first => y \in Snapshot(files')
      /\ n \in Snapshot(files') /\ Log(files') = Log(files)
  BY <1>1, PutSnapshot, Zenon
<1>3. \A y \in Snapshot(files) : /\ y.first <= y.last /\ y.last <= txns /\ y.time < clock'
                                 /\ y.time < n.time
  BY <1>1 DEF FilesInv
<1>4. n.time < clock' /\ n.first <= n.last /\ n.last <= txns
  BY <1>1
<1>5. \A y \in Snapshot(files') : /\ y.first <= y.last /\ y.last <= txns' /\ y.time < clock'
                                  /\ ~rolled' => y.first < txns'
  <2>1. ASSUME NEW y \in Snapshot(files), y.first # n.first, ~rolled'
        PROVE  y.first < txns
    <3>1. y.first < n.first /\ n.first < txns
      BY <2>1, Zenon
    <3>2. y.first \in Nat /\ n.first \in Nat /\ txns \in Nat
      BY <1>1, Zenon
    <3> QED
      BY <3>1, <3>2
  <2> QED
    BY <2>1, <1>2, <1>3, <1>4, Zenon
<1>6. \A f, g \in Snapshot(files') : f.first = g.first => f = g
  BY <1>2, Zenon DEF FilesInv
<1>7. ASSUME NEW g \in Log(files)
      PROVE  /\ g.first <= g.last /\ g.last <= txns /\ g.time < clock'
             /\ Ordered(g, n)
             /\ \E z \in Snapshot(files') : g.first = z.first + 1
  <2>1. g.first <= g.last /\ g.last <= txns /\ g.time < clock
    BY Zenon DEF FilesInv
  <2>2. PICK z \in Snapshot(files) : g.first = z.first + 1
    BY Zenon DEF FilesInv
  <2>3. \E y \in Snapshot(files') : g.first = y.first + 1
    BY <2>2, <1>2, Zenon
  <2>4. g.time < clock' /\ ~(g.time > n.time) /\ ~(g.last > n.last)
    BY <2>1, <1>1
  <2> QED
    BY <2>1, <2>3, <2>4, Zenon DEF Ordered
<1>8. \A g \in Log(files), y \in Snapshot(files') : Ordered(g, y)
  BY <1>2, <1>7, Zenon DEF FilesInv
<1>9. Newest(n)'
  BY <1>2, <1>3, Zenon DEF Newest
<1>10. txns <= MaxTxns /\ \A f, g \in Log(files) : f.first = g.first => f = g
  BY Zenon DEF FilesInv
<1> QED
  BY <1>2, <1>5, <1>6, <1>7, <1>8, <1>9, <1>10, Zenon DEF FilesInv

LEMMA NewSnapshotFiles ==
    ASSUME TypeOK, FilesInv, NewSnapshot, txns' = txns
    PROVE  FilesInv'
<1>1. PICK n \in File :
         /\ n.kind = "snapshot" /\ n.first = txns /\ n.last = txns /\ n.time = clock
         /\ files' = Put(n, files) /\ rolled' = TRUE /\ clock' = clock + 1
  BY NewSnapshotFacts, Zenon
<1>2. /\ n.first <= txns
      /\ \A y \in Snapshot(files) : y.first # n.first => y.first < n.first
      /\ \A g \in Log(files) : g.last <= n.first
  BY <1>1, FilesTypes DEF FilesInv
<1> QED
  BY <1>1, <1>2, SnapshotFiles, Zenon

\* The snapshot that is finished is the last one.
LEMMA FinishedSnapshot ==
    ASSUME TypeOK, FilesInv, FinishSnapshot
    PROVE  \E z \in Snapshot(files) : /\ z \in File /\ Newest(z)
                                      /\ files' = Put(Grown(z, txns, clock), files)
                                      /\ clock' = clock + 1
<1>1. PICK z \in Snapshot(files) :
         /\ z \in File
         /\ \A y \in Snapshot(files) : y.first <= z.first
         /\ files' = Put(Grown(z, txns, clock), files) /\ clock' = clock + 1
  BY FinishSnapshotFacts, Zenon
<1>2. PICK z0 \in Snapshot(files) : Newest(z0)
  BY Zenon DEF FilesInv
<1>3. z = z0 \/ z.first < z0.first
  BY <1>2, Zenon DEF Newest
<1>4. z0.first <= z.first /\ z.first \in Nat /\ z0.first \in Nat
  BY <1>1, FilesTypes, Zenon
<1>5. z = z0
  BY <1>3, <1>4
<1> QED
  BY <1>1, <1>2, <1>5, Zenon

LEMMA FinishSnapshotFiles ==
    ASSUME TypeOK, FilesInv, FinishSnapshot
    PROVE  FilesInv'
<1>1. PICK z \in Snapshot(files) : /\ z \in File /\ Newest(z)
                                   /\ files' = Put(Grown(z, txns, clock), files)
                                   /\ clock' = clock + 1
  BY FinishedSnapshot, Zenon
<1>2. txns' = txns /\ rolled' = rolled
  BY Zenon DEF FinishSnapshot
<1> DEFINE n == Grown(z, txns, clock)
<1>3. /\ n \in File /\ n.kind = z.kind /\ n.first = z.first /\ n.last = txns /\ n.time = clock
      /\ z.kind = "snapshot"
  <2>1. txns \in Nat /\ clock \in Nat /\ z \in File
    BY <1>1, FilesTypes, Zenon
  <2>2. z.kind = "snapshot"
    BY DEF Snapshot
  <2>3. n \in File
    BY <2>1, GrownFacts, Zenon
  <2>4. n.kind = z.kind /\ n.first = z.first /\ n.last = txns /\ n.time = clock
    BY <2>1, GrownFacts
  <2> QED
    BY <2>2, <2>3, <2>4, Zenon
<1>4. files' = Put(n, files)
  BY <1>1, Zenon
<1> HIDE DEF n
<1>5. /\ n.first <= txns /\ (~rolled => n.first < txns)
      /\ \A y \in Snapshot(files) : y.first # n.first => y.first < n.first
      /\ \A g \in Log(files) : g.first <= n.first => g.last <= n.first
  <2>1. z.first <= txns
    BY FilesTypes DEF FilesInv
  <2>2. ~rolled => z.first < txns
    BY Zenon DEF FilesInv
  <2>3. \A y \in Snapshot(files) : y.first # z.first => y.first < z.first
    BY <1>1, Zenon DEF Newest
  <2>4. \A g \in Log(files) : g.first <= z.first => g.last <= z.first
    BY Zenon DEF FilesInv, Ordered
  <2> QED
    BY <1>3, <2>1, <2>2, <2>3, <2>4, Zenon
<1>6. IF rolled THEN n.first = txns
      ELSE \E g \in Log(files) : g.first = n.first + 1 /\ g.last = txns
  BY <1>1, <1>3, Zenon DEF Newest
<1> QED
  BY <1>1, <1>2, <1>3, <1>4, <1>5, <1>6, SnapshotFiles, Zenon

LEMMA StepFiles ==
    ASSUME TypeOK, FilesInv, [Next]_vars
    PROVE  FilesInv'
<1>1. \/ Append
      \/ FinishSnapshot
      \/ NewSnapshot /\ txns' = txns
      \/ UNCHANGED <<txns, files, rolled, clock>>
  <2>1. CASE \E r \in Backups : StoreStep(r) \/ StoreFails(r)
    BY <2>1, StoreFacts, Zenon DEF storeVars, zkVars
  <2>2. CASE \E b \in Backups : \/ StartBackup(b) \/ LoseAnswer(b) \/ BackupFails(b)
                                \/ StartRecovery(b)
    BY <2>2, Zenon DEF StartBackup, LoseAnswer, BackupFails, StartRecovery, zkVars
  <2>3. CASE \E b \in Backups : BackupStep(b)
    BY <2>3, Zenon DEF BackupStep, Answered, Select, StoreLog, zkVars
  <2>4. CASE CopyToRecover \/ ScaleDown \/ ScaleUp \/ RemoveRecover \/ RecoveryFails \/ Kill
    BY <2>4, Zenon DEF CopyToRecover, ScaleDown, ScaleUp, RemoveRecover, RecoveryFails, Kill, zkVars
  <2>5. CASE \E s \in Servers : StartPod(s) \/ RestartPod(s)
    BY <2>5, Zenon DEF StartPod, RestartPod, LoadData
  <2>6. CASE BeginSnapshot \/ UNCHANGED vars
    BY <2>6, Zenon DEF BeginSnapshot, vars, zkVars
  <2> QED
    BY <2>1, <2>2, <2>3, <2>4, <2>5, <2>6, Zenon DEF Next, DaemonStep
<1>2. CASE UNCHANGED <<txns, files, rolled, clock>>
  BY <1>2, Zenon DEF FilesInv, Newest, Snapshot, Log
<1> QED
  BY <1>1, <1>2, AppendFiles, NewSnapshotFiles, FinishSnapshotFiles, Zenon

LEMMA InitFiles ==
    ASSUME Init
    PROVE  FilesInv
<1> DEFINE z == [kind |-> "snapshot", first |-> 0, last |-> 0, time |-> 1]
<1>1. txns = 0 /\ files = {z} /\ rolled = TRUE /\ clock = 2
  BY Zenon DEF Init
<1>2. z.kind = "snapshot" /\ z.first = 0 /\ z.last = 0 /\ z.time = 1
  OBVIOUS
<1> HIDE DEF z
<1>3. Snapshot(files) = {z} /\ Log(files) = {}
  BY <1>1, <1>2, Zenon DEF Snapshot, Log
<1>4. MaxTxns \in Nat
  BY BoundsAssumption, Zenon
<1> QED
  BY <1>1, <1>2, <1>3, <1>4 DEF FilesInv, Newest

-----------------------------------------------------------------------------
(* The daemon and its requests.                                            *)

\* A request that is at work is heard, or was heard at the last step.
LEMMA StoreDaemon ==
    ASSUME TypeOK, DaemonInv, NEW r \in Backups, StoreStep(r) \/ StoreFails(r)
    PROVE  DaemonInv'
<1>1. /\ UNCHANGED <<pc, current, backups, recover, pod>>
      /\ Active(r) /\ store'[r].phase # "remove"
      /\ store'[r].phase = "mkdir" => store[r].phase = "remove" /\ store'[r].done = store[r].done
      /\ store'[r].phase \in {"mkdir", "copy"} => store'[r].lost = store[r].lost
      /\ \A q \in Backups \ {r} : store'[q] = store[q]
      /\ dirty' \in {dirty, dirty \cup {"tmp"}}
      /\ tmp'.exists => \/ tmp.exists \/ ~store[r].lost \/ "tmp" \in dirty'
  BY StoreFacts, Zenon DEF storeVars, daemonVars, podVars
<1>2. pod[Leader] = "up" /\ (store[r].lost \/ (pc = "wait" /\ current = {r}))
  BY <1>1, Zenon DEF DaemonInv
<1>3. ASSUME NEW b \in Backups
      PROVE  /\ Active(b)' => /\ pod[Leader] = "up"
                              /\ store'[b].lost \/ (pc = "wait" /\ current = {b})
             /\ store'[b].phase \in {"remove", "mkdir"} => store'[b].done = {}
  <2>1. CASE b = r
    BY <1>1, <1>2, <2>1 DEF DaemonInv, Active
  <2>2. CASE b # r
    BY <1>1, <2>2, Zenon DEF DaemonInv, Active
  <2> QED
    BY <2>1, <2>2, Zenon
<1>4. tmp'.exists => pc \in BackupPhase \/ "tmp" \in dirty'
  BY <1>1, <1>2 DEF DaemonInv, BackupPhase
<1>5. recover # {} => pc \in RecoveryPhase \/ "recover" \in dirty'
  BY <1>1, Zenon DEF DaemonInv
<1>6. /\ IF pc = "idle" THEN current = {} ELSE \E b \in Backups : current = {b}
      /\ \A b \in Backups : backups[b].state = "running" <=> pc \in BackupPhase /\ current = {b}
      /\ \A b \in Backups : pc \in RecoveryPhase /\ current = {b} => backups[b].state = "done"
  BY Zenon DEF DaemonInv
<1> QED
  BY <1>1, <1>3, <1>4, <1>5, <1>6, Zenon DEF DaemonInv

LEMMA StartBackupDaemon ==
    ASSUME TypeOK, DaemonInv, NEW b \in Backups, StartBackup(b)
    PROVE  DaemonInv'
<1>1. /\ pc = "idle" /\ pc' = "wait" /\ current' = {b} /\ UNCHANGED <<recover, dirty, pod>>
      /\ backups[b].state = "none" /\ pod[Leader] = "up"
  BY Zenon DEF StartBackup, Writing, podVars
<1>2. \A a \in Backups : backups'[a].state = "running" <=> a = b
  BY <1>1, StartBackupFacts DEF DaemonInv, BackupPhase
<1>3. \A a \in Backups : {b} = {a} <=> a = b
  OBVIOUS
<1>4. ASSUME NEW a \in Backups
      PROVE  /\ Active(a)' => /\ pod[Leader] = "up"
                              /\ store'[a].lost \/ a = b
             /\ store'[a].phase \in {"remove", "mkdir"} => store'[a].done = {}
  <2>1. CASE a = b
    BY <1>1, <2>1, StartBackupFacts, Zenon
  <2>2. CASE a # b
    BY <1>1, <2>2, StartBackupFacts DEF DaemonInv, Active
  <2> QED
    BY <2>1, <2>2, Zenon
<1>5. recover # {} => "recover" \in dirty
  BY <1>1, Zenon DEF DaemonInv, RecoveryPhase
<1>6. pc' \in BackupPhase /\ pc' \notin RecoveryPhase /\ pc' # "idle"
  BY <1>1, Zenon DEF BackupPhase, RecoveryPhase
<1> QED
  BY <1>1, <1>2, <1>3, <1>4, <1>5, <1>6, Zenon DEF DaemonInv

\* A backup that ends leaves only requests to which nobody listens.
LEMMA LeaveDaemon ==
    ASSUME TypeOK, DaemonInv, NEW b \in Backups, NEW new \in Backup, Leave(b, new),
           new.state # "running", pc \in BackupPhase, current = {b}, UNCHANGED <<recover, pod>>,
           \A a \in Backups \ {b} : store'[a] = store[a],
           Active(b)' => /\ pod[Leader] = "up" /\ store'[b].lost
                         /\ store'[b].phase \in {"remove", "mkdir"} => store'[b].done = {}
    PROVE  DaemonInv'
<1>1. /\ pc' = "idle" /\ current' = {} /\ (tmp'.exists => "tmp" \in dirty')
      /\ "recover" \in dirty => "recover" \in dirty'
      /\ backups'[b] \in {new, Failed} /\ \A a \in Backups \ {b} : backups'[a] = backups[a]
  BY LeaveFacts, Zenon
<1>2. \A a \in Backups : backups'[a].state # "running"
  <2>1. \A a \in Backups \ {b} : backups[a].state # "running"
    BY DEF DaemonInv
  <2> QED
    BY <1>1, <2>1, FailedFacts
<1>3. ASSUME NEW a \in Backups
      PROVE  /\ Active(a)' => pod[Leader] = "up" /\ store'[a].lost
             /\ store'[a].phase \in {"remove", "mkdir"} => store'[a].done = {}
  <2>1. CASE a = b
    BY <2>1 DEF Active
  <2>2. CASE a # b
    BY <2>2 DEF DaemonInv, Active
  <2> QED
    BY <2>1, <2>2, Zenon
<1>4. recover # {} => "recover" \in dirty
  BY Zenon DEF DaemonInv, BackupPhase, RecoveryPhase
<1>5. pc' \notin BackupPhase /\ pc' \notin RecoveryPhase
  BY <1>1, Zenon DEF BackupPhase, RecoveryPhase
<1> QED
  BY <1>1, <1>2, <1>3, <1>4, <1>5, Zenon DEF DaemonInv

\* A backup that goes on.
LEMMA GoesOnDaemon ==
    ASSUME TypeOK, DaemonInv, NEW b \in Backups, pc \in BackupPhase, current = {b},
           pc' \in BackupPhase, UNCHANGED <<current, tmp, recover, dirty, pod>>,
           \A a \in Backups : backups'[a].state = backups[a].state,
           \A a \in Backups \ {b} : store'[a] = store[a],
           Active(b)' => /\ pod[Leader] = "up" /\ (store'[b].lost \/ pc' = "wait")
                         /\ store'[b].phase \in {"remove", "mkdir"} => store'[b].done = {}
    PROVE  DaemonInv'
<1>1. \A a \in Backups : {b} = {a} <=> a = b
  OBVIOUS
<1>2. \A a \in Backups : backups[a].state = "running" <=> a = b
  BY <1>1, Zenon DEF DaemonInv
<1>3. ASSUME NEW a \in Backups
      PROVE  /\ Active(a)' => /\ pod[Leader] = "up"
                              /\ store'[a].lost \/ (pc' = "wait" /\ a = b)
             /\ store'[a].phase \in {"remove", "mkdir"} => store'[a].done = {}
  <2>1. CASE a = b
    BY <2>1 DEF Active
  <2>2. CASE a # b
    BY <1>1, <2>2, Zenon DEF DaemonInv, Active
  <2> QED
    BY <2>1, <2>2, Zenon
<1>4. recover # {} => "recover" \in dirty
  BY Zenon DEF DaemonInv, BackupPhase, RecoveryPhase
<1>5. pc' \notin RecoveryPhase /\ pc' # "idle"
  BY Zenon DEF BackupPhase, RecoveryPhase
<1> QED
  BY <1>1, <1>2, <1>3, <1>4, <1>5, Zenon DEF DaemonInv

LEMMA AnsweredFacts ==
    ASSUME TypeOK, NEW b \in Backups, Answered(b)
    PROVE  /\ store'[b] = NoStore /\ \A a \in Backups \ {b} : store'[a] = store[a]
           /\ ~Active(b)'
<1>1. store \in [Backups -> StoreRequest] /\ store' = [store EXCEPT ![b] = NoStore]
  BY Zenon DEF Answered, TypeOK, StorageType
<1>2. store'[b] = NoStore /\ \A a \in Backups \ {b} : store'[a] = store[a]
  BY <1>1, Zenon
<1> QED
  BY <1>2, ConstantFacts DEF Active

\* A step of a backup goes on or leaves.
LEMMA BackupStepCases ==
    ASSUME TypeOK, NEW b \in Backups, BackupStep(b)
    PROVE  /\ pc \in BackupPhase /\ current = {b}
           /\ UNCHANGED <<zkVars, podVars, recover, recovered, leftover, faults>>
           /\ \/ Leave(b, Failed)
              \/ pc = "logs" /\ todo = {} /\ Leave(b, Finished(b))
              \/ /\ pc' \in {"select", "logs"} /\ UNCHANGED <<tmp, current, dirty>>
                 /\ \A a \in Backups : backups'[a].state = backups[a].state
                 /\ \A a \in Backups \ {b} : backups'[a] = backups[a]
<1>1. /\ pc \in BackupPhase /\ current = {b}
      /\ UNCHANGED <<zkVars, podVars, recover, recovered, leftover, faults>>
  BY Zenon DEF BackupStep, Answered, Select, StoreLog, BackupPhase
<1>2. backups \in [Backups -> Backup]
  BY Zenon DEF TypeOK, StorageType
<1>3. CASE Answered(b)
  <2>1. CASE Leave(b, Failed)
    BY <1>1, <2>1, Zenon
  <2>2. CASE /\ pc' = "select" /\ UNCHANGED <<tmp, current, dirty>>
             /\ backups' = [backups EXCEPT ![b].to = IF backups[b].instant THEN txns ELSE 0]
    BY <1>1, <1>2, <2>2, MomentFacts, Zenon
  <2> QED
    BY <1>3, <2>1, <2>2, Zenon DEF Answered
<1>4. CASE Select(b)
  <2>1. CASE Leave(b, Failed)
    BY <1>1, <2>1, Zenon
  <2>2. CASE \E f : /\ backups' = [backups EXCEPT ![b].files = {f}]
                    /\ pc' = "logs" /\ UNCHANGED <<tmp, current, dirty>>
    BY <1>1, <1>2, <2>2, ContentFacts, Zenon
  <2> QED
    BY <1>4, <2>1, <2>2, Zenon DEF Select
<1>5. CASE StoreLog(b)
  <2>1. CASE Leave(b, Failed)
    BY <1>1, <2>1, Zenon
  <2>2. CASE todo = {} /\ Leave(b, Finished(b))
    BY <1>1, <1>5, <2>2, Zenon DEF StoreLog
  <2>3. CASE \E f : /\ backups' = [backups EXCEPT ![b].files = @ \cup {f}]
                    /\ UNCHANGED <<tmp, pc, current, dirty>>
    BY <1>1, <1>2, <1>5, <2>3, ContentFacts, Zenon DEF StoreLog
  <2> QED
    BY <1>5, <2>1, <2>2, <2>3, StoreLogFacts, Zenon
<1> QED
  BY <1>3, <1>4, <1>5, Zenon DEF BackupStep

LEMMA BackupStepDaemon ==
    ASSUME TypeOK, DaemonInv, NEW b \in Backups, BackupStep(b)
    PROVE  DaemonInv'
<1>1. UNCHANGED <<recover, pod>> /\ pc \in BackupPhase /\ current = {b}
  BY BackupStepCases, Zenon DEF podVars
<1>2. /\ \A a \in Backups \ {b} : store'[a] = store[a]
      /\ Active(b)' => /\ pod[Leader] = "up" /\ store'[b].lost
                       /\ store'[b].phase \in {"remove", "mkdir"} => store'[b].done = {}
  <2>1. CASE Answered(b)
    BY <2>1, AnsweredFacts, Zenon
  <2>2. CASE Select(b) \/ StoreLog(b)
    <3>1. UNCHANGED store /\ pc # "wait"
      BY <2>2, Zenon DEF Select, StoreLog
    <3> QED
      BY <3>1, Zenon DEF DaemonInv, Active
  <2> QED
    BY <2>1, <2>2, Zenon DEF BackupStep
<1>3. CASE Leave(b, Failed)
  <2>1. Failed \in Backup /\ Failed.state # "running"
    BY FailedFacts
  <2> QED
    BY <1>1, <1>2, <1>3, <2>1, LeaveDaemon, Zenon
<1>4. CASE Leave(b, Finished(b))
  <2>1. Finished(b) \in Backup /\ Finished(b).state # "running"
    BY FinishedFacts
  <2> QED
    BY <1>1, <1>2, <1>4, <2>1, LeaveDaemon, Zenon
<1>5. CASE /\ pc' \in {"select", "logs"} /\ UNCHANGED <<tmp, current, dirty>>
           /\ \A a \in Backups : backups'[a].state = backups[a].state
  BY <1>1, <1>2, <1>5, GoesOnDaemon, Zenon DEF BackupPhase
<1> QED
  BY <1>3, <1>4, <1>5, BackupStepCases, Zenon

\* The daemon stops listening.
LEMMA UnheardDaemon ==
    ASSUME TypeOK, DaemonInv, NEW b \in Backups, store'[b] = Unheard(b)
    PROVE  Active(b)' => /\ pod[Leader] = "up" /\ store'[b].lost
                         /\ store'[b].phase \in {"remove", "mkdir"} => store'[b].done = {}
<1>1. store \in [Backups -> StoreRequest]
  BY Zenon DEF TypeOK, StorageType
<1>2. CASE Active(b)
  BY <1>1, <1>2, RequestFacts DEF DaemonInv
<1>3. CASE ~Active(b)
  BY <1>1, <1>3, RequestFacts, ConstantFacts DEF Active
<1> QED
  BY <1>2, <1>3, Zenon

LEMMA FaultDaemon ==
    ASSUME TypeOK, DaemonInv, NEW b \in Backups, LoseAnswer(b) \/ BackupFails(b)
    PROVE  DaemonInv'
<1>1. /\ store'[b] = Unheard(b) /\ \A a \in Backups \ {b} : store'[a] = store[a]
  BY UnheardFacts, Zenon
<1>2. Active(b)' => /\ pod[Leader] = "up" /\ store'[b].lost
                    /\ store'[b].phase \in {"remove", "mkdir"} => store'[b].done = {}
  BY <1>1, UnheardDaemon, Zenon
<1>3. CASE LoseAnswer(b)
  <2>1. /\ pc = "wait" /\ current = {b}
        /\ UNCHANGED <<pc, current, tmp, recover, dirty, pod, backups>>
    BY <1>3, Zenon DEF LoseAnswer, daemonVars, podVars
  <2> QED
    BY <1>1, <1>2, <2>1, GoesOnDaemon, Zenon DEF BackupPhase
<1>4. CASE BackupFails(b)
  <2>1. pc \in BackupPhase /\ current = {b} /\ UNCHANGED <<recover, pod>> /\ Leave(b, Failed)
    BY <1>4, Zenon DEF BackupFails, podVars
  <2>2. Failed \in Backup /\ Failed.state # "running"
    BY FailedFacts
  <2> QED
    BY <1>1, <1>2, <2>1, <2>2, LeaveDaemon, Zenon
<1> QED
  BY <1>3, <1>4, Zenon

\* Steps that change neither directory in use nor a backup.
LEMMA FrameDaemon ==
    ASSUME TypeOK, DaemonInv, UNCHANGED <<pc, current, tmp, recover, dirty>>,
           \A a \in Backups : backups'[a].state = backups[a].state,
           \/ UNCHANGED store /\ (pod[Leader] = "up" => pod'[Leader] = "up")
           \/ \A a \in Backups : ~Active(a)'
    PROVE  DaemonInv'
<1>1. \A a \in Backups : /\ Active(a)' => /\ pod'[Leader] = "up"
                                          /\ store'[a].lost \/ (pc = "wait" /\ current = {a})
                         /\ store'[a].phase \in {"remove", "mkdir"} => store'[a].done = {}
  <2>1. CASE UNCHANGED store /\ (pod[Leader] = "up" => pod'[Leader] = "up")
    BY <2>1, Zenon DEF DaemonInv, Active
  <2>2. CASE \A a \in Backups : ~Active(a)'
    BY <2>2 DEF Active
  <2> QED
    BY <2>1, <2>2, Zenon
<1> QED
  BY <1>1, Zenon DEF DaemonInv

LEMMA RecoveryDaemon ==
    ASSUME TypeOK, DaemonInv,
           \/ \E b \in Backups : StartRecovery(b)
           \/ CopyToRecover \/ ScaleDown \/ ScaleUp \/ RemoveRecover \/ RecoveryFails
    PROVE  DaemonInv'
<1>1. UNCHANGED <<tmp, backups>>
  BY Zenon DEF StartRecovery, CopyToRecover, ScaleDown, ScaleUp, RemoveRecover, RecoveryFails
<1>2. pc \notin BackupPhase /\ pc' \notin BackupPhase
  BY Zenon DEF StartRecovery, CopyToRecover, ScaleDown, ScaleUp, RemoveRecover, RecoveryFails,
     BackupPhase
<1>3. \/ UNCHANGED <<store, pod>>
      \/ \A a \in Backups : ~Active(a)'
  <2>1. CASE ScaleDown
    BY <2>1, AbortedFacts, Zenon DEF ScaleDown, TypeOK, StorageType, Active
  <2> QED
    BY <2>1, Zenon DEF StartRecovery, CopyToRecover, ScaleUp, RemoveRecover, RecoveryFails, podVars
<1>4. \A a \in Backups : /\ Active(a)' => pod'[Leader] = "up" /\ store'[a].lost
                         /\ store'[a].phase \in {"remove", "mkdir"} => store'[a].done = {}
  <2>1. CASE UNCHANGED <<store, pod>>
    BY <1>2, <2>1 DEF DaemonInv, Active, BackupPhase
  <2>2. CASE \A a \in Backups : ~Active(a)'
    BY <2>2 DEF Active
  <2> QED
    BY <1>3, <2>1, <2>2, Zenon
<1>5. \A a \in Backups : backups[a].state # "running"
  BY <1>2, Zenon DEF DaemonInv
<1>6. \/ /\ pc' = "idle" /\ current' = {} /\ recover' = {}
      \/ /\ pc' \in RecoveryPhase
         /\ \E b \in Backups : current' = {b} /\ backups[b].state = "done"
  <2>1. CASE \E b \in Backups : StartRecovery(b)
    BY <2>1, Zenon DEF StartRecovery, RecoveryPhase
  <2>2. CASE RemoveRecover /\ recover = {}
    BY <2>2, Zenon DEF RemoveRecover
  <2>3. CASE pc \in RecoveryPhase /\ pc' \in RecoveryPhase /\ current' = current
    BY <2>3, Zenon DEF DaemonInv, RecoveryPhase
  <2>4. \/ \E b \in Backups : StartRecovery(b)
        \/ RemoveRecover /\ recover = {}
        \/ pc \in RecoveryPhase /\ pc' \in RecoveryPhase /\ current' = current
    BY Zenon DEF CopyToRecover, ScaleDown, ScaleUp, RemoveRecover, RecoveryFails, RecoveryPhase
  <2> QED
    BY <2>1, <2>2, <2>3, <2>4, Zenon
<1>7. "tmp" \in dirty => "tmp" \in dirty'
  <2>1. dirty' \in {dirty, dirty \ {"recover"}}
    BY Zenon DEF StartRecovery, CopyToRecover, ScaleDown, ScaleUp, RemoveRecover, RecoveryFails
  <2> QED
    BY <2>1
<1>8. tmp.exists => "tmp" \in dirty'
  BY <1>2, <1>7, Zenon DEF DaemonInv
<1>9. \A a, b \in Backups : {a} = {b} => a = b
  OBVIOUS
<1> QED
  BY <1>1, <1>2, <1>4, <1>5, <1>6, <1>8, <1>9, Zenon DEF DaemonInv, BackupPhase, RecoveryPhase

LEMMA KillDaemon ==
    ASSUME TypeOK, DaemonInv, Kill
    PROVE  DaemonInv'
<1>1. pc' = "idle" /\ current' = {} /\ pc # "idle" /\ UNCHANGED <<pod, tmp, recover>>
  BY Zenon DEF Kill, podVars
<1>2. store \in [Backups -> StoreRequest] /\ backups \in [Backups -> Backup]
  BY Zenon DEF TypeOK, StorageType
<1>3. \A a \in Backups : backups'[a].state # "running"
  BY <1>2, KillFacts, FailedFacts
<1>4. ASSUME NEW a \in Backups
      PROVE  /\ Active(a)' => pod[Leader] = "up" /\ store'[a].lost
             /\ store'[a].phase \in {"remove", "mkdir"} => store'[a].done = {}
  <2>1. CASE a \in current
    <3>1. store'[a] = Unheard(a)
      BY <1>2, <2>1, KillFacts, Zenon
    <3> QED
      BY <3>1, UnheardDaemon DEF Active
  <2>2. CASE a \notin current
    <3>1. store'[a] = store[a]
      BY <1>2, <2>2, KillFacts, Zenon
    <3>2. current # {a}
      BY <2>2
    <3> QED
      BY <3>1, <3>2, Zenon DEF DaemonInv, Active
  <2> QED
    BY <2>1, <2>2, Zenon
<1>5. dirty' = dirty \cup (IF pc \in BackupPhase THEN {"tmp"} ELSE {"recover"})
  BY Zenon DEF Kill
<1>6. tmp.exists => "tmp" \in dirty'
  BY <1>5, Zenon DEF DaemonInv
<1>7. recover # {} => "recover" \in dirty'
  BY <1>5, Zenon DEF DaemonInv, BackupPhase, RecoveryPhase
<1> QED
  BY <1>1, <1>3, <1>4, <1>6, <1>7, Zenon DEF DaemonInv, BackupPhase, RecoveryPhase

LEMMA StepDaemon ==
    ASSUME TypeOK, DaemonInv, [Next]_vars
    PROVE  DaemonInv'
<1>1. CASE Append \/ FinishSnapshot \/ UNCHANGED vars
  BY <1>1, FrameDaemon, Zenon DEF Append, FinishSnapshot, vars, daemonVars, podVars
<1>2. CASE BeginSnapshot
  <2>1. UNCHANGED <<pc, current, tmp, recover, dirty, store, pod>>
    BY <1>2, Zenon DEF BeginSnapshot, daemonVars, podVars
  <2>2. \A a \in Backups :
           backups'[a] = IF pc = "wait" /\ current = {a} THEN Disturbed ELSE backups[a]
    BY <1>2, BeginSnapshotFacts, Zenon DEF TypeOK, StorageType
  <2>3. \A a \in Backups : backups'[a].state = backups[a].state
    BY <2>2, FailedFacts, Zenon DEF DaemonInv, BackupPhase
  <2> QED
    BY <2>1, <2>3, FrameDaemon, Zenon
<1>3. CASE \E s \in Servers : StartPod(s)
  <2>1. PICK s \in Servers : StartPod(s)
    BY <1>3, Zenon
  <2>2. UNCHANGED <<pc, current, tmp, recover, dirty, backups, store>>
    BY <2>1, Zenon DEF StartPod, daemonVars
  <2>3. pod[Leader] = "up" => pod'[Leader] = "up"
    BY <2>1, ServersAssumption, Zenon DEF StartPod, TypeOK, ZooKeeperType
  <2> QED
    BY <2>2, <2>3, FrameDaemon, Zenon
<1>4. CASE \E s \in Servers : RestartPod(s)
  <2>1. PICK s \in Servers : RestartPod(s)
    BY <1>4, Zenon
  <2>2. UNCHANGED <<pc, current, tmp, recover, dirty, backups, pod>>
    BY <2>1, Zenon DEF RestartPod, daemonVars
  <2>3. UNCHANGED store \/ \A a \in Backups : ~Active(a)'
    BY <2>1, AbortedFacts, Zenon DEF RestartPod, TypeOK, StorageType, Active
  <2> QED
    BY <2>2, <2>3, FrameDaemon, Zenon
<1> QED
  BY <1>1, <1>2, <1>3, <1>4, StoreDaemon, StartBackupDaemon, BackupStepDaemon, FaultDaemon,
     RecoveryDaemon, KillDaemon, Zenon
  DEF Next, DaemonStep

LEMMA InitDaemon ==
    ASSUME Init
    PROVE  DaemonInv
<1>1. /\ pc = "idle" /\ current = {} /\ recover = {} /\ ~tmp.exists
      /\ \A b \in Backups : backups[b] = NoBackup /\ store[b] = NoStore
  BY DEF Init
<1> QED
  BY <1>1, ConstantFacts DEF DaemonInv, BackupPhase, RecoveryPhase, Active

\* What the daemon leaves behind: backup.py and restore.py remove both temporary
\* directories on every way out.  One is left only by a daemon that is killed while it uses
\* it, by a request to /store that creates it after its daemon has stopped listening, and
\* by a removal that fails because such a request writes there; and the next run removes it.
THEOREM NothingLeft == Spec => []LeavesNothing
<1>1. DaemonInv => LeavesNothing
  BY DEF DaemonInv, LeavesNothing, BackupPhase, RecoveryPhase
<1> QED
  BY <1>1, InitType, InitDaemon, StepType, StepDaemon, PTL DEF Spec

(* The inductive invariant of the contents.                                *)

\* Files in one place have names of their own; a backup has files when it is done.
ContentInv ==
    /\ UniqueNames(tmp.files)
    /\ \A b \in Backups : /\ UniqueNames(backups[b].files)
                          /\ backups[b].state = "done" => backups[b].files # {}
    /\ \A b \in current : pc = "logs" => /\ backups[b].files # {}
                                         /\ Names(backups[b].files) \cap todo = {}

\* A recovery brings the files of its backup to the recovery directory and from there to
\* every server that starts.
RecoverInv ==
    /\ \A b \in current : ~leftover =>
          /\ pc = "copy" => recover \cup todo = backups[b].files
          /\ pc \in {"scaleDown", "scaleUp"} => recover = backups[b].files
          /\ pc = "scaleUp" => \A s \in Servers : pod[s] = "up" => data[s] = backups[b].files
          /\ pc = "remove" => \A s \in Servers \ disturbed : data[s] = backups[b].files
    /\ pc = "remove" => \A s \in Servers : pod[s] = "up"
    /\ recovered # {} => recover = {} /\ pc \notin RecoveryPhase
    /\ \A b \in recovered : backups[b].state = "done"
    /\ RecoveredEverywhere

\* The snapshot z and the logs gs, at most one, stand for the transactions up to one, at
\* most hi: at least lo, unless the log is cut, or there is none and the snapshot has lo.
Follows(z, gs, lo, hi) ==
    /\ z.first <= z.last /\ z.last <= hi
    /\ \A g, h \in gs : g = h
    /\ \A g \in gs : /\ g.first = z.first + 1 /\ z.first <= g.last /\ g.last <= hi
                     /\ \/ g.last + 1 \in UnknownTxns
                        \/ lo <= g.last /\ z.last <= g.last
    /\ gs = {} => lo <= z.last

\* The files, of which Select will choose, stand for such transactions.
Complete(fs, lo, hi) ==
    \E z \in Snapshot(fs) : /\ \A y \in Snapshot(fs) : y = z \/ y.time < z.time
                            /\ Follows(z, {g \in Log(fs) : g.time > z.time}, lo, hi)

\* A copy of fs that is under way, without a snapshot since its start: what ts has of it
\* when the last transaction is n, and that the transactions up to lo are in files that
\* it is yet to copy, or has copied.
Copying(fs, ts, n, due, done, lo) ==
    /\ done \subseteq Names(ts)
    /\ Names(Snapshot(fs)) \subseteq due
    /\ Snapshot(ts) \subseteq Snapshot(fs)
    /\ \A f \in Log(ts) : /\ f.first <= f.last /\ f.last <= n
                          /\ \E z \in Snapshot(fs) : f.first = z.first + 1
                          /\ \A z \in Snapshot(fs) : Ordered(f, z)
    /\ \/ \E z \in Snapshot(fs) : lo <= z.first
       \/ \E g \in Log(fs) : /\ lo <= g.last /\ Name(g) \in due
                             /\ \A f \in ts : Name(f) = Name(g) => lo <= f.last

\* The files of a backup, with the logs gs.
Stored(fs, gs, lo, hi) ==
    \E z \in fs : Snapshot(fs) = {z} /\ Follows(z, gs, lo, hi)

\* The logs of a backup, stored or still to be stored.
Pending(fs, ts, names) == Log(fs) \cup {g \in Log(ts) : Name(g) \in names}

RunningMoment(b) ==
    /\ \A a \in Backups : Active(a) => a = b /\ pc = "wait"
    /\ pc = "wait" => ~saving
    /\ backups[b].from <= txns
    /\ store[b].phase = "copy" =>
          Copying(files, tmp.files, txns, store[b].due, store[b].done, backups[b].from)
    /\ pc = "wait" /\ store[b].phase = "ok" => Complete(tmp.files, backups[b].from, txns)
    /\ pc = "select" => Complete(tmp.files, backups[b].from, backups[b].to)
    /\ pc = "logs" => Stored(backups[b].files, Pending(backups[b].files, tmp.files, todo),
                             backups[b].from, backups[b].to)

DoneMoment(k) == Stored(k.files, Log(k.files), k.from, k.to)

MomentInv ==
    \A b \in Backups :
       /\ backups[b].to <= MaxTxns
       /\ backups[b].state = "running" /\ backups[b].instant => RunningMoment(b)
       /\ backups[b].state = "done" /\ backups[b].instant => DoneMoment(backups[b])

-----------------------------------------------------------------------------
(* The contents of the directories.                                        *)

LEMMA StoreContent ==
    ASSUME TypeOK, UniqueNames(tmp.files), NEW r \in Backups, StoreStep(r) \/ StoreFails(r)
    PROVE  UniqueNames(tmp'.files)
<1>1. CASE UNCHANGED tmp
  BY <1>1, Zenon
<1>2. CASE \E e : tmp' = [exists |-> e, files |-> {}]
  BY <1>2 DEF UniqueNames
<1>3. CASE \E f \in files : tmp' = [tmp EXCEPT !.files = Put(f, @)]
  <2>1. PICK f \in files : tmp' = [tmp EXCEPT !.files = Put(f, @)]
    BY <1>3, Zenon
  <2>2. f \in File /\ tmp.files \in SUBSET File /\ tmp \in Directory
    BY DEF TypeOK, ZooKeeperType, StorageType, Directory
  <2>3. tmp'.files = Put(f, tmp.files)
    BY <2>1, <2>2, PutFacts, DirectoryFacts
  <2> QED
    BY <2>2, <2>3, PutFacts
<1> QED
  BY <1>1, <1>2, <1>3, Zenon DEF StoreStep, StoreFails, RemoveAll, Mkdir, Copy, Copied

LEMMA FrameContent ==
    ASSUME ContentInv, UniqueNames(tmp'.files), UNCHANGED <<pc, current, todo>>,
           \A b \in Backups : backups'[b] = backups[b],
           current \subseteq Backups
    PROVE  ContentInv'
BY Zenon DEF ContentInv

LEMMA RestContent ==
    ASSUME TypeOK, ContentInv, tmp'.files \subseteq tmp.files, pc' # "logs",
           \A b \in Backups : backups'[b] = backups[b] \/ backups'[b] \in {Failed, Disturbed}
    PROVE  ContentInv'
<1>1. /\ UniqueNames(Failed.files) /\ Failed.state # "done"
      /\ UniqueNames(Disturbed.files) /\ Disturbed.state # "done"
  BY FailedFacts DEF UniqueNames
<1>2. UniqueNames(tmp'.files)
  BY Zenon DEF ContentInv, UniqueNames
<1> QED
  BY <1>1, <1>2, Zenon DEF ContentInv

LEMMA BackupStepContent ==
    ASSUME TypeOK, DaemonInv, ContentInv, NEW b \in Backups, BackupStep(b)
    PROVE  ContentInv'
<1>1. /\ current = {b} /\ pc \in BackupPhase /\ backups[b].state = "running"
      /\ backups \in [Backups -> Backup]
  BY DEF BackupStep, Answered, Select, StoreLog, BackupPhase, DaemonInv, TypeOK, StorageType
<1>2. CASE Leave(b, Failed)
  <2>1. /\ pc' # "logs" /\ tmp'.files \subseteq tmp.files
        /\ \A a \in Backups : backups'[a] = backups[a] \/ backups'[a] = Failed
    BY <1>2, FailedFacts, LeaveFacts
  <2> QED
    BY <2>1, RestContent, Zenon
<1>3. CASE pc = "logs" /\ Leave(b, Finished(b))
  <2>1. /\ pc' = "idle" /\ tmp'.files \subseteq tmp.files
        /\ \A a \in Backups \ {b} : backups'[a] = backups[a]
        /\ backups'[b] \in {Finished(b), Failed} /\ Finished(b).files = backups[b].files
    BY <1>3, FinishedFacts, LeaveFacts, Zenon
  <2>2. backups[b].files # {} /\ UniqueNames(backups[b].files)
    BY <1>1, <1>3, Zenon DEF ContentInv
  <2>3. UniqueNames(Failed.files) /\ Failed.state # "done"
    BY FailedFacts DEF UniqueNames
  <2>4. \A a \in Backups : /\ UniqueNames(backups'[a].files)
                           /\ backups'[a].state = "done" => backups'[a].files # {}
    BY <2>1, <2>2, <2>3, Zenon DEF ContentInv
  <2>5. UniqueNames(tmp'.files) /\ pc' # "logs"
    BY <2>1, Zenon DEF ContentInv, UniqueNames
  <2> QED
    BY <2>4, <2>5, Zenon DEF ContentInv
<1>4. CASE Answered(b) /\ ~Leave(b, Failed)
  <2>1. /\ pc' = "select" /\ UNCHANGED <<tmp, current, todo>>
        /\ backups' = [backups EXCEPT ![b].to = IF backups[b].instant THEN txns ELSE 0]
    BY <1>4, Zenon DEF Answered
  <2>2. \A a \in Backups : /\ backups'[a].state = backups[a].state
                           /\ backups'[a].files = backups[a].files
    BY <1>1, <2>1, MomentFacts, Zenon
  <2> QED
    BY <2>1, <2>2, Zenon DEF ContentInv
<1>5. CASE Select(b) /\ ~Leave(b, Failed)
  <2>1. PICK f \in Snapshot(tmp.files) :
              /\ backups' = [backups EXCEPT ![b].files = {Undated(f)}]
              /\ todo' = Names({g \in Log(tmp.files) : g.time > f.time})
              /\ pc' = "logs" /\ UNCHANGED <<tmp, current>>
    BY <1>5, Zenon DEF Select, Undated
  <2>2. /\ \A a \in Backups \ {b} : backups'[a] = backups[a]
        /\ backups'[b].state = "running" /\ backups'[b].files = {Undated(f)}
    BY <1>1, <2>1, ContentFacts, Zenon
  <2>3. UniqueNames({Undated(f)})
    BY DEF UniqueNames
  <2>4. Names({Undated(f)}) \cap todo' = {}
    <3>1. \A g \in Log(tmp.files) : Name(g) # Name(f)
      BY FilesFacts, NameFacts, Zenon DEF Snapshot, Log
    <3>2. Name(Undated(f)) = Name(f)
      BY FilesFacts, UndatedFacts, Zenon
    <3> QED
      BY <2>1, <3>1, <3>2, Zenon DEF Names
  <2>5. current' = {b} /\ pc' = "logs" /\ tmp' = tmp
    BY <1>1, <2>1, Zenon
  <2> QED
    BY <2>2, <2>3, <2>4, <2>5, Zenon DEF ContentInv
<1>6. CASE /\ pc = "logs"
           /\ \E f \in Log(tmp.files), n \in Nat :
                 /\ Name(f) \in todo /\ todo' = todo \ {Name(f)}
                 /\ backups' = [backups EXCEPT ![b].files = @ \cup {Grown(f, n, 0)}]
                 /\ UNCHANGED <<tmp, pc, current>>
  <2>1. PICK f \in Log(tmp.files), n \in Nat :
                 /\ Name(f) \in todo /\ todo' = todo \ {Name(f)}
                 /\ backups' = [backups EXCEPT ![b].files = @ \cup {Grown(f, n, 0)}]
    BY <1>6, Zenon
  <2>2. /\ \A a \in Backups \ {b} : backups'[a] = backups[a]
        /\ backups'[b].state = "running"
        /\ backups'[b].files = backups[b].files \cup {Grown(f, n, 0)}
    BY <1>1, <2>1, ContentFacts, Zenon
  <2>3. UniqueNames(backups[b].files) /\ Names(backups[b].files) \cap todo = {}
    BY <1>1, <1>6, Zenon DEF ContentInv
  <2>4. Name(Grown(f, n, 0)) = Name(f)
    BY FilesFacts, GrownFacts, Zenon
  <2>5. \A g \in backups[b].files : Name(g) # Name(f)
    BY <2>1, <2>3, Zenon DEF Names
  <2>6. UniqueNames(backups'[b].files)
    BY <2>2, <2>3, <2>4, <2>5, Zenon DEF UniqueNames
  <2>7. Names(backups'[b].files) \cap todo' = {}
    BY <2>1, <2>2, <2>3, <2>4, Zenon DEF Names
  <2>8. current' = {b} /\ tmp' = tmp
    BY <1>1, <1>6, Zenon
  <2> QED
    BY <2>2, <2>6, <2>7, <2>8, Zenon DEF ContentInv
<1>7. StoreLog(b) => pc = "logs"
  BY Zenon DEF StoreLog
<1> QED
  BY <1>2, <1>3, <1>4, <1>5, <1>6, <1>7, StoreLogFacts, ZenonT(30) DEF BackupStep

LEMMA StepContent ==
    ASSUME TypeOK, DaemonInv, ContentInv, [Next]_vars
    PROVE  ContentInv'
<1> USE DEF daemonVars
<1>1. CASE \/ Append \/ FinishSnapshot \/ UNCHANGED vars
           \/ \E s \in Servers : StartPod(s) \/ RestartPod(s)
           \/ \E b \in Backups : LoseAnswer(b)
  <2>1. UNCHANGED <<tmp, backups, pc, current, todo>>
    BY <1>1, Zenon DEF Append, FinishSnapshot, StartPod, RestartPod, LoseAnswer, vars
  <2> QED
    BY <2>1, Zenon DEF ContentInv
<1>2. CASE BeginSnapshot
  <2>1. UNCHANGED <<tmp, pc, current, todo>> /\ current \subseteq Backups
    BY <1>2, Zenon DEF BeginSnapshot, TypeOK, DaemonType
  <2>2. \A b \in Backups :
           backups'[b] = IF pc = "wait" /\ current = {b} THEN Disturbed ELSE backups[b]
    BY <1>2, BeginSnapshotFacts, Zenon DEF TypeOK, StorageType
  <2>3. CASE pc = "wait"
    BY <2>1, <2>2, <2>3, RestContent
  <2>4. CASE pc # "wait"
    <3>1. UniqueNames(tmp'.files)
      BY <2>1, Zenon DEF ContentInv
    <3> QED
      BY <2>1, <2>2, <2>4, <3>1, FrameContent, Zenon
  <2> QED
    BY <2>3, <2>4, Zenon
<1>3. CASE \E r \in Backups : StoreStep(r) \/ StoreFails(r)
  <2>1. PICK r \in Backups : StoreStep(r) \/ StoreFails(r)
    BY <1>3, Zenon
  <2>2. UNCHANGED <<backups, pc, current, todo>>
    BY <2>1, StoreFacts, Zenon DEF storeVars
  <2>3. UniqueNames(tmp'.files) /\ current \subseteq Backups
    BY <2>1, StoreContent, Zenon DEF ContentInv, TypeOK, DaemonType
  <2> QED
    BY <2>2, <2>3, FrameContent, Zenon
<1>4. CASE \E b \in Backups : StartBackup(b)
  <2>1. PICK b \in Backups : StartBackup(b)
    BY <1>4, Zenon
  <2>2. /\ \A a \in Backups \ {b} : backups'[a] = backups[a]
        /\ backups'[b].state = "running" /\ backups'[b].files = {}
        /\ tmp'.files = tmp.files
    BY <2>1, StartBackupFacts, Zenon
  <2>3. pc' = "wait"
    BY <2>1, Zenon DEF StartBackup
  <2>4. UniqueNames({})
    BY Zenon DEF UniqueNames
  <2> QED
    BY <2>2, <2>3, <2>4, Zenon DEF ContentInv
<1>5. CASE Kill
  <2>1. \A b \in Backups : backups'[b] = backups[b] \/ backups'[b] = Failed
    BY <1>5, KillFacts, Zenon DEF TypeOK, StorageType
  <2>2. tmp'.files \subseteq tmp.files /\ pc' # "logs"
    BY <1>5, Zenon DEF Kill
  <2> QED
    BY <2>1, <2>2, RestContent, Zenon
<1>6. CASE \/ \E b \in Backups : StartRecovery(b)
           \/ CopyToRecover \/ ScaleDown \/ ScaleUp \/ RemoveRecover \/ RecoveryFails
  <2>1. UNCHANGED <<tmp, backups>> /\ pc' # "logs"
    BY <1>6, Zenon DEF StartRecovery, CopyToRecover, ScaleDown, ScaleUp, RemoveRecover,
                        RecoveryFails
  <2> QED
    BY <2>1, RestContent, Zenon
<1>7. CASE \E b \in Backups : BackupFails(b)
  <2>1. PICK b \in Backups : Leave(b, Failed)
    BY <1>7, Zenon DEF BackupFails
  <2>2. /\ pc' # "logs" /\ tmp'.files \subseteq tmp.files
        /\ \A a \in Backups : backups'[a] = backups[a] \/ backups'[a] = Failed
    BY <2>1, FailedFacts, LeaveFacts
  <2> QED
    BY <2>2, RestContent, Zenon
<1> QED
  BY <1>1, <1>2, <1>3, <1>4, <1>5, <1>6, <1>7, BackupStepContent, Zenon DEF Next, DaemonStep

LEMMA InitContent ==
    ASSUME Init
    PROVE  ContentInv
BY ConstantFacts, Zenon DEF Init, ContentInv, UniqueNames

-----------------------------------------------------------------------------
(* What a recovery brings to the servers.                                  *)

LEMMA RestRecover ==
    ASSUME TypeOK, RecoverInv, pc' \notin RecoveryPhase,
           UNCHANGED <<recover, recovered, leftover, data, disturbed>>,
           \A b \in Backups :
              backups[b].state = "done" =>
                 backups'[b].state = "done" /\ backups'[b].files = backups[b].files
    PROVE  RecoverInv'
<1>1. recovered \subseteq Backups
  BY Zenon DEF TypeOK, DaemonType
<1> QED
  BY <1>1 DEF RecoverInv, RecoveredEverywhere, RecoveryPhase

LEMMA FrameRecover ==
    ASSUME TypeOK, RecoverInv,
           UNCHANGED <<pc, current, todo, recover, recovered, leftover, podVars>>,
           \A b \in Backups : /\ backups'[b].files = backups[b].files
                              /\ backups'[b].state = backups[b].state
    PROVE  RecoverInv'
<1>1. recovered \subseteq Backups /\ current \subseteq Backups
  BY Zenon DEF TypeOK, DaemonType
<1> QED
  BY <1>1 DEF RecoverInv, RecoveredEverywhere, podVars

LEMMA CopyRecover ==
    ASSUME TypeOK, DaemonInv, ContentInv, RecoverInv, CopyToRecover
    PROVE  RecoverInv'
<1>1. PICK b \in Backups : current = {b}
  BY Zenon DEF CopyToRecover, DaemonInv
<1>2. /\ UNCHANGED <<current, backups, leftover, recovered, pod, data, disturbed>>
      /\ pc = "copy" /\ pc' \in {"copy", "scaleDown"} /\ recovered = {}
  BY Zenon DEF CopyToRecover, podVars, RecoverInv, RecoveryPhase
<1>3. ASSUME ~leftover
      PROVE  /\ pc' = "copy" => recover' \cup todo' = backups[b].files
             /\ pc' = "scaleDown" => recover' = backups[b].files
  <2>1. /\ recover \cup todo = backups[b].files /\ UniqueNames(backups[b].files)
        /\ recover \in SUBSET File /\ todo \in SUBSET File
    BY <1>1, <1>2, <1>3, Zenon DEF RecoverInv, ContentInv, TypeOK, StorageType, DaemonType
  <2>2. ASSUME NEW f \in todo, recover' = Put(f, recover), todo' = todo \ {f}, pc' = pc
        PROVE  recover' \cup todo' = backups[b].files /\ pc' = "copy"
    <3>1. recover' = recover \cup {f}
      BY <2>1, <2>2, PutFacts
    <3> QED
      BY <1>2, <2>1, <2>2, <3>1, Zenon
  <2> QED
    BY <2>1, <2>2, Zenon DEF CopyToRecover
<1> QED
  BY <1>1, <1>2, <1>3, Zenon DEF RecoverInv, RecoveredEverywhere

LEMMA RemoveRecovered ==
    ASSUME TypeOK, DaemonInv, RecoverInv, RemoveRecover
    PROVE  RecoverInv'
<1>1. PICK b \in Backups : current = {b}
  BY Zenon DEF RemoveRecover, DaemonInv
<1>2. /\ UNCHANGED <<backups, leftover, pod, data, disturbed>>
      /\ pc \in {"remove", "abandon"} /\ recovered = {} /\ backups[b].state = "done"
  BY <1>1, Zenon DEF RemoveRecover, podVars, RecoverInv, RecoveryPhase, DaemonInv
<1>3. CASE UNCHANGED <<pc, current, recovered>>
  BY <1>2, <1>3 DEF RecoverInv, RecoveredEverywhere
<1>4. CASE /\ recover' = {} /\ pc' = "idle" /\ current' = {}
           /\ recovered' = IF pc = "remove" THEN current ELSE {}
  BY <1>1, <1>2, <1>4 DEF RecoverInv, RecoveredEverywhere, RecoveryPhase
<1> QED
  BY <1>3, <1>4, Zenon DEF RemoveRecover

LEMMA RecoveryRecover ==
    ASSUME TypeOK, DaemonInv, ContentInv, RecoverInv,
           \/ \E b \in Backups : StartRecovery(b)
           \/ CopyToRecover \/ ScaleDown \/ ScaleUp \/ RemoveRecover \/ RecoveryFails
    PROVE  RecoverInv'
<1>1. CASE \E b \in Backups : StartRecovery(b)
  BY <1>1, Zenon DEF StartRecovery, RecoverInv, RecoveredEverywhere
<1>2. CASE ScaleDown
  <2>1. /\ UNCHANGED <<current, backups, leftover, recovered, recover>>
        /\ pc = "scaleDown" /\ pc' = "scaleUp" /\ recovered = {}
        /\ \A s \in Servers : pod'[s] = "down"
    BY <1>2, Zenon DEF ScaleDown, RecoverInv, RecoveryPhase
  <2> QED
    BY <2>1, Zenon DEF RecoverInv, RecoveredEverywhere
<1>3. CASE ScaleUp
  <2>1. /\ UNCHANGED <<current, backups, leftover, recovered, recover, pod, data, disturbed>>
        /\ pc = "scaleUp" /\ pc' = "remove" /\ recovered = {}
        /\ \A s \in Servers : pod[s] = "up"
    BY <1>3, Zenon DEF ScaleUp, RecoverInv, RecoveryPhase, podVars
  <2> QED
    BY <2>1 DEF RecoverInv, RecoveredEverywhere
<1>4. CASE RecoveryFails
  <2>1. /\ UNCHANGED recovered /\ pc' = "abandon" /\ recovered = {}
    BY <1>4, Zenon DEF RecoveryFails, RecoverInv, RecoveryPhase
  <2> QED
    BY <2>1, Zenon DEF RecoverInv, RecoveredEverywhere
<1> QED
  BY <1>1, <1>2, <1>3, <1>4, CopyRecover, RemoveRecovered, Zenon

\* A server that starts takes the files of the backup while the recovery waits for it.
LEMMA PodRecover ==
    ASSUME TypeOK, DaemonInv, ContentInv, RecoverInv, NEW s \in Servers,
           StartPod(s) \/ RestartPod(s)
    PROVE  RecoverInv'
<1>1. /\ UNCHANGED <<pc, current, todo, recover, backups, recovered, leftover>>
      /\ Entrypoint(s)
  BY Zenon DEF StartPod, RestartPod, daemonVars
<1>2. /\ \A t \in Servers \ {s} : data'[t] = data[t]
      /\ data'[s] = IF recover = {} THEN data[s] ELSE recover
  BY <1>1, EntrypointFacts, Zenon
<1>3. /\ \A t \in Servers \ {s} : pod'[t] = pod[t]
      /\ pod'[s] = "up"
      /\ disturbed \subseteq disturbed'
      /\ pc = "remove" => s \in disturbed'
  BY Zenon DEF StartPod, RestartPod, TypeOK, ZooKeeperType, RecoverInv
<1>4. ASSUME NEW b \in current, ~leftover
      PROVE  /\ pc = "scaleUp" =>
                   \A t \in Servers : pod'[t] = "up" => data'[t] = backups[b].files
             /\ pc = "remove" => \A t \in Servers \ disturbed' : data'[t] = backups[b].files
  <2>1. pc = "scaleUp" => recover = backups[b].files /\ backups[b].files # {}
    <3>1. SUFFICES ASSUME pc = "scaleUp"
                   PROVE  recover = backups[b].files /\ backups[b].files # {}
      BY Zenon
    <3>2. recover = backups[b].files
      BY <1>4, <3>1, Zenon DEF RecoverInv
    <3>3. b \in Backups /\ backups[b].state = "done"
      BY <1>4, <3>1, Zenon DEF DaemonInv, RecoveryPhase
    <3> QED
      BY <3>2, <3>3, Zenon DEF ContentInv
  <2> QED
    BY <1>2, <1>3, <1>4, <2>1 DEF RecoverInv
<1>5. pc = "remove" => \A t \in Servers : pod'[t] = "up"
  BY <1>3, Zenon DEF RecoverInv
<1>6. RecoveredEverywhere'
  <2>1. SUFFICES ASSUME NEW b \in recovered, ~leftover, NEW t \in Servers \ disturbed'
                 PROVE  data'[t] = backups[b].files
    BY <1>1, Zenon DEF RecoveredEverywhere
  <2>2. recover = {} /\ data[t] = backups[b].files
    BY <1>3, <2>1, Zenon DEF RecoverInv, RecoveredEverywhere
  <2>3. data'[t] = data[t]
    BY <1>2, <2>1, <2>2, Zenon
  <2> QED
    BY <2>2, <2>3, Zenon
<1> QED
  BY <1>1, <1>4, <1>5, <1>6 DEF RecoverInv

LEMMA StepRecover ==
    ASSUME TypeOK, DaemonInv, ContentInv, RecoverInv, [Next]_vars
    PROVE  RecoverInv'
<1> USE DEF daemonVars
<1>1. CASE \/ Append \/ FinishSnapshot \/ UNCHANGED vars
           \/ \E r \in Backups : StoreStep(r) \/ StoreFails(r)
           \/ \E r \in Backups : LoseAnswer(r)
  <2>1. UNCHANGED <<backups, pc, current, todo, recover, recovered, leftover, podVars>>
    BY <1>1, StoreFacts, Zenon DEF Append, FinishSnapshot, LoseAnswer, vars, storeVars, podVars
  <2> QED
    BY <2>1, FrameRecover, Zenon
<1>2. CASE BeginSnapshot
  <2>1. UNCHANGED <<pc, current, todo, recover, recovered, leftover, podVars>>
    BY <1>2, Zenon DEF BeginSnapshot
  <2>2. \A b \in Backups :
           backups'[b] = IF pc = "wait" /\ current = {b} THEN Disturbed ELSE backups[b]
    BY <1>2, BeginSnapshotFacts, Zenon DEF TypeOK, StorageType
  <2>3. CASE pc = "wait"
    <3>1. \A b \in Backups : backups[b].state = "done" => backups'[b] = backups[b]
      BY <2>2, <2>3 DEF DaemonInv, BackupPhase
    <3>2. pc' \notin RecoveryPhase /\ UNCHANGED <<data, disturbed>>
      BY <2>1, <2>3, Zenon DEF RecoveryPhase, podVars
    <3> QED
      BY <2>1, <3>1, <3>2, RestRecover, Zenon
  <2>4. CASE pc # "wait"
    BY <2>1, <2>2, <2>4, FrameRecover, Zenon
  <2> QED
    BY <2>3, <2>4, Zenon
<1>3. CASE \E b \in Backups : StartBackup(b)
  <2>1. PICK b \in Backups : StartBackup(b)
    BY <1>3, Zenon
  <2>2. /\ \A a \in Backups \ {b} : backups'[a] = backups[a]
        /\ backups[b].state = "none"
    BY <2>1, StartBackupFacts, Zenon DEF StartBackup
  <2>3. pc' \notin RecoveryPhase /\ UNCHANGED <<recover, recovered, leftover, data, disturbed>>
    BY <2>1, Zenon DEF StartBackup, RecoveryPhase, podVars
  <2> QED
    BY <2>2, <2>3, RestRecover, Zenon
<1>4. CASE \E b \in Backups : BackupStep(b) \/ BackupFails(b)
  <2>1. PICK b \in Backups : BackupStep(b) \/ BackupFails(b)
    BY <1>4, Zenon
  <2>2. /\ pc' \notin RecoveryPhase /\ UNCHANGED <<recover, recovered, leftover, data, disturbed>>
        /\ pc \in BackupPhase /\ current = {b}
    BY <2>1, Zenon DEF BackupStep, Answered, Select, StoreLog, BackupFails, Leave, RecoveryPhase,
       BackupPhase, podVars
  <2>3. backups[b].state # "done"
    BY <2>2 DEF DaemonInv
  <2>4. \A a \in Backups \ {b} : backups'[a] = backups[a]
    <3>1. backups \in [Backups -> Backup]
      BY Zenon DEF TypeOK, StorageType
    <3>2. \E new : backups' = [backups EXCEPT ![b] = new]
      BY <2>1, Zenon DEF BackupStep, Answered, Select, StoreLog, BackupFails, Leave, SetBackup
    <3> QED
      BY <3>1, <3>2, Zenon
  <2> QED
    BY <2>2, <2>3, <2>4, RestRecover, Zenon
<1>5. CASE Kill
  <2>1. \A b \in Backups : backups[b].state = "done" =>
           backups'[b].state = "done" /\ backups'[b].files = backups[b].files
    BY <1>5, KillFacts, Zenon DEF TypeOK, StorageType
  <2>2. pc' \notin RecoveryPhase /\ UNCHANGED <<recover, recovered, leftover, data, disturbed>>
    BY <1>5, Zenon DEF Kill, RecoveryPhase, podVars
  <2> QED
    BY <2>1, <2>2, RestRecover, Zenon
<1> QED
  BY <1>1, <1>2, <1>3, <1>4, <1>5, RecoveryRecover, PodRecover, Zenon DEF Next, DaemonStep

LEMMA InitRecover ==
    ASSUME Init
    PROVE  RecoverInv
BY DEF Init, RecoverInv, RecoveredEverywhere

\* After a successful recovery every server that did not restart during the removal has
\* exactly the files of the backup (restore.py, docker-entrypoint.sh), in whatever order
\* pods restarted, steps failed and daemons were killed.
THEOREM FilesRecovered == Spec => []RecoveredEverywhere
<1>1. Init => TypeOK /\ DaemonInv /\ ContentInv /\ RecoverInv
  BY InitType, InitDaemon, InitContent, InitRecover, Zenon
<1>2. TypeOK /\ DaemonInv /\ ContentInv /\ RecoverInv /\ [Next]_vars =>
         TypeOK' /\ DaemonInv' /\ ContentInv' /\ RecoverInv'
  BY StepType, StepDaemon, StepContent, StepRecover, Zenon
<1>3. RecoverInv => RecoveredEverywhere
  BY Zenon DEF RecoverInv
<1> QED
  BY <1>1, <1>2, <1>3, PTL DEF Spec

-----------------------------------------------------------------------------
(* A copy of the files, from its start to its end.                         *)

LEMMA CopyingStarts ==
    ASSUME TypeOK, FilesInv, NEW lo \in Nat, lo <= txns
    PROVE  Copying(files, {}, txns, Names(files), {}, lo)
<1>1. Snapshot({}) = {} /\ Log({}) = {} /\ Names(Snapshot(files)) \subseteq Names(files)
  BY Zenon DEF Snapshot, Log, Names
<1>2. PICK z \in Snapshot(files) : Newest(z)
  BY Zenon DEF FilesInv
<1>3. CASE rolled
  BY <1>1, <1>2, <1>3, Zenon DEF Copying, Newest
<1>4. CASE ~rolled
  <2>1. PICK g \in Log(files) : g.last = txns
    BY <1>2, <1>4, Zenon DEF Newest
  <2>2. Name(g) \in Names(files)
    BY Zenon DEF Log, Names
  <2> QED
    BY <1>1, <2>1, <2>2, Zenon DEF Copying
<1> QED
  BY <1>3, <1>4, Zenon

LEMMA CopyingGoesOn ==
    ASSUME TypeOK, FilesInv, NEW ts \in SUBSET File, NEW f \in files, NEW due, NEW done, NEW lo,
           Copying(files, ts, txns, due, done, lo)
    PROVE  Copying(files, Put(f, ts), txns, due, done \cup {Name(f)}, lo)
<1>1. /\ f \in File /\ Put(f, ts) \subseteq File
      /\ \A g \in Put(f, ts) : g = f \/ g \in ts
      /\ Names(ts) \cup {Name(f)} \subseteq Names(Put(f, ts))
  BY PutFacts, Zenon DEF TypeOK, ZooKeeperType
<1>2. done \cup {Name(f)} \subseteq Names(Put(f, ts))
  BY <1>1, Zenon DEF Copying
<1>3. Snapshot(Put(f, ts)) \subseteq Snapshot(files)
  BY <1>1, Zenon DEF Copying, Snapshot
<1>4. ASSUME NEW g \in Log(Put(f, ts))
      PROVE  /\ g.first <= g.last /\ g.last <= txns
             /\ \E z \in Snapshot(files) : g.first = z.first + 1
             /\ \A z \in Snapshot(files) : Ordered(g, z)
  <2>1. g \in Log(ts) \/ g \in Log(files)
    BY <1>1, Zenon DEF Log
  <2>2. CASE g \in Log(ts)
    BY <2>2, Zenon DEF Copying
  <2>3. CASE g \in Log(files)
    BY <2>3, Zenon DEF FilesInv
  <2> QED
    BY <2>1, <2>2, <2>3, Zenon
<1>5. ASSUME NEW g \in Log(files), \A h \in ts : Name(h) = Name(g) => lo <= h.last, lo <= g.last
      PROVE  \A h \in Put(f, ts) : Name(h) = Name(g) => lo <= h.last
  <2>1. UniqueNames(files)
    BY UniqueFacts, Zenon DEF FilesInv, TypeOK, ZooKeeperType
  <2>2. Name(f) = Name(g) => f = g
    BY <2>1, Zenon DEF UniqueNames, Log
  <2> QED
    BY <1>1, <1>5, <2>2, Zenon
<1> QED
  BY <1>2, <1>3, <1>4, <1>5, Zenon DEF Copying

LEMMA CopyingAppend ==
    ASSUME TypeOK, FilesInv, Append, NEW ts \in SUBSET File, NEW due, NEW done, NEW lo \in Nat,
           Copying(files, ts, txns, due, done, lo)
    PROVE  Copying(files', ts, txns', due, done, lo)
<1>1. Snapshot(files') = Snapshot(files) /\ txns' = txns + 1 /\ txns \in Nat
  BY AppendFacts, Zenon DEF Append, TypeOK, ZooKeeperType
<1>2. \A f \in Log(ts) : f.first <= f.last /\ f.last <= txns'
  <2>1. \A f \in Log(ts) : f.last \in Nat
    BY KindFacts, Zenon DEF Log
  <2> QED
    BY <1>1, <2>1 DEF Copying
<1>3. ASSUME NEW g \in Log(files), lo <= g.last, Name(g) \in due,
             \A f \in ts : Name(f) = Name(g) => lo <= f.last
      PROVE  \E h \in Log(files') : /\ lo <= h.last /\ Name(h) \in due
                                    /\ \A f \in ts : Name(f) = Name(h) => lo <= f.last
  <2>1. CASE rolled
    BY <1>3, <2>1, AppendFacts, Zenon
  <2>2. CASE ~rolled
    <3>1. PICK h \in Log(files') : /\ h.first = g.first
                                   /\ IF g.last = txns THEN h.last = txns + 1 ELSE h = g
      BY <2>2, AppendFacts, Zenon
    <3>2. Name(h) = Name(g)
      BY <3>1, Zenon DEF Name, Log
    <3>3. lo <= h.last
      BY <1>1, <1>3, <3>1
    <3> QED
      BY <1>3, <3>2, <3>3, Zenon
  <2> QED
    BY <2>1, <2>2, Zenon
<1>4. \/ \E z \in Snapshot(files') : lo <= z.first
      \/ \E h \in Log(files') : /\ lo <= h.last /\ Name(h) \in due
                                /\ \A f \in ts : Name(f) = Name(h) => lo <= f.last
  BY <1>1, <1>3, Zenon DEF Copying
<1> QED
  BY <1>1, <1>2, <1>4, Zenon DEF Copying

LEMMA CopyingEnds ==
    ASSUME TypeOK, FilesInv, NEW ts \in SUBSET File, UniqueNames(ts), NEW due, NEW done,
           NEW lo \in Nat, due \subseteq done, Copying(files, ts, txns, due, done, lo)
    PROVE  Complete(ts, lo, txns)
<1>1. /\ txns \in Nat
      /\ \A f \in Snapshot(files) \cup Log(files) \cup ts :
            f \in File /\ f.first \in Nat /\ f.last \in Nat /\ f.time \in Nat
  BY FilesFacts, NameFacts, Zenon DEF TypeOK, ZooKeeperType
<1>2. PICK z \in Snapshot(files) : Newest(z)
  BY Zenon DEF FilesInv
<1>3. \A y \in Snapshot(files) : y = z \/ (y.first < z.first /\ y.time < z.time)
  BY <1>2, Zenon DEF Newest
<1>4. \A f \in File : Name(f) \in due => \E g \in ts : g.kind = f.kind /\ g.first = f.first
  <2>1. SUFFICES ASSUME NEW f \in File, Name(f) \in due
                 PROVE  \E g \in ts : g.kind = f.kind /\ g.first = f.first
    BY Zenon
  <2>2. Name(f) \in Names(ts)
    BY <2>1, Zenon DEF Copying
  <2>3. PICK g \in ts : Name(g) = Name(f)
    BY <2>2, Zenon DEF Names
  <2> QED
    BY <1>1, <2>3, NameFacts, Zenon
<1>5. z \in Snapshot(ts)
  <2>1. Name(z) \in due
    BY Zenon DEF Copying, Names
  <2>2. PICK y \in ts : y.kind = z.kind /\ y.first = z.first
    BY <1>1, <1>4, <2>1, Zenon
  <2>3. y \in Snapshot(ts) /\ y \in Snapshot(files)
    BY <2>2, Zenon DEF Snapshot, Copying
  <2> QED
    BY <2>2, <2>3, Zenon DEF FilesInv
<1>6. \A y \in Snapshot(ts) : y = z \/ y.time < z.time
  BY <1>3, Zenon DEF Copying
<1>7. z.first <= z.last /\ z.last <= txns
  BY Zenon DEF FilesInv
<1> DEFINE gs == {g \in Log(ts) : g.time > z.time}
<1>8. \A g \in gs : /\ g.first = z.first + 1 /\ z.first <= g.last /\ g.last <= txns
                    /\ z.last <= g.last
  <2>1. SUFFICES ASSUME NEW g \in gs
                 PROVE  /\ g.first = z.first + 1 /\ z.first <= g.last /\ g.last <= txns
                        /\ z.last <= g.last
    BY Zenon
  <2>2. g \in Log(ts) /\ g.time > z.time /\ g.first \in Nat /\ g.last \in Nat
    BY <1>1, Zenon DEF Log
  <2>3. g.last <= txns /\ (g.first <= z.first => g.last <= z.first) /\ g.last > z.last
    BY <2>2, Zenon DEF Copying, Ordered
  <2>4. PICK y \in Snapshot(files) : g.first = y.first + 1
    BY <2>2, Zenon DEF Copying
  <2>5. /\ z.first \in Nat /\ z.last \in Nat /\ y.first \in Nat
        /\ y = z \/ y.first < z.first
    BY <1>1, <1>3, Zenon
  <2>6. y.first < z.first => g.first <= z.first
    BY <2>4, <2>5
  <2>7. ~(g.last <= z.first) /\ z.first <= g.last /\ z.last <= g.last
    BY <1>7, <2>2, <2>3, <2>5
  <2> QED
    BY <2>3, <2>4, <2>5, <2>6, <2>7, Zenon
<1>9. \A g, h \in gs : g = h
  <2>1. \A g, h \in Log(ts) : g.first = h.first => g = h
    BY UniqueFacts, Zenon
  <2> QED
    BY <1>8, <2>1, Zenon
<1>10. lo <= z.last \/ \E g \in gs : lo <= g.last
  <2>1. CASE \E y \in Snapshot(files) : lo <= y.first
    BY <1>1, <1>3, <1>7, <2>1
  <2>2. CASE \E g \in Log(files) : /\ lo <= g.last /\ Name(g) \in due
                                   /\ \A f \in ts : Name(f) = Name(g) => lo <= f.last
    <3>1. PICK g \in Log(files) : /\ lo <= g.last /\ Name(g) \in due
                                  /\ \A f \in ts : Name(f) = Name(g) => lo <= f.last
      BY <2>2, Zenon
    <3>2. PICK f \in ts : f.kind = g.kind /\ f.first = g.first
      BY <1>1, <1>4, <3>1, Zenon
    <3>3. lo <= f.last /\ f \in Log(ts)
      BY <1>1, <3>1, <3>2, NameFacts, Zenon DEF Log
    <3>4. CASE f.time > z.time
      BY <3>3, <3>4, Zenon
    <3>5. CASE ~(f.time > z.time)
      <4>1. ~(f.last > z.last)
        BY <3>3, <3>5, Zenon DEF Copying, Ordered
      <4>2. f.last \in Nat /\ z.last \in Nat
        BY <1>1, Zenon
      <4> QED
        BY <3>3, <4>1, <4>2
    <3> QED
      BY <3>4, <3>5, Zenon
  <2> QED
    BY <2>1, <2>2, Zenon DEF Copying
<1>11. \A g \in gs : lo <= g.last
  <2>1. SUFFICES ASSUME NEW g \in gs PROVE lo <= g.last
    BY Zenon
  <2>2. z.last <= g.last /\ g.last \in Nat /\ z.last \in Nat
    BY <1>1, <1>8, Zenon DEF Log
  <2>3. lo <= z.last => lo <= g.last
    BY <2>2
  <2> QED
    BY <1>9, <1>10, <2>3, Zenon
<1>12. Follows(z, gs, lo, txns)
  <2> HIDE DEF gs
  <2> QED
    BY <1>7, <1>8, <1>9, <1>10, <1>11, Zenon DEF Follows
<1> QED
  BY <1>5, <1>6, <1>12, Zenon DEF Complete

LEMMA CompleteLater ==
    ASSUME NEW fs \in SUBSET File, NEW lo, NEW hi \in Nat, NEW k \in Nat, hi <= k,
           Complete(fs, lo, hi)
    PROVE  Complete(fs, lo, k)
<1>1. PICK z \in Snapshot(fs) : /\ \A y \in Snapshot(fs) : y = z \/ y.time < z.time
                                /\ Follows(z, {g \in Log(fs) : g.time > z.time}, lo, hi)
  BY Zenon DEF Complete
<1>2. z.last \in Nat /\ \A g \in Log(fs) : g.last \in Nat
  BY KindFacts, Zenon DEF Snapshot, Log
<1>3. /\ z.last <= hi => z.last <= k
      /\ \A g \in Log(fs) : g.last <= hi => g.last <= k
  BY <1>2
<1>4. Follows(z, {g \in Log(fs) : g.time > z.time}, lo, k)
  BY <1>1, <1>3, Zenon DEF Follows
<1> QED
  BY <1>1, <1>4, Zenon DEF Complete

-----------------------------------------------------------------------------
(* The files that the daemon stores.                                       *)

LEMMA StoredSnapshot ==
    ASSUME NEW ts \in SUBSET File, UniqueNames(ts), NEW lo, NEW hi, Complete(ts, lo, hi),
           NEW f \in Snapshot(ts), \A g \in Snapshot(ts) : g.time <= f.time
    PROVE  Stored({Undated(f)},
                  Pending({Undated(f)}, ts, Names({g \in Log(ts) : g.time > f.time})), lo, hi)
<1> DEFINE gs == {g \in Log(ts) : g.time > f.time}
<1>1. PICK z \in Snapshot(ts) : /\ \A y \in Snapshot(ts) : y = z \/ y.time < z.time
                                /\ Follows(z, {g \in Log(ts) : g.time > z.time}, lo, hi)
  BY Zenon DEF Complete
<1>2. f = z
  <2>1. f.time \in Nat /\ z.time \in Nat
    BY KindFacts, Zenon DEF Snapshot
  <2> QED
    BY <1>1, <2>1
<1>3. Follows(f, gs, lo, hi)
  BY <1>1, <1>2, Zenon
<1> DEFINE u == Undated(f)
<1>4. f \in File /\ f.kind = "snapshot"
  BY Zenon DEF Snapshot
<1>5. u.kind = "snapshot" /\ u.first = f.first /\ u.last = f.last
  BY <1>4, UndatedFacts, Zenon
<1> HIDE DEF u
<1>6. Snapshot({u}) = {u} /\ Log({u}) = {}
  BY <1>5 DEF Snapshot, Log
<1>7. {g \in Log(ts) : Name(g) \in Names(gs)} = gs
  BY Zenon DEF Names, UniqueNames, Log
<1>8. Pending({u}, ts, Names(gs)) = gs
  BY <1>6, <1>7, Zenon DEF Pending
<1>9. Follows(u, gs, lo, hi)
  BY <1>3, <1>5, Zenon DEF Follows
<1>10. Stored({u}, Pending({u}, ts, Names(gs)), lo, hi)
  BY <1>6, <1>8, <1>9, Zenon DEF Stored
<1> QED
  BY <1>10, Zenon DEF u

\* The log that was pending is stored as far as it is read.
LEMMA PendingStored ==
    ASSUME NEW ts \in SUBSET File, NEW fs \in SUBSET File, NEW names,
           NEW lo \in Nat, NEW hi \in Nat, Stored(fs, Pending(fs, ts, names), lo, hi),
           Names(fs) \cap names = {},
           NEW f \in Log(ts), Name(f) \in names, NEW n \in Nat, Readable(f, n), n <= f.last
    PROVE  LET gs == fs \cup {Grown(f, n, 0)}
           IN Stored(gs, Pending(gs, ts, names \ {Name(f)}), lo, hi)
<1> DEFINE h == Grown(f, n, 0)
<1>1. f \in File /\ f.kind = "log" /\ f.first \in Nat /\ f.last \in Nat
  BY NameFacts, Zenon DEF Log
<1>2. h.kind = "log" /\ h.first = f.first /\ h.last = n
  BY <1>1, GrownFacts
<1>3. PICK z \in fs : Snapshot(fs) = {z} /\ Follows(z, Pending(fs, ts, names), lo, hi)
  BY Zenon DEF Stored
<1>4. f \in Pending(fs, ts, names)
  BY Zenon DEF Pending
<1>5. /\ \A g \in Pending(fs, ts, names) : g = f
      /\ f.first = z.first + 1 /\ f.last <= hi
      /\ f.last + 1 \in UnknownTxns \/ (lo <= f.last /\ z.last <= f.last)
      /\ z.first <= z.last /\ z.last <= hi
  BY <1>3, <1>4, Zenon DEF Follows
<1>6. Log(fs) = {}
  <2>1. \A g \in Log(fs) : g = f /\ Name(g) \in Names(fs)
    BY <1>5, Zenon DEF Pending, Log, Names
  <2> QED
    BY <2>1, Zenon
<1> HIDE DEF h
<1>7. Log(fs \cup {h}) = {h} /\ Snapshot(fs \cup {h}) = {z}
  <2>1. Log(fs \cup {h}) = Log(fs) \cup {h} /\ Snapshot(fs \cup {h}) = Snapshot(fs)
    BY <1>2 DEF Log, Snapshot
  <2> QED
    BY <1>3, <1>6, <2>1, Zenon
<1>8. {g \in Log(ts) : Name(g) \in names \ {Name(f)}} = {}
  BY <1>5, Zenon DEF Pending
<1>9. Pending(fs \cup {h}, ts, names \ {Name(f)}) = {h}
  BY <1>7, <1>8, Zenon DEF Pending
<1>10. f.first <= n + 1 /\ (n = f.last \/ n + 1 \in UnknownTxns)
  BY Zenon DEF Readable
<1>11. z.first <= n /\ n <= hi
  <2>1. z \in File /\ z.first \in Nat
    BY NameFacts, Zenon
  <2> QED
    BY <1>1, <1>5, <1>10, <2>1
<1>12. Follows(z, {h}, lo, hi)
  <2>1. h.first = z.first + 1 /\ z.first <= h.last /\ h.last <= hi
    BY <1>2, <1>5, <1>11, Zenon
  <2>2. h.last + 1 \in UnknownTxns \/ (lo <= h.last /\ z.last <= h.last)
    BY <1>2, <1>5, <1>10, Zenon
  <2> QED
    BY <1>5, <2>1, <2>2, Zenon DEF Follows
<1>13. Stored(fs \cup {h}, Pending(fs \cup {h}, ts, names \ {Name(f)}), lo, hi)
  BY <1>7, <1>9, <1>12, Zenon DEF Stored
<1> QED
  BY <1>13, Zenon DEF h

LEMMA PendingNone ==
    ASSUME NEW ts, NEW fs
    PROVE  Pending(fs, ts, {}) = Log(fs)
BY Zenon DEF Pending

-----------------------------------------------------------------------------
(* The steps.                                                              *)

LEMMA BackupFacts ==
    ASSUME TypeOK, NEW b \in Backups
    PROVE  /\ backups[b].from \in Nat /\ backups[b].to \in Nat
           /\ backups[b].files \in SUBSET File /\ tmp.files \in SUBSET File
           /\ txns \in Nat /\ MaxTxns \in Nat
BY BoundsAssumption, Zenon DEF TypeOK, StorageType, ZooKeeperType, Backup, Directory

\* No backup is running after the step, and the successful ones are what they were.
LEMMA RestMoment ==
    ASSUME MomentInv, MaxTxns \in Nat,
           \A b \in Backups : \/ backups'[b] = backups[b] /\ backups[b].state # "running"
                              \/ backups'[b] = Failed
    PROVE  MomentInv'
<1>1. Failed.state \notin {"running", "done"} /\ Failed.to <= MaxTxns
  BY FailedFacts
<1> QED
  BY <1>1 DEF MomentInv, DoneMoment

\* The step does not change what a backup has got, and what its request may still copy.
LEMMA FrameRunning ==
    ASSUME NEW b \in Backups, RunningMoment(b), UNCHANGED <<tmp, txns, pc, todo>>,
           backups'[b] = backups[b], pc = "wait" => ~saving',
           \/ UNCHANGED <<store, files>>
           \/ \A a \in Backups : /\ ~Active(a)'
                                 /\ store'[a] = store[a] \/ store'[a].phase # "ok"
    PROVE  RunningMoment(b)'
<1>1. \A a \in Backups : ~Active(a)' => store'[a].phase # "copy"
  BY DEF Active
<1>2. CASE UNCHANGED <<store, files>>
  <2>1. \A a \in Backups : Active(a)' = Active(a)
    BY <1>2, Zenon DEF Active
  <2> QED
    BY <1>2, <2>1, Zenon DEF RunningMoment
<1>3. CASE \A a \in Backups : /\ ~Active(a)'
                              /\ store'[a] = store[a] \/ store'[a].phase # "ok"
  BY <1>1, <1>3, Zenon DEF RunningMoment
<1> QED
  BY <1>2, <1>3, Zenon

LEMMA FrameMoment ==
    ASSUME MomentInv, UNCHANGED <<backups, tmp, txns, pc, todo>>, saving' => saving,
           \/ UNCHANGED <<store, files>>
           \/ \A a \in Backups : /\ ~Active(a)'
                                 /\ store'[a] = store[a] \/ store'[a].phase # "ok"
    PROVE  MomentInv'
<1>1. ASSUME NEW b \in Backups, RunningMoment(b)
      PROVE  RunningMoment(b)'
  <2>1. pc = "wait" => ~saving'
    BY <1>1, Zenon DEF RunningMoment
  <2> QED
    BY <1>1, <2>1, FrameRunning, Zenon
<1> QED
  BY <1>1, Zenon DEF MomentInv, DoneMoment

LEMMA AppendMoment ==
    ASSUME TypeOK, FilesInv, MomentInv, Append
    PROVE  MomentInv'
<1>1. UNCHANGED <<backups, tmp, store, pc, todo, saving>> /\ txns' = txns + 1
  BY Zenon DEF Append, daemonVars
<1>2. ASSUME NEW b \in Backups, RunningMoment(b)
      PROVE  RunningMoment(b)'
  <2>1. /\ backups[b].from \in Nat /\ tmp.files \in SUBSET File /\ txns \in Nat /\ txns' \in Nat
        /\ txns <= txns' /\ backups[b].from <= txns'
    <3>1. /\ backups[b].from \in Nat /\ tmp.files \in SUBSET File /\ txns \in Nat
          /\ backups[b].from <= txns
      BY <1>2, BackupFacts, Zenon DEF RunningMoment
    <3>2. \A k, n \in Nat : k <= n => n + 1 \in Nat /\ n <= n + 1 /\ k <= n + 1
      OBVIOUS
    <3> QED
      BY <1>1, <3>1, <3>2, Zenon
  <2>2. store[b].phase = "copy" =>
           Copying(files', tmp.files, txns', store[b].due, store[b].done, backups[b].from)
    BY <1>2, <2>1, CopyingAppend, Zenon DEF RunningMoment
  <2>3. pc = "wait" /\ store[b].phase = "ok" => Complete(tmp.files, backups[b].from, txns')
    BY <1>2, <2>1, CompleteLater, Zenon DEF RunningMoment
  <2>4. \A a \in Backups : Active(a)' = Active(a)
    BY <1>1, Zenon DEF Active
  <2> QED
    BY <1>1, <1>2, <2>1, <2>2, <2>3, <2>4, Zenon DEF RunningMoment
<1> QED
  BY <1>1, <1>2, Zenon DEF MomentInv, DoneMoment

\* No request of a backup that nothing has disturbed is at work while a snapshot is written.
LEMMA SnapshotMoment ==
    ASSUME TypeOK, DaemonInv, MomentInv, BeginSnapshot \/ FinishSnapshot
    PROVE  MomentInv'
<1>1. UNCHANGED <<tmp, store, pc, todo, txns, current>> /\ MaxTxns \in Nat
  BY BoundsAssumption, Zenon DEF BeginSnapshot, FinishSnapshot, daemonVars
<1>2. \A b \in Backups : \/ backups'[b] = backups[b]
                         \/ pc = "wait" /\ current = {b} /\ backups'[b] = Disturbed
  BY BeginSnapshotFacts, Zenon DEF FinishSnapshot, TypeOK, StorageType
<1>3. ASSUME NEW b \in Backups, backups[b].state = "running", backups[b].instant,
             backups'[b] = backups[b]
      PROVE  RunningMoment(b)'
  <2>1. RunningMoment(b) /\ pc \in BackupPhase /\ current = {b}
    BY <1>3, Zenon DEF MomentInv, DaemonInv
  <2>2. pc # "wait"
    <3>1. CASE BeginSnapshot
      <4>1. backups'[b] = IF pc = "wait" /\ current = {b} THEN Disturbed ELSE backups[b]
        BY <3>1, BeginSnapshotFacts, Zenon DEF TypeOK, StorageType
      <4> QED
        BY <1>3, <2>1, <4>1, FailedFacts, Zenon
    <3>2. CASE FinishSnapshot
      BY <2>1, <3>2, Zenon DEF FinishSnapshot, RunningMoment
    <3> QED
      BY <3>1, <3>2, Zenon
  <2>3. \A a \in Backups : ~Active(a)'
    BY <1>1, <2>1, <2>2, Zenon DEF RunningMoment, Active
  <2> QED
    BY <1>1, <1>3, <2>1, <2>2, <2>3, FrameRunning, Zenon
<1>4. ~Disturbed.instant /\ Disturbed.to <= MaxTxns
  BY <1>1, FailedFacts
<1> QED
  BY <1>2, <1>3, <1>4 DEF MomentInv, DoneMoment

LEMMA StoreMoment ==
    ASSUME TypeOK, FilesInv, DaemonInv, ContentInv, MomentInv, NEW r \in Backups,
           StoreStep(r) \/ StoreFails(r)
    PROVE  MomentInv'
<1>1. UNCHANGED <<backups, files, txns, pc, todo, saving>>
  BY StoreFacts, Zenon DEF storeVars, zkVars, daemonVars
<1>2. SUFFICES ASSUME NEW b \in Backups, RunningMoment(b)
               PROVE  RunningMoment(b)'
  BY <1>1, Zenon DEF MomentInv, DoneMoment
<1>3. r = b /\ pc = "wait"
  BY <1>2, StoreFacts, Zenon DEF RunningMoment
<1>4. \A a \in Backups : Active(a)' => a = b
  <2>1. \A a \in Backups \ {b} : store'[a] = store[a]
    BY <1>3, StoreFacts, Zenon
  <2> QED
    BY <1>2, <2>1, Zenon DEF RunningMoment, Active
<1>5. SUFFICES /\ store'[b].phase = "copy" =>
                     Copying(files, tmp'.files, txns, store'[b].due, store'[b].done,
                             backups[b].from)
               /\ store'[b].phase = "ok" => Complete(tmp'.files, backups[b].from, txns)
  BY <1>1, <1>2, <1>3, <1>4, Zenon DEF RunningMoment
<1>6. /\ store \in [Backups -> StoreRequest] /\ tmp \in Directory
      /\ files \in SUBSET File /\ Names(files) \in SUBSET FileName
      /\ tmp.files \in SUBSET File /\ UniqueNames(tmp.files)
      /\ backups[b].from \in Nat /\ backups[b].from <= txns
  BY <1>2, BackupFacts, NamesFacts, Zenon
  DEF TypeOK, StorageType, ZooKeeperType, ContentInv, RunningMoment
<1>7. CASE store' = [store EXCEPT ![b].phase = "mkdir"]
  <2>1. store'[b].phase = "mkdir"
    BY <1>6, <1>7, RemoveFacts, Zenon
  <2>2. "mkdir" # "copy" /\ "mkdir" # "ok"
    OBVIOUS
  <2> QED
    BY <2>1, <2>2, Zenon
<1>8. CASE End(b, "error")
  <2>1. store' = [store EXCEPT ![b] = Answer(b, "error")]
    BY <1>8, Zenon DEF End
  <2>2. store'[b] = Answer(b, "error")
    BY <1>6, <2>1, Zenon
  <2> QED
    BY <1>6, <2>2, RequestFacts
<1>9. CASE /\ store[b].phase = "mkdir" /\ tmp' = [exists |-> TRUE, files |-> {}]
           /\ store' = [store EXCEPT ![b].phase = "copy", ![b].due = Names(files)]
  <2>1. /\ store'[b].phase = "copy" /\ store'[b].due = Names(files)
        /\ store'[b].done = store[b].done /\ tmp'.files = {}
    BY <1>6, <1>9, MkdirFacts, Zenon
  <2>2. store[b].done = {}
    BY <1>9, Zenon DEF DaemonInv
  <2>3. Copying(files, {}, txns, Names(files), {}, backups[b].from)
    BY <1>6, CopyingStarts, Zenon
  <2> QED
    BY <2>1, <2>2, <2>3, Zenon
<1>10. CASE /\ store[b].phase = "copy"
            /\ \E f \in files : /\ tmp' = [tmp EXCEPT !.files = Put(f, @)]
                                /\ store' = [store EXCEPT ![b].done = @ \cup {Name(f)}]
  <2>1. PICK f \in files : /\ tmp' = [tmp EXCEPT !.files = Put(f, @)]
                           /\ store' = [store EXCEPT ![b].done = @ \cup {Name(f)}]
    BY <1>10, Zenon
  <2>2. f \in File /\ Name(f) \in FileName /\ Put(f, tmp.files) \in SUBSET File
    <3>1. f \in File
      BY <1>6, Zenon
    <3>2. Name(f) \in FileName
      BY <3>1, NameFacts, Zenon
    <3>3. Put(f, tmp.files) \in SUBSET File
      <4>1. tmp.files \in SUBSET File
        BY <1>6, Zenon
      <4>2. Put(f, tmp.files) \subseteq File
        BY <3>1, <4>1, PutFacts
      <4> QED
        BY <4>2, Zenon
    <3> QED
      BY <3>1, <3>2, <3>3, Zenon
  <2>3. tmp'.files = Put(f, tmp.files)
    BY <1>6, <2>1, <2>2, DirectoryFacts
  <2>4. /\ store'[b].phase = "copy" /\ store'[b].due = store[b].due
        /\ store'[b].done = store[b].done \cup {Name(f)}
    BY <1>6, <1>10, <2>1, <2>2, CopyFacts, Zenon
  <2>5. Copying(files, tmp.files, txns, store[b].due, store[b].done, backups[b].from)
    BY <1>2, <1>10, Zenon DEF RunningMoment
  <2>6. Copying(files, Put(f, tmp.files), txns, store[b].due, store[b].done \cup {Name(f)},
                backups[b].from)
    BY <1>6, <2>5, CopyingGoesOn, Zenon
  <2>7. "copy" # "ok"
    OBVIOUS
  <2> QED
    BY <2>3, <2>4, <2>6, <2>7, Zenon
<1>11. CASE /\ store[b].phase = "copy" /\ store[b].due \subseteq store[b].done
            /\ End(b, "ok") /\ UNCHANGED tmp
  <2>1. store'[b].phase # "copy"
    <3>1. store' = [store EXCEPT ![b] = Answer(b, "ok")]
      BY <1>11, Zenon DEF End
    <3>2. store'[b] = Answer(b, "ok")
      BY <1>6, <3>1, Zenon
    <3> QED
      BY <1>6, <3>2, RequestFacts
  <2>2. Copying(files, tmp.files, txns, store[b].due, store[b].done, backups[b].from)
    BY <1>2, <1>11, Zenon DEF RunningMoment
  <2>3. Complete(tmp.files, backups[b].from, txns)
    <3> DEFINE ts == tmp.files
               due == store[b].due
               done == store[b].done
               lo == backups[b].from
    <3>1. /\ ts \in SUBSET File /\ UniqueNames(ts) /\ lo \in Nat
          /\ due \subseteq done /\ Copying(files, ts, txns, due, done, lo)
      BY <1>6, <1>11, <2>2, Zenon
    <3> HIDE DEF ts, due, done, lo
    <3>2. Complete(ts, lo, txns)
      BY <3>1, CopyingEnds, Zenon
    <3> QED
      BY <3>2, Zenon DEF ts, lo
  <2> QED
    BY <1>11, <2>1, <2>3, ZenonT(30)
<1> QED
  BY <1>3, <1>7, <1>8, <1>9, <1>10, <1>11, Zenon
  DEF StoreStep, StoreFails, RemoveAll, Mkdir, Copy, Copied

LEMMA StartBackupMoment ==
    ASSUME TypeOK, DaemonInv, MomentInv, NEW b \in Backups, StartBackup(b)
    PROVE  MomentInv'
<1>1. /\ \A a \in Backups \ {b} : store'[a] = store[a] /\ backups'[a] = backups[a]
      /\ store'[b].phase = "remove"
      /\ backups'[b].state = "running" /\ backups'[b].to = 0
      /\ backups'[b].instant => /\ backups'[b].from = txns /\ ~saving
                                /\ \A a \in Backups : ~Active(a)
  BY StartBackupFacts, Zenon
<1>2. /\ pc = "idle" /\ pc' = "wait" /\ txns' = txns /\ saving' = saving
      /\ txns \in Nat /\ MaxTxns \in Nat
  BY BackupFacts, Zenon DEF StartBackup, zkVars
<1>3. \A a \in Backups : backups[a].state # "running"
  BY <1>2, Zenon DEF DaemonInv, BackupPhase
<1>4. ASSUME backups'[b].instant
      PROVE  RunningMoment(b)'
  <2>1. \A a \in Backups : Active(a)' => a = b
    BY <1>1, <1>4, Zenon DEF Active
  <2>2. backups'[b].from <= txns'
    BY <1>1, <1>2, <1>4
  <2> QED
    BY <1>1, <1>2, <1>4, <2>1, <2>2, Zenon DEF RunningMoment
<1>5. backups'[b].to <= MaxTxns
  BY <1>1, <1>2
<1> QED
  BY <1>1, <1>3, <1>4, <1>5, Zenon DEF MomentInv, DoneMoment

\* A step of the daemon on one backup: the others are not running.
LEMMA OthersMoment ==
    ASSUME DaemonInv, MomentInv, NEW b \in Backups, current = {b},
           \A a \in Backups \ {b} : backups'[a] = backups[a],
           backups'[b].to <= MaxTxns,
           backups'[b].state = "running" /\ backups'[b].instant => RunningMoment(b)',
           backups'[b].state = "done" /\ backups'[b].instant => DoneMoment(backups'[b])
    PROVE  MomentInv'
<1>1. \A a \in Backups \ {b} : backups[a].state # "running"
  BY Zenon DEF DaemonInv
<1>2. \A a \in Backups \ {b} :
         /\ backups'[a].to <= MaxTxns
         /\ backups'[a].state # "running"
         /\ backups'[a].state = "done" /\ backups'[a].instant => DoneMoment(backups'[a])
  BY <1>1, Zenon DEF MomentInv
<1> QED
  BY <1>2, Zenon DEF MomentInv

LEMMA LeaveMoment ==
    ASSUME TypeOK, DaemonInv, MomentInv, NEW b \in Backups, NEW new \in {Failed, Finished(b)},
           Leave(b, new), current = {b}, pc \in BackupPhase,
           new = Finished(b) => pc = "logs" /\ todo = {}
    PROVE  MomentInv'
<1>1. Failed \in Backup /\ Failed.state \notin {"running", "done"} /\ Failed.to <= MaxTxns
  BY FailedFacts, BackupFacts
<1>2. /\ Finished(b) \in Backup /\ Finished(b).state = "done"
      /\ Finished(b).files = backups[b].files /\ Finished(b).from = backups[b].from
      /\ Finished(b).to = backups[b].to /\ Finished(b).instant = backups[b].instant
  BY FinishedFacts, ZenonT(30)
<1>3. /\ \A a \in Backups \ {b} : backups'[a] = backups[a]
      /\ backups'[b] \in {Failed, new}
  <2>1. new \in Backup
    BY <1>1, <1>2, Zenon
  <2>2. /\ \A a \in Backups \ {b} : backups'[a] = backups[a]
        /\ backups'[b] \in {new, Failed}
    BY <2>1, LeaveFacts, ZenonT(30)
  <2> QED
    BY <2>2, Zenon
<1>4. backups[b].state = "running" /\ backups[b].to <= MaxTxns
  BY Zenon DEF DaemonInv, MomentInv
<1>5. ASSUME backups'[b] = Finished(b), new = Finished(b), backups[b].instant
      PROVE  DoneMoment(backups'[b])
  <2>1. RunningMoment(b)
    BY <1>4, <1>5, Zenon DEF MomentInv
  <2>2. Stored(backups[b].files, Pending(backups[b].files, tmp.files, {}),
               backups[b].from, backups[b].to)
    BY <1>5, <2>1, Zenon DEF RunningMoment
  <2>3. Stored(backups[b].files, Log(backups[b].files), backups[b].from, backups[b].to)
    BY <2>2, PendingNone, Zenon
  <2> QED
    BY <1>2, <1>5, <2>3, Zenon DEF DoneMoment
<1>6. CASE backups'[b] = Failed
  BY <1>1, <1>3, <1>6, OthersMoment, Zenon
<1>7. CASE backups'[b] = Finished(b) /\ new = Finished(b)
  <2>1. "done" # "running"
    OBVIOUS
  <2> QED
    BY <1>2, <1>3, <1>4, <1>5, <1>7, <2>1, OthersMoment, Zenon
<1> QED
  BY <1>3, <1>6, <1>7, Zenon

LEMMA BackupStepMoment ==
    ASSUME TypeOK, FilesInv, DaemonInv, ContentInv, MomentInv, NEW b \in Backups, BackupStep(b)
    PROVE  MomentInv'
<1>1. current = {b} /\ pc \in BackupPhase /\ txns' = txns
  BY BackupStepCases, Zenon DEF zkVars
<1>2. /\ backups[b].state = "running" /\ backups \in [Backups -> Backup]
      /\ backups[b].instant => RunningMoment(b)
      /\ tmp.files \in SUBSET File /\ UniqueNames(tmp.files)
      /\ backups[b].to <= MaxTxns
  BY <1>1, BackupFacts, Zenon DEF DaemonInv, TypeOK, StorageType, MomentInv, ContentInv
<1>3. CASE \/ Leave(b, Failed)
           \/ pc = "logs" /\ todo = {} /\ Leave(b, Finished(b))
  <2>1. Failed # Finished(b)
    BY FailedFacts, FinishedFacts
  <2> QED
    BY <1>1, <1>3, <2>1, LeaveMoment, ZenonT(30)
<1>4. CASE Answered(b) /\ ~Leave(b, Failed)
  <2>1. /\ pc = "wait" /\ store[b].phase = "ok" /\ pc' = "select" /\ UNCHANGED tmp
        /\ backups' = [backups EXCEPT ![b].to = IF backups[b].instant THEN txns ELSE 0]
    BY <1>4, Zenon DEF Answered
  <2>2. /\ \A a \in Backups \ {b} : backups'[a] = backups[a]
        /\ backups'[b].state = "running" /\ backups'[b].from = backups[b].from
        /\ backups'[b].to = (IF backups[b].instant THEN txns ELSE 0)
        /\ backups'[b].instant = backups[b].instant
    <3> DEFINE n == IF backups[b].instant THEN txns ELSE 0
    <3>1. backups' = [backups EXCEPT ![b].to = n]
      BY <2>1, Zenon
    <3> HIDE DEF n
    <3>2. /\ \A a \in Backups \ {b} : backups'[a] = backups[a]
          /\ backups'[b].state = backups[b].state /\ backups'[b].from = backups[b].from
          /\ backups'[b].to = n /\ backups'[b].instant = backups[b].instant
      BY <1>2, <3>1, MomentFacts, Zenon
    <3> QED
      BY <1>2, <3>2, Zenon DEF n
  <2>3. ~Active(b)' /\ store'[b] = NoStore /\ \A a \in Backups \ {b} : store'[a] = store[a]
    BY <1>4, AnsweredFacts, Zenon
  <2>4. ASSUME backups[b].instant
        PROVE  RunningMoment(b)'
    <3>1. RunningMoment(b)
      BY <1>2, <2>4, Zenon
    <3>2. \A a \in Backups : ~Active(a)'
      BY <2>3, <3>1, Zenon DEF RunningMoment, Active
    <3>3. NoStore.phase # "copy"
      BY ConstantFacts
    <3> QED
      BY <1>1, <2>1, <2>2, <2>3, <2>4, <3>1, <3>2, <3>3, Zenon DEF RunningMoment
  <2>5. backups'[b].to <= MaxTxns
    BY <2>2, BackupFacts DEF FilesInv
  <2>6. "running" # "done"
    OBVIOUS
  <2> QED
    BY <1>1, <2>2, <2>4, <2>5, <2>6, OthersMoment, Zenon
<1>5. CASE Select(b) /\ ~Leave(b, Failed)
  <2>1. PICK f \in Snapshot(tmp.files) :
                 /\ \A g \in Snapshot(tmp.files) : g.time <= f.time
                 /\ backups' = [backups EXCEPT ![b].files = {Undated(f)}]
                 /\ todo' = Names({g \in Log(tmp.files) : g.time > f.time})
                 /\ pc' = "logs" /\ UNCHANGED tmp
    BY <1>5, Zenon DEF Select, Undated
  <2>2. pc = "select" /\ UNCHANGED store
    BY <1>5, Zenon DEF Select
  <2>3. /\ \A a \in Backups \ {b} : backups'[a] = backups[a]
        /\ backups'[b].state = "running" /\ backups'[b].from = backups[b].from
        /\ backups'[b].to = backups[b].to /\ backups'[b].instant = backups[b].instant
        /\ backups'[b].files = {Undated(f)}
    BY <1>2, <2>1, ContentFacts, Zenon
  <2>4. ASSUME backups[b].instant
        PROVE  RunningMoment(b)'
    <3>1. RunningMoment(b)
      BY <1>2, <2>4, Zenon
    <3>2. \A a \in Backups : ~Active(a)' /\ store'[a].phase # "copy"
      BY <2>2, <3>1 DEF RunningMoment, Active
    <3>3. Complete(tmp.files, backups[b].from, backups[b].to)
      BY <2>2, <3>1, Zenon DEF RunningMoment
    <3>4. Stored({Undated(f)}, Pending({Undated(f)}, tmp.files, todo'), backups[b].from,
                 backups[b].to)
      BY <1>2, <2>1, <3>3, StoredSnapshot, Zenon
    <3> QED
      BY <1>1, <2>1, <2>3, <3>1, <3>2, <3>4, Zenon DEF RunningMoment
  <2>5. "running" # "done"
    OBVIOUS
  <2> QED
    BY <1>1, <1>2, <2>3, <2>4, <2>5, OthersMoment, Zenon
<1>6. CASE /\ StoreLog(b)
           /\ \E f \in Log(tmp.files), n \in Nat :
                 /\ Name(f) \in todo /\ todo' = todo \ {Name(f)}
                 /\ Readable(f, n) /\ n <= f.last
                 /\ backups' = [backups EXCEPT ![b].files = @ \cup {Grown(f, n, 0)}]
                 /\ UNCHANGED <<tmp, pc>>
  <2>1. PICK f \in Log(tmp.files), n \in Nat :
                 /\ Name(f) \in todo /\ todo' = todo \ {Name(f)}
                 /\ Readable(f, n) /\ n <= f.last
                 /\ backups' = [backups EXCEPT ![b].files = @ \cup {Grown(f, n, 0)}]
                 /\ UNCHANGED <<tmp, pc>>
    BY <1>6, Zenon
  <2>2. pc = "logs" /\ UNCHANGED store
    BY <1>6, Zenon DEF StoreLog
  <2>3. /\ \A a \in Backups \ {b} : backups'[a] = backups[a]
        /\ backups'[b].state = "running" /\ backups'[b].from = backups[b].from
        /\ backups'[b].to = backups[b].to /\ backups'[b].instant = backups[b].instant
        /\ backups'[b].files = backups[b].files \cup {Grown(f, n, 0)}
    BY <1>2, <2>1, ContentFacts, Zenon
  <2>4. ASSUME backups[b].instant
        PROVE  RunningMoment(b)'
    <3>1. RunningMoment(b)
      BY <1>2, <2>4, Zenon
    <3>2. \A a \in Backups : ~Active(a)' /\ store'[a].phase # "copy"
      BY <2>2, <3>1 DEF RunningMoment, Active
    <3> DEFINE fs == backups[b].files
               ts == tmp.files
               lo == backups[b].from
               hi == backups[b].to
    <3>3. /\ Stored(fs, Pending(fs, ts, todo), lo, hi) /\ Names(fs) \cap todo = {}
          /\ fs \in SUBSET File /\ ts \in SUBSET File /\ lo \in Nat /\ hi \in Nat
          /\ f \in Log(ts)
      BY <1>1, <1>2, <2>2, <3>1, BackupFacts, Zenon DEF RunningMoment, ContentInv
    <3> HIDE DEF fs, ts, lo, hi
    <3>4. Stored(fs \cup {Grown(f, n, 0)},
                 Pending(fs \cup {Grown(f, n, 0)}, ts, todo \ {Name(f)}), lo, hi)
      BY <2>1, <3>3, PendingStored, Zenon
    <3>5. Stored(backups'[b].files, Pending(backups'[b].files, tmp.files, todo'),
                 backups[b].from, backups[b].to)
      BY <2>1, <2>3, <3>4, Zenon DEF fs, ts, lo, hi
    <3> QED
      BY <1>1, <2>1, <2>2, <2>3, <3>1, <3>2, <3>5, Zenon DEF RunningMoment
  <2>5. "running" # "done"
    OBVIOUS
  <2> QED
    BY <1>1, <1>2, <2>3, <2>4, <2>5, OthersMoment, Zenon
<1>7. StoreLog(b) => pc = "logs"
  BY Zenon DEF StoreLog
<1> QED
  BY <1>3, <1>4, <1>5, <1>6, <1>7, StoreLogFacts, Zenon DEF BackupStep

LEMMA FaultMoment ==
    ASSUME TypeOK, DaemonInv, MomentInv, NEW b \in Backups, LoseAnswer(b) \/ BackupFails(b)
    PROVE  MomentInv'
<1>1. CASE BackupFails(b)
  <2>1. Leave(b, Failed) /\ pc \in BackupPhase /\ current = {b}
    BY <1>1, Zenon DEF BackupFails
  <2>2. Failed # Finished(b)
    BY FailedFacts, FinishedFacts
  <2> QED
    BY <2>1, <2>2, LeaveMoment, Zenon
<1>2. CASE LoseAnswer(b)
  <2>1. /\ UNCHANGED <<files, txns, saving, tmp, backups, pc, todo>> /\ current = {b}
    BY <1>2, Zenon DEF LoseAnswer, zkVars, daemonVars
  <2>2. store'[b] = Unheard(b) /\ \A a \in Backups \ {b} : store'[a] = store[a]
    BY <1>2, UnheardFacts, Zenon
  <2>3. SUFFICES ASSUME RunningMoment(b)
                 PROVE  RunningMoment(b)'
    BY <2>1, OthersMoment, Zenon DEF MomentInv
  <2>4. CASE Active(b)
    <3>1. /\ store'[b].phase = store[b].phase /\ store'[b].due = store[b].due
          /\ store'[b].done = store[b].done
      BY <2>2, <2>4, RequestFacts DEF TypeOK, StorageType
    <3>2. \A a \in Backups : Active(a)' => Active(a)
      BY <2>2, <3>1, Zenon DEF Active
    <3> QED
      BY <2>1, <2>3, <3>1, <3>2, Zenon DEF RunningMoment
  <2>5. CASE ~Active(b)
    <3>1. store'[b] = NoStore
      BY <2>2, <2>5, RequestFacts DEF TypeOK, StorageType
    <3>2. store'[b].phase \notin {"remove", "mkdir", "copy", "ok"}
      BY <3>1, ConstantFacts
    <3>3. \A a \in Backups : ~Active(a)' /\ (store'[a] = store[a] \/ store'[a].phase # "ok")
      BY <2>2, <2>3, <3>2 DEF RunningMoment, Active
    <3>4. pc = "wait" => ~saving'
      BY <2>1, <2>3, Zenon DEF RunningMoment
    <3> QED
      BY <2>1, <2>3, <3>3, <3>4, FrameRunning, Zenon
  <2> QED
    BY <2>4, <2>5, Zenon
<1> QED
  BY <1>1, <1>2, Zenon

LEMMA PodMoment ==
    ASSUME TypeOK, DaemonInv, MomentInv, NEW s \in Servers, StartPod(s) \/ RestartPod(s)
    PROVE  MomentInv'
<1>1. UNCHANGED <<backups, tmp, pc, todo>> /\ LoadData(s)
  BY Zenon DEF StartPod, RestartPod, daemonVars
<1>2. /\ txns' = txns /\ (saving' => saving)
      /\ s = Leader \/ UNCHANGED files
  BY <1>1, LoadDataFacts, Zenon
<1>3. CASE StartPod(s)
  <2>1. UNCHANGED store /\ pod[s] = "down"
    BY <1>3, Zenon DEF StartPod
  <2>2. s = Leader => \A a \in Backups : ~Active(a)'
    BY <2>1 DEF DaemonInv, Active
  <2> QED
    BY <1>1, <1>2, <2>1, <2>2, FrameMoment, Zenon
<1>4. CASE RestartPod(s)
  <2>1. store' = IF s = Leader THEN Aborted ELSE store
    BY <1>4, Zenon DEF RestartPod
  <2>2. CASE s = Leader
    <3>1. \A a \in Backups : ~Active(a)' /\ (store'[a] = store[a] \/ store'[a].phase # "ok")
      BY <2>1, <2>2, AbortedFacts, Zenon DEF Active, TypeOK, StorageType
    <3> QED
      BY <1>1, <1>2, <3>1, FrameMoment, Zenon
  <2>3. CASE s # Leader
    BY <1>1, <1>2, <2>1, <2>3, FrameMoment, Zenon
  <2> QED
    BY <2>2, <2>3, Zenon
<1> QED
  BY <1>3, <1>4, Zenon

LEMMA StepMoment ==
    ASSUME TypeOK, FilesInv, DaemonInv, ContentInv, MomentInv, [Next]_vars
    PROVE  MomentInv'
<1>1. CASE UNCHANGED vars
  BY <1>1, FrameMoment, Zenon DEF vars, zkVars, daemonVars
<1>2. MaxTxns \in Nat
  BY BoundsAssumption, Zenon
<1>3. CASE Kill
  <2>1. \A b \in Backups : \/ backups'[b] = backups[b] /\ backups[b].state # "running"
                           \/ backups'[b] = Failed
    BY <1>3, KillFacts, Zenon DEF TypeOK, StorageType
  <2> QED
    BY <1>2, <2>1, RestMoment, Zenon
<1>4. CASE \/ \E b \in Backups : StartRecovery(b)
           \/ CopyToRecover \/ ScaleDown \/ ScaleUp \/ RemoveRecover \/ RecoveryFails
  <2>1. UNCHANGED backups
    BY <1>4, Zenon
    DEF StartRecovery, CopyToRecover, ScaleDown, ScaleUp, RemoveRecover, RecoveryFails
  <2>2. pc \notin BackupPhase
    BY <1>4, Zenon
    DEF StartRecovery, CopyToRecover, ScaleDown, ScaleUp, RemoveRecover, RecoveryFails, BackupPhase
  <2>3. \A b \in Backups : backups[b].state # "running"
    BY <2>2, Zenon DEF DaemonInv
  <2> QED
    BY <1>2, <2>1, <2>3, RestMoment, Zenon
<1> QED
  BY <1>1, <1>3, <1>4, AppendMoment, SnapshotMoment, StoreMoment, StartBackupMoment,
     FaultMoment, BackupStepMoment, PodMoment, Zenon
  DEF Next, DaemonStep

LEMMA InitMoment ==
    ASSUME Init
    PROVE  MomentInv
<1>1. \A b \in Backups : backups[b] = NoBackup
  BY Zenon DEF Init
<1>2. NoBackup.state \notin {"running", "done"} /\ NoBackup.to <= MaxTxns
  BY BoundsAssumption DEF NoBackup
<1> QED
  BY <1>1, <1>2, Zenon DEF MomentInv

\* What a stored snapshot and the log after it stand for.
LEMMA StoredReplayed ==
    ASSUME NEW fs \in SUBSET File, NEW lo \in Nat, NEW hi \in Nat, MaxTxns \in Nat, hi <= MaxTxns,
           Stored(fs, Log(fs), lo, hi)
    PROVE  \E n \in 0..hi :
              /\ Replayed(fs) = 1..n
              /\ \/ lo <= n /\ \A z \in Snapshot(fs) : z.last <= n
                 \/ n + 1 \in UnknownTxns
                 \/ \E z \in Snapshot(fs) : z.first = n /\ n < z.last /\ lo <= z.last
<1>1. PICK z \in fs : Snapshot(fs) = {z} /\ Follows(z, Log(fs), lo, hi)
  BY Zenon DEF Stored
<1>2. /\ z.first \in Nat /\ z.last \in Nat /\ z.first <= z.last /\ z.last <= hi
      /\ \A g \in Log(fs) : g.first \in Nat /\ g.last \in Nat
  BY <1>1, KindFacts, Zenon DEF Follows, Log
<1>3. z.first <= z.first /\ z.first <= MaxTxns
  BY <1>2
<1>4. Replayed(fs) = {t \in 1..MaxTxns :
                         t <= z.first \/ \E f \in Log(fs) : t \in f.first..f.last}
  BY <1>1, <1>3, Zenon DEF Replayed
<1>5. CASE Log(fs) = {}
  <2>1. lo <= z.last
    BY <1>1, <1>5, Zenon DEF Follows
  <2>2. Replayed(fs) = 1..z.first
    <3>1. Replayed(fs) = {t \in 1..MaxTxns : t <= z.first}
      BY <1>4, <1>5, Zenon
    <3> QED
      BY <1>2, <1>3, <3>1
  <2>3. z.first \in 0..hi /\ (z.first < z.last \/ z.first = z.last)
    BY <1>2
  <2>4. z.last <= z.last
    BY <1>2
  <2> QED
    BY <1>1, <2>1, <2>2, <2>3, <2>4, Zenon
<1>6. CASE Log(fs) # {}
  <2>1. PICK g \in Log(fs) : TRUE
    BY <1>6, Zenon
  <2>2. /\ \A f \in Log(fs) : f = g
        /\ g.first = z.first + 1 /\ z.first <= g.last /\ g.last <= hi
        /\ g.last + 1 \in UnknownTxns \/ (lo <= g.last /\ z.last <= g.last)
    BY <1>1, Zenon DEF Follows
  <2>3. Replayed(fs) = {t \in 1..MaxTxns : t <= z.first \/ t \in g.first..g.last}
    BY <1>4, <2>2, Zenon
  <2>4. Replayed(fs) = 1..g.last
    BY <1>2, <2>2, <2>3
  <2>5. g.last \in 0..hi
    BY <1>2, <2>2
  <2> QED
    BY <1>1, <2>2, <2>4, <2>5, Zenon
<1> QED
  BY <1>5, <1>6, Zenon

\* "restore the system state that was at a moment of the backup": the snapshot and the logs
\* that backup.py stores stand for the transactions up to one, between its request to the
\* leader and the answer, whatever ZooKeeper appends while the files are copied, if it
\* wrote no snapshot then and no earlier request was still at work; unless the filter of
\* the logs meets a type that it does not know, or the log of the transactions made while
\* the snapshot was written is older than that.
THEOREM OneMoment == Spec => []BackupIsOfOneMoment
<1>1. Init => TypeOK /\ FilesInv /\ DaemonInv /\ ContentInv /\ MomentInv
  BY InitType, InitFiles, InitDaemon, InitContent, InitMoment, Zenon
<1>2. TypeOK /\ FilesInv /\ DaemonInv /\ ContentInv /\ MomentInv /\ [Next]_vars =>
         TypeOK' /\ FilesInv' /\ DaemonInv' /\ ContentInv' /\ MomentInv'
  BY StepType, StepFiles, StepDaemon, StepContent, StepMoment, Zenon
<1>3. TypeOK /\ MomentInv => BackupIsOfOneMoment
  <2>1. SUFFICES ASSUME TypeOK, MomentInv, NEW b \in Backups,
                        backups[b].state = "done", backups[b].instant
                 PROVE  \E n \in 0..backups[b].to :
                           /\ Replayed(backups[b].files) = 1..n
                           /\ \/ /\ backups[b].from <= n
                                 /\ \A z \in Snapshot(backups[b].files) : z.last <= n
                              \/ n + 1 \in UnknownTxns
                              \/ \E z \in Snapshot(backups[b].files) :
                                    z.first = n /\ n < z.last /\ backups[b].from <= z.last
    BY Zenon DEF BackupIsOfOneMoment
  <2> DEFINE fs == backups[b].files
             lo == backups[b].from
             hi == backups[b].to
  <2>2. /\ fs \in SUBSET File /\ lo \in Nat /\ hi \in Nat /\ MaxTxns \in Nat /\ hi <= MaxTxns
        /\ Stored(fs, Log(fs), lo, hi)
    BY <2>1, BackupFacts, Zenon DEF MomentInv, DoneMoment
  <2> HIDE DEF fs, lo, hi
  <2>3. \E n \in 0..hi :
           /\ Replayed(fs) = 1..n
           /\ \/ lo <= n /\ \A z \in Snapshot(fs) : z.last <= n
              \/ n + 1 \in UnknownTxns
              \/ \E z \in Snapshot(fs) : z.first = n /\ n < z.last /\ lo <= z.last
    BY <2>2, StoredReplayed, Zenon
  <2> QED
    BY <2>3, Zenon DEF fs, lo, hi
<1> QED
  BY <1>1, <1>2, <1>3, PTL DEF Spec
=============================================================================
