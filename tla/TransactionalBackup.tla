-------------------------- MODULE TransactionalBackup --------------------------
(***************************************************************************)
(* The transactional backup and its recovery, by three programs that share *)
(* a file system: the backup daemon's scripts (backup.py, restore.py), the *)
(* server beside each ZooKeeper that copies its files on POST /store       *)
(* (docker-zookeeper/main.go), and the script that starts a ZooKeeper      *)
(* container (docker-entrypoint.sh).  Meanwhile ZooKeeper writes its       *)
(* files, the daemon may be killed and pods may restart.                   *)
(*                                                                         *)
(* Data abstraction.  Transactions are numbered.  A log file holds the     *)
(* transactions first..last, a snapshot those up to first, its name, and   *)
(* perhaps some up to last, made while it was written; time is the         *)
(* modification time, which "cp -p" and copy2 keep.  Filtering a log ends  *)
(* it before the first transaction of a type that is not known.            *)
(***************************************************************************)
EXTENDS Naturals

CONSTANTS
    Servers,       \* the ZooKeeper servers
    Leader,        \* the one that is asked to copy its files
    MaxBackups,    \* bound on backups
    MaxTxns,       \* bound on transactions
    MaxSnapshots,  \* bound on snapshots taken by ZooKeeper
    MaxFaults,     \* bound on failed steps, lost connections, kills of the daemon, restarts
    UnknownTxns    \* the transactions of types that parse_transaction_logs.py does not know

ASSUME ServersAssumption == Leader \in Servers
ASSUME BoundsAssumption == {MaxBackups, MaxTxns, MaxSnapshots, MaxFaults} \subseteq Nat
ASSUME UnknownAssumption == UnknownTxns \subseteq Nat

\* The folders of the backups, named by the time at which each was started.
Backups == 1..MaxBackups

VARIABLES
    \* ZooKeeper, external
    txns,       \* the number of transactions so far
    files,      \* the leader's data directory
    rolled,     \* the next transaction opens a new log
    saving,     \* a snapshot is being written
    clock,      \* the time of the next change of a file
    pod,        \* pod[s]: "up" or "down"
    data,       \* data[s]: the recovered files server s started from, {} if its own
    \* the shared file system
    tmp,        \* backup-storage/tmp: does it exist, its files
    recover,    \* backup-storage/recover: its files
    backups,    \* backups[b]: the folder of backup b, and what happened during it
    store,      \* store[b]: the request of backup b to /store; is its answer lost
    \* the daemon
    pc, current, todo,
    recovered,  \* the backup that was recovered last, successfully, as a set
    disturbed,  \* servers that restarted while its files were being removed
    leftover,   \* its recovery began with files of another one
    dirty,      \* the directories left behind: by a killed daemon, by a request to whose
                \* answer nobody listens, by a removal that failed
    snapshots, faults

zkVars == <<txns, files, rolled, saving, clock, snapshots>>
podVars == <<pod, data, disturbed>>
daemonVars == <<pc, current, todo>>
vars == <<zkVars, podVars, tmp, recover, backups, store, daemonVars, recovered, leftover,
          dirty, faults>>

BackupPhase == {"wait", "select", "logs"}
RecoveryPhase == {"copy", "scaleDown", "scaleUp", "remove", "abandon"}

Name(f) == <<f.kind, f.first>>
Names(fs) == {Name(f) : f \in fs}

\* A file replaces one of the same name.
Put(f, fs) == {g \in fs : Name(g) # Name(f)} \cup {f}

Snapshot(fs) == {f \in fs : f.kind = "snapshot"}
Log(fs) == {f \in fs : f.kind = "log"}

NoStore == [phase |-> "none", due |-> {}, done |-> {}, lost |-> FALSE]
\* instant: nothing disturbed the copy, between the transactions from and to
NoBackup == [state |-> "none", files |-> {}, from |-> 0, to |-> 0, instant |-> TRUE]
Failed == [NoBackup EXCEPT !.state = "failed"]
Disturbed == [NoBackup EXCEPT !.state = "running", !.instant = FALSE]

-----------------------------------------------------------------------------
(* ZooKeeper: transactions are appended to the last log, which the beginning *)
(* of a snapshot ends.                                                       *)

\* What it writes is followed until the leader starts from recovered files.
Writing == pod[Leader] = "up" /\ data[Leader] = {}

Append ==
    /\ txns < MaxTxns
    /\ Writing
    /\ txns' = txns + 1
    /\ files' = IF rolled
                THEN files \cup {[kind |-> "log", first |-> txns + 1, last |-> txns + 1,
                                  time |-> clock]}
                ELSE {IF f.kind = "log" /\ f.last = txns
                      THEN [f EXCEPT !.last = txns + 1, !.time = clock]
                      ELSE f : f \in files}
    /\ rolled' = FALSE
    /\ clock' = clock + 1
    /\ UNCHANGED <<saving, snapshots, podVars, tmp, recover, backups, store, daemonVars,
                   recovered, leftover, dirty, faults>>

\* A snapshot of what there is now; the next transaction opens a log.
NewSnapshot ==
    /\ files' = Put([kind |-> "snapshot", first |-> txns, last |-> txns, time |-> clock], files)
    /\ rolled' = TRUE
    /\ clock' = clock + 1

\* It is begun in a thread of its own.  A backup whose request is being answered may take
\* up any part of it.
BeginSnapshot ==
    /\ snapshots < MaxSnapshots
    /\ ~rolled /\ ~saving
    /\ Writing
    /\ NewSnapshot
    /\ snapshots' = snapshots + 1
    /\ saving' = TRUE
    /\ backups' = [b \in Backups |->
                     IF pc = "wait" /\ current = {b} THEN Disturbed ELSE backups[b]]
    /\ UNCHANGED <<txns, podVars, tmp, recover, store, daemonVars, recovered, leftover,
                   dirty, faults>>

\* It is as recent as its last byte, and may have transactions made meanwhile.
FinishSnapshot ==
    /\ saving
    /\ Writing
    /\ \E z \in Snapshot(files) :
          /\ \A y \in Snapshot(files) : y.first <= z.first
          /\ files' = Put([z EXCEPT !.last = txns, !.time = clock], files)
    /\ clock' = clock + 1
    /\ saving' = FALSE
    /\ UNCHANGED <<txns, rolled, snapshots, podVars, tmp, recover, backups, store,
                   daemonVars, recovered, leftover, dirty, faults>>

\* A server that starts from its own files, not from recovered ones, writes a snapshot
\* before it serves; an unfinished one is not finished.
LoadData(s) ==
    /\ IF s = Leader /\ recover = {} /\ data[s] = {}
       THEN NewSnapshot
       ELSE UNCHANGED <<files, rolled, clock>>
    /\ saving' = (saving /\ s # Leader)
    /\ UNCHANGED <<txns, snapshots>>

-----------------------------------------------------------------------------
(* storeZooKeeperFiles: the steps of a request to /store.                  *)

Active(r) == store[r].phase \in {"remove", "mkdir", "copy"}

\* Nobody listens to the answer any more; the handler goes on.
Unheard(r) == IF Active(r) THEN [store[r] EXCEPT !.lost = TRUE] ELSE NoStore

\* The end of a request: its answer, if anybody listens.
Answer(r, p) == IF store[r].lost THEN NoStore ELSE [NoStore EXCEPT !.phase = p]
End(r, p) == store' = [store EXCEPT ![r] = Answer(r, p)]

storeVars == <<zkVars, podVars, recover, backups, daemonVars, recovered, leftover>>

RemoveAll(r) ==
    /\ store[r].phase = "remove"
    /\ tmp' = [exists |-> FALSE, files |-> {}]
    /\ store' = [store EXCEPT ![r].phase = "mkdir"]
    /\ UNCHANGED <<storeVars, dirty, faults>>

\* os.Mkdir fails if another request has just created the directory.
Mkdir(r) ==
    /\ store[r].phase = "mkdir"
    /\ \/ /\ ~tmp.exists
          /\ tmp' = [exists |-> TRUE, files |-> {}]
          /\ store' = [store EXCEPT ![r].phase = "copy", ![r].due = Names(files)]
          /\ dirty' = IF store[r].lost THEN dirty \cup {"tmp"} ELSE dirty
       \/ /\ tmp.exists
          /\ End(r, "error")
          /\ UNCHANGED <<tmp, dirty>>
    /\ UNCHANGED <<storeVars, faults>>

\* Mutant of Copy: the copy goes on in a directory that was removed.
CopyAnywhere(r) ==
    /\ store[r].phase = "copy"
    /\ \E f \in files :
          /\ Name(f) \notin store[r].done
          /\ tmp' = [tmp EXCEPT !.files = Put(f, @)]
          /\ store' = [store EXCEPT ![r].done = @ \cup {Name(f)}]
    /\ UNCHANGED <<storeVars, dirty, faults>>

\* "cp -rp" copies one file after the other, in the order of the directory; files
\* created meanwhile may or may not be seen.  It fails without its target.
Copy(r) ==
    /\ store[r].phase = "copy"
    /\ \/ /\ tmp.exists
          /\ \E f \in files :
                /\ Name(f) \notin store[r].done
                /\ tmp' = [tmp EXCEPT !.files = Put(f, @)]
                /\ store' = [store EXCEPT ![r].done = @ \cup {Name(f)}]
       \/ /\ ~tmp.exists
          /\ End(r, "error")
          /\ UNCHANGED tmp
    /\ UNCHANGED <<storeVars, dirty, faults>>

\* Mutant of Copied: the answer does not wait for the copy.
Started(r) ==
    /\ store[r].phase = "copy"
    /\ store[r].done # {}
    /\ End(r, "ok")
    /\ UNCHANGED <<tmp, storeVars, dirty, faults>>

Copied(r) ==
    /\ store[r].phase = "copy"
    /\ store[r].due \subseteq store[r].done
    /\ End(r, "ok")
    /\ UNCHANGED <<tmp, storeVars, dirty, faults>>

\* A step fails, and the handler answers so; or the request never reached it.
StoreFails(r) ==
    /\ Active(r)
    /\ faults < MaxFaults
    /\ faults' = faults + 1
    /\ End(r, "error")
    /\ UNCHANGED <<tmp, storeVars, dirty>>

\* The requests end with their pod.
Aborted == [r \in Backups |-> IF Active(r) THEN Answer(r, "error") ELSE store[r]]

StoreStep(r) == RemoveAll(r) \/ Mkdir(r) \/ Copy(r) \/ Copied(r)

-----------------------------------------------------------------------------
(* transactional_backup.                                                   *)

SetBackup(b, new) == backups' = [backups EXCEPT ![b] = new]

\* The temporary directory is created, the leader is found and asked to copy.
StartBackup(b) ==
    /\ pc = "idle"
    /\ backups[b].state = "none" /\ \A a \in 1..(b - 1) : backups[a].state # "none"
    /\ Writing
    /\ tmp' = [tmp EXCEPT !.exists = TRUE]
    /\ store' = [store EXCEPT ![b] = [NoStore EXCEPT !.phase = "remove"]]
    /\ SetBackup(b, IF saving \/ \E a \in Backups : Active(a)
                    THEN Disturbed
                    ELSE [NoBackup EXCEPT !.state = "running", !.from = txns])
    /\ pc' = "wait" /\ current' = {b} /\ todo' = {}
    /\ UNCHANGED <<zkVars, podVars, recover, recovered, leftover, dirty, faults>>

\* Every way out removes the temporary directory (finally).  rmtree raises an exception
\* if a request that goes on puts files there meanwhile, and leaves some.  The folder of a
\* backup that failed is not looked at again.
Leave(b, new) ==
    /\ \/ /\ tmp' = [exists |-> FALSE, files |-> {}]
          /\ SetBackup(b, new)
          /\ dirty' = dirty \ {"tmp"}
       \/ /\ tmp.exists /\ \E a \in Backups : store[a].phase = "copy"
          /\ \E fs \in SUBSET tmp.files : tmp' = [tmp EXCEPT !.files = fs]
          /\ SetBackup(b, Failed)
          /\ dirty' = dirty \cup {"tmp"}
    /\ pc' = "idle" /\ current' = {} /\ todo' = {}

\* Mutant of Answered: an answer other than Ok is not an answer.
AnsweredOk(b) ==
    /\ pc = "wait" /\ current = {b}
    /\ store[b].phase = "ok"
    /\ pc' = "select"
    /\ backups' = [backups EXCEPT ![b].to = IF backups[b].instant THEN txns ELSE 0]
    /\ store' = [store EXCEPT ![b] = NoStore]
    /\ UNCHANGED <<tmp, current, todo, dirty, zkVars, podVars, recover, recovered,
                   leftover, faults>>

Answered(b) ==
    /\ pc = "wait" /\ current = {b}
    /\ \/ /\ store[b].phase = "ok"
          /\ pc' = "select"
          /\ backups' = [backups EXCEPT ![b].to = IF backups[b].instant THEN txns ELSE 0]
          /\ UNCHANGED <<tmp, current, todo, dirty>>
       \/ /\ store[b].phase = "error"
          /\ Leave(b, Failed)
    /\ store' = [store EXCEPT ![b] = NoStore]
    /\ UNCHANGED <<zkVars, podVars, recover, recovered, leftover, faults>>

\* The connection breaks without a sign: the handler goes on, and requests.post, which has
\* no timeout, waits for an answer that does not come.
LoseAnswer(b) ==
    /\ pc = "wait" /\ current = {b}
    /\ store[b].phase # "none" /\ ~store[b].lost
    /\ faults < MaxFaults
    /\ faults' = faults + 1
    /\ store' = [store EXCEPT ![b] = Unheard(b)]
    /\ UNCHANGED <<zkVars, podVars, tmp, recover, backups, daemonVars, recovered,
                   leftover, dirty>>

\* A step of the daemon raises an exception: the connection breaks, with the handler going
\* on, or a log cannot be read.
BackupFails(b) ==
    /\ pc \in BackupPhase /\ current = {b}
    /\ faults < MaxFaults
    /\ faults' = faults + 1
    /\ Leave(b, Failed)
    /\ store' = [store EXCEPT ![b] = Unheard(b)]
    /\ UNCHANGED <<zkVars, podVars, recover, recovered, leftover>>

\* get_snapshot_and_transaction_logs, copy_snapshot: the last snapshot, and the logs
\* written after it.
Select(b) ==
    /\ pc = "select" /\ current = {b}
    /\ \/ /\ Snapshot(tmp.files) = {}
          /\ Leave(b, Failed)
       \/ \E f \in Snapshot(tmp.files) :
             /\ \A g \in Snapshot(tmp.files) : g.time <= f.time
             /\ backups' = [backups EXCEPT ![b].files = {[f EXCEPT !.time = 0]}]
             /\ todo' = Names({g \in Log(tmp.files) : g.time > f.time})
             /\ pc' = "logs"
             /\ UNCHANGED <<tmp, current, dirty>>
    /\ UNCHANGED <<zkVars, podVars, recover, store, recovered, leftover, faults>>

\* filter_and_store_transaction_log reads a log up to its end, or up to the first
\* transaction of a type it does not know.
Readable(f, n) ==
    /\ f.first <= n + 1
    /\ \A t \in UnknownTxns : ~(f.first <= t /\ t <= n)
    /\ n = f.last \/ n + 1 \in UnknownTxns

\* filter_and_store_transaction_logs: each log is stored as far as it is read; an
\* exception if it has gone.  After the last one the backup is successful.
StoreLog(b) ==
    /\ pc = "logs" /\ current = {b}
    /\ \/ \E f \in Log(tmp.files) :
             /\ Name(f) \in todo
             /\ todo' = todo \ {Name(f)}
             /\ \E n \in 0..f.last :
                   /\ Readable(f, n)
                   /\ backups' = [backups EXCEPT
                                    ![b].files = @ \cup {[f EXCEPT !.last = n, !.time = 0]}]
             /\ UNCHANGED <<tmp, pc, current, dirty>>
       \/ ~(todo \subseteq Names(tmp.files)) /\ Leave(b, Failed)
       \/ todo = {} /\ Leave(b, [backups[b] EXCEPT !.state = "done"])
    /\ UNCHANGED <<zkVars, podVars, recover, store, recovered, leftover, faults>>

-----------------------------------------------------------------------------
(* transactional_recovery.                                                 *)

\* The directory is created unless it exists; what it holds stays.
StartRecovery(b) ==
    /\ pc = "idle"
    /\ backups[b].state = "done"
    /\ pc' = "copy" /\ current' = {b} /\ todo' = backups[b].files
    /\ recovered' = {} /\ disturbed' = {}
    /\ leftover' = (recover # {})
    /\ UNCHANGED <<zkVars, pod, data, tmp, recover, backups, store, dirty, faults>>

CopyToRecover ==
    /\ pc = "copy"
    /\ \/ \E f \in todo :
             /\ recover' = Put(f, recover)
             /\ todo' = todo \ {f}
             /\ UNCHANGED pc
       \/ /\ todo = {}
          /\ pc' = "scaleDown"
          /\ UNCHANGED <<recover, todo>>
    /\ UNCHANGED <<zkVars, podVars, tmp, backups, store, current, recovered,
                   leftover, dirty, faults>>

\* All pods are stopped, with a check; a request to /store ends with its pod.
ScaleDown ==
    /\ pc = "scaleDown"
    /\ pod' = [s \in Servers |-> "down"]
    /\ store' = Aborted
    /\ pc' = "scaleUp"
    /\ UNCHANGED <<zkVars, data, disturbed, tmp, recover, backups, current, todo,
                   recovered, leftover, dirty, faults>>

\* Mutant of ScaleUp: no check that the pods are up.
ScaleUpUnchecked ==
    /\ pc = "scaleUp"
    /\ pc' = "remove"
    /\ UNCHANGED <<zkVars, podVars, tmp, recover, backups, store, current, todo,
                   recovered, leftover, dirty, faults>>

\* The pods are started, and checked.
ScaleUp ==
    /\ pc = "scaleUp"
    /\ \A s \in Servers : pod[s] = "up"
    /\ pc' = "remove"
    /\ UNCHANGED <<zkVars, podVars, tmp, recover, backups, store, current, todo,
                   recovered, leftover, dirty, faults>>

\* remove_directory_with_content, file by file; then the recovery is successful.
RemoveRecover ==
    /\ pc \in {"remove", "abandon"}
    /\ \/ \E f \in recover :
             /\ recover' = recover \ {f}
             /\ UNCHANGED <<pc, current, recovered, dirty>>
       \/ /\ recover = {}
          /\ pc' = "idle" /\ current' = {}
          /\ recovered' = IF pc = "remove" THEN current ELSE {}
          /\ dirty' = dirty \ {"recover"}
          /\ UNCHANGED recover
    /\ UNCHANGED <<zkVars, podVars, tmp, backups, store, todo, leftover, faults>>

\* Mutant of RecoveryFails: nothing is removed.
RecoveryFailsDirty ==
    /\ pc \in {"copy", "scaleDown", "scaleUp"}
    /\ faults < MaxFaults
    /\ faults' = faults + 1
    /\ pc' = "idle" /\ todo' = {} /\ current' = {}
    /\ UNCHANGED <<zkVars, podVars, tmp, recover, backups, store, recovered, leftover,
                   dirty>>

\* A step of the recovery raises an exception: the directory is removed all the same.
RecoveryFails ==
    /\ pc \in {"copy", "scaleDown", "scaleUp"}
    /\ faults < MaxFaults
    /\ faults' = faults + 1
    /\ pc' = "abandon" /\ todo' = {}
    /\ UNCHANGED <<zkVars, podVars, tmp, recover, backups, store, current, recovered,
                   leftover, dirty>>

\* The daemon is killed: nothing is cleaned up, a running request goes on.
Kill ==
    /\ pc # "idle"
    /\ faults < MaxFaults
    /\ faults' = faults + 1
    /\ dirty' = dirty \cup (IF pc \in BackupPhase THEN {"tmp"} ELSE {"recover"})
    /\ store' = [b \in Backups |-> IF b \in current THEN Unheard(b) ELSE store[b]]
    /\ pc' = "idle" /\ current' = {} /\ todo' = {}
    /\ backups' = [b \in Backups |-> IF backups[b].state = "running" THEN Failed ELSE backups[b]]
    /\ UNCHANGED <<zkVars, podVars, tmp, recover, recovered, leftover>>

-----------------------------------------------------------------------------
(* docker-entrypoint.sh: what a server finds in the recovery directory     *)
(* replaces its files, if there is anything.                               *)

Entrypoint(s) == data' = IF recover = {} THEN data ELSE [data EXCEPT ![s] = recover]

\* The Deployments are scaled up by the daemon, or by the operator's next cycle.
StartPod(s) ==
    /\ pod[s] = "down"
    /\ pod' = [pod EXCEPT ![s] = "up"]
    /\ Entrypoint(s)
    /\ LoadData(s)
    /\ UNCHANGED <<disturbed, tmp, recover, backups, store, daemonVars, recovered,
                   leftover, dirty, faults>>

\* A pod restarts by itself; the requests to its server fail.
RestartPod(s) ==
    /\ pod[s] = "up"
    /\ faults < MaxFaults
    /\ faults' = faults + 1
    /\ Entrypoint(s)
    /\ LoadData(s)
    /\ disturbed' = IF pc \in {"remove", "abandon"} THEN disturbed \cup {s} ELSE disturbed
    /\ store' = IF s = Leader THEN Aborted ELSE store
    /\ UNCHANGED <<pod, tmp, recover, backups, daemonVars, recovered, leftover, dirty>>

-----------------------------------------------------------------------------
Init ==
    /\ txns = 0
    /\ files = {[kind |-> "snapshot", first |-> 0, last |-> 0, time |-> 1]}
    /\ rolled = TRUE /\ saving = FALSE
    /\ clock = 2
    /\ pod = [s \in Servers |-> "up"]
    /\ data = [s \in Servers |-> {}]
    /\ tmp = [exists |-> FALSE, files |-> {}]
    /\ recover = {}
    /\ backups = [b \in Backups |-> NoBackup]
    /\ store = [b \in Backups |-> NoStore]
    /\ pc = "idle"
    /\ current = {}
    /\ todo = {}
    /\ recovered = {}
    /\ disturbed = {}
    /\ leftover = FALSE
    /\ dirty = {} /\ snapshots = 0 /\ faults = 0

BackupStep(b) == Answered(b) \/ Select(b) \/ StoreLog(b)

DaemonStep == \/ \E b \in Backups : BackupStep(b)
              \/ CopyToRecover \/ ScaleDown \/ ScaleUp \/ RemoveRecover

Next == \/ Append \/ BeginSnapshot \/ FinishSnapshot
        \/ \E b \in Backups : \/ StoreStep(b) \/ StoreFails(b)
                             \/ StartBackup(b) \/ LoseAnswer(b) \/ BackupFails(b)
                             \/ StartRecovery(b)
        \/ DaemonStep \/ RecoveryFails \/ Kill
        \/ \E s \in Servers : StartPod(s) \/ RestartPod(s)

\* The scripts and the copying server run; scaled up pods start.
Fairness == /\ WF_vars(DaemonStep)
            /\ WF_vars(\E b \in Backups : StoreStep(b))
            /\ WF_vars(\E s \in Servers : StartPod(s))

Spec == Init /\ [][Next]_vars /\ Fairness

-----------------------------------------------------------------------------
(* Properties.                                                             *)

FileName == {"snapshot", "log"} \X Nat
File == [kind : {"snapshot", "log"}, first : Nat, last : Nat, time : Nat]
Directory == [exists : BOOLEAN, files : SUBSET File]
Backup == [state : {"none", "running", "failed", "done"}, files : SUBSET File,
           from : Nat, to : Nat, instant : BOOLEAN]
StoreRequest == [phase : {"none", "remove", "mkdir", "copy", "ok", "error"},
                 due : SUBSET FileName, done : SUBSET FileName, lost : BOOLEAN]

ZooKeeperType ==
    /\ txns \in Nat /\ clock \in Nat /\ snapshots \in Nat
    /\ rolled \in BOOLEAN /\ saving \in BOOLEAN
    /\ files \subseteq File
    /\ pod \in [Servers -> {"up", "down"}] /\ data \in [Servers -> SUBSET File]
    /\ disturbed \subseteq Servers

StorageType ==
    /\ recover \subseteq File
    /\ tmp \in Directory /\ (tmp.files # {} => tmp.exists)
    /\ backups \in [Backups -> Backup]
    /\ store \in [Backups -> StoreRequest]

DaemonType ==
    /\ pc \in {"idle"} \cup BackupPhase \cup RecoveryPhase
    /\ pc = "logs" => todo \subseteq FileName
    /\ pc = "copy" => todo \subseteq File
    /\ pc \notin {"logs", "copy"} => todo = {}
    /\ current \subseteq Backups /\ recovered \subseteq Backups
    /\ leftover \in BOOLEAN /\ dirty \subseteq {"tmp", "recover"} /\ faults \in Nat

\* Types: every variable stays in its domain; the temporary directory has no files
\* unless it exists; the daemon has files or names left to do only while it copies.
TypeOK == ZooKeeperType /\ StorageType /\ DaemonType

\* What ZooKeeper is sure to have after a start from these files: the last snapshot and
\* the transactions of the logs.
Replayed(fs) ==
    {t \in 1..MaxTxns :
       \E z \in Snapshot(fs) : /\ \A y \in Snapshot(fs) : y.first <= z.first
                               /\ t <= z.first \/ \E f \in Log(fs) : t \in f.first..f.last}

\* "restore the system state that was at a moment of the backup": if ZooKeeper wrote no
\* snapshot between the request to the leader and its answer, and no earlier request was
\* still at work, a successful backup stands for the transactions up to one, n, made at
\* the latest when the answer came, and at the earliest when the request was sent; unless
\* the next one is of a type that the filter of the logs does not know, or the log after
\* the snapshot ends with transactions made while that was written: it is then older than
\* the snapshot and not stored, and the snapshot may have some of its transactions.
BackupIsOfOneMoment ==
    \A b \in Backups :
       backups[b].state = "done" /\ backups[b].instant =>
          \E n \in 0..backups[b].to :
             /\ Replayed(backups[b].files) = 1..n
             /\ \/ /\ backups[b].from <= n
                   /\ \A z \in Snapshot(backups[b].files) : z.last <= n
                \/ n + 1 \in UnknownTxns
                \/ \E z \in Snapshot(backups[b].files) : /\ z.first = n /\ n < z.last
                                                        /\ backups[b].from <= z.last

\* After a successful recovery every server has started from exactly the files of the
\* backup, whenever pods restarted during it, and keeps them when it restarts later;
\* except for a server that restarted while the files were removed, and after a
\* recovery that began with the files of one whose daemon was killed.
RecoveredEverywhere ==
    \A b \in recovered : ~leftover =>
       \A s \in Servers \ disturbed : data[s] = backups[b].files

\* When no backup or recovery is running, both temporary directories are gone, whichever
\* step failed: no later start of a server takes up files of an earlier recovery, and the
\* next run after one that left something cleans up after both.  A directory is left only
\* by a daemon that is killed while it uses it, by a request to /store that creates it
\* after its daemon has stopped listening (a broken connection, a kill), and by a removal
\* that fails because such a request writes there.
LeavesNothing ==
    pc = "idle" => /\ recover # {} => "recover" \in dirty
                   /\ tmp.exists => "tmp" \in dirty

\* Every backup and every recovery ends, whatever fails or restarts; except for a backup
\* whose connection to the leader broke without a sign.
Ends == []<>(pc = "idle" \/ (pc = "wait" /\ \A b \in current : store[b] = NoStore))
=============================================================================
