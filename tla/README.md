# A TLA+ model of the ZooKeeper operator

The repository holds a Kubernetes operator for Apache ZooKeeper (Go,
`operator/`), the images it deploys (`docker-zookeeper/`, `backup-daemon/`,
`monitoring/`) and their scripts. This directory models what keeps state: the
operator's reconciliation, its rollout of the servers, its handling of
credentials in Vault and of volume claims, and the transactional backup that the
backup daemon, the ZooKeeper containers and a shared file system make together.

Paths below are relative to the repository root; `controller` is
`operator/controllers/zookeeperservice_controller.go`.

## The system

| Part | State | Operations | Modelled in |
|---|---|---|---|
| ZooKeeperService controller | `ResourceHashes`, `ResourceVersions` (in memory), conditions of the custom resource | `Reconcile`, `updateConditions`, `writeFailedStatus`, event predicates | `ReconcileCycle` |
| ZooKeeper reconciler | one Deployment per server | gate, per-server loop, downscale, rolling wait, status, restart annotations | `ReconcileCycle`, `ZooKeeperRollout` |
| Monitoring, backup daemon reconcilers | one Deployment each | gate, Deployment, status, restart annotations | `ReconcileCycle` |
| Integration tests reconciler | none | readiness check | `ReconcileCycle` |
| Secret watching | owner references, restart annotations | `watchSecret`, `applyAutoRestartSecretAnnotations`, `updateDeploymentSecretRestartAnnotations` | `ReconcileCycle`, `VaultCredentials` |
| Vault secret management | entries, policies and roles in Vault, Kubernetes secrets, versions in the status | the three `processVaultSecrets` and what they call | `VaultCredentials`, abstractly `CredentialHandover` |
| Volume claims | claims, their annotations, `status.pvcStatus` | `createPersistentVolumeClaim`, `updatePersistentVolumeClaim`, `processSnapshotsPersistentVolumeClaim`, `updateStatus` | `VolumeClaims` |
| `/store` server, entrypoint, backup scripts | files of ZooKeeper, `tmp`, `recover` and the backups on the shared file system | `storeZooKeeperFiles`, `transactional_backup`, `transactional_recovery`, start of a container | `TransactionalBackup` |

How the parts interact: the work queue calls `Reconcile` with the only custom
resource. It reads the resource from the informer cache, compares the hash of
the spec with the recorded one, and runs the services in a fixed order. Each
service watches its secrets, then decides with its *gate* (recorded hash of its
section, of the global section, recorded versions of its secrets) whether to
build its Deployments again; on the way it creates its volume claims and, with
Vault, moves the contents of its secrets there. It then writes restart
annotations whether or not the gate was open, and records its hash. When all
services are done the outcome is published and the hashes of the spec and of the
global section are recorded. An error anywhere ends the call, writes `Failed`
and queues the request again; a panic is recovered by the runtime and retried.

What makes this hard: the hashes are recorded in several steps and lost on a
restart; the spec and the secrets are read once and may be old; every update may
conflict with a user's; services share global state (`globalHashName`, versions
of shared secrets, the map of Vault versions, the claim of the snapshots); the
operator updates the very objects whose events wake it. The backup has three
programs with no lock between them.

## Modules

* `ReconcileCycle.tla`: one call of the controller's `Reconcile` as a sequence of
  actions, with users, the informer cache, failed calls and restarts in between.
  Theorems in `ReconcileCycleProofs.tla`, instances in `MCReconcile.tla`.
* `ZooKeeperRollout.tla`: the ZooKeeper reconciler's loop over the servers, with
  Deployments, pods and their statuses. Theorems in `ZooKeeperRolloutProofs.tla`,
  instances in `MCRollout.tla`.
* `VaultCredentials.tla`: `processVaultSecrets` of the three services in the cycle
  that runs them. Instances in `MCVault.tla`. Theorems in `VaultNamesProofs.tla`
  (types, where the names are, what Vault holds before pods read it) and in two
  modules that extend it: `VaultCredentialsProofs.tla` (refinement, reported
  versions, rotations) and `VaultRestartProofs.tla` (replaced pods).
* `CredentialHandover.tla`: what the former promises for user names, in four
  variables and three actions, with the theorem that no name is lost.
* `VolumeClaims.tla`: the claims and their annotations. Theorems in
  `VolumeClaimsProofs.tla`.
* `TransactionalBackup.tla`: backup, copying server, recovery and start script.
  Theorems in `TransactionalBackupProofs.tla`.

The modules cut the same `Reconcile` along different data; each says in its
header what it holds fixed. They share no variables: what one needs of another's
part of the cycle (the gate, the recorded hashes, failure and retry) it models
itself, so each can be read beside the code alone.

### ReconcileCycle

State: `spec`, `secrets`, `conditions` (the API server); `cached...` (informer
cache); the recorded hashes and versions; `template` and annotations of every
Deployment; the instance the running call works on and the position in the call.

Data abstraction. A section of the spec is its *stamp*: the number of the edit
that wrote it, 0 when the section is absent. Two hashes are equal exactly when
the stamps are, which is SHA-256 without collisions. A Deployment is the stamps
of the sections its provider reads (`ServerInputs`, `MonitoringInputs`,
`BackupDaemonInputs`) and the secret versions in its annotations. With
`AllowRevert` a user may also write an earlier stamp back.

Actions follow the code in order: `Begin` (read, compare, reset of the
conditions), `NextService`, `watchSecret`, `Skip`/`Enter` (the gate),
`processVaultSecrets`, `Deploy`, `UpdateServiceStatus`, `Annotate` (with the
recording of hash and versions), `Publish`, `AwaitReadiness`, `ProbeService`,
`ServiceVerdict`, `Finish`. `watchSecretConflict`, `processVaultSecretsConflict`
and `StatusConflict` are the refused updates; `CallFails` is any call that fails;
each ends the call as the code's error returns do. `EditSpec`, `EditSecret`,
`DeliverCustomResource`, `DeliverSecret` and `Restart` happen at any time.

A failed call has no effect: an update that is applied although its answer is
lost is not modelled for status updates (for Deployments and secrets it equals a
failure of the next call). A conflict on the first status update of a call puts
the request back and changes nothing, so it is a stuttering step of `Begin`.

Assumed: every named secret exists, S3 is enabled, no Deployment opts out of the
restart by annotation, the custom resource is not deleted. Services, accounts,
volume claims and configuration maps only appear as calls that may fail.

### ZooKeeperRollout

Each server has a Deployment (strategy Recreate, one replica), at most one pod
with a phase and readiness, and a status its controller updates later
(`observed`). The operator side is the gate, the count of active Deployments,
`Downscale` (one Deployment per step), `CleanSecret`, `UpdateServer`,
`AwaitRunning`, `AwaitReady`, `UpdateStatus`, `Annotate`; the cluster side is
`RemovePod`, `CreatePod`, `AdvancePod`, `SyncStatus`, `PodFails` (external).
`SleepCoversSync` is the assumption the code makes with its ten second sleep:
the Deployment controller has updated the status before the poll starts.
`isDeploymentReady` itself does not look at `observedGeneration`, so without the
assumption the readiness of the old pod may be taken for that of the new one.
The informer cache is not part of this module.

### VaultCredentials and CredentialHandover

State: the entries of Vault (`admin`, `client`, `additional` of ZooKeeper,
`daemon` of the backup daemon) with version and name, the policies and roles that
exist, the secrets with their names, refresh request and owner, the versions
reported in the status, the Deployments with their annotations, caches, the
operator's memory, and the running call with its copies of the secrets and its
in-memory `SecretVersions`. The spec stays as installed; its updates are the
subject of `ReconcileCycle`.

A name is the number of the user update that wrote it, 0 if absent; a password is
the version of the entry it was written with. One action per call that the code
makes: `watchSecret`, `Gate`, `WritePoliciesAndRoles`, `NewPasswordGenerator`
(whose shadowed error leaves the policy unwritten and goes on), the four
`process...Credentials`, `cleanSecretData`, `Deploy`, `UpdateServiceStatus`,
`Annotate`, `Finish`. A call may fail without effect (`CallFails`), or have its
effect and lose its answer (`WriteVaultSecretUnanswered`, `cleanSecretDataFails`);
after either, the write of `Failed` may fail too. `processCredentialsPanic` is the
write into a nil map. Users update names and requests and remove secrets.

`CredentialHandover` says what this is for: a name that a user asked for is in the
secret or in Vault until the user asks for something else. `HandoverKept` is that
specification under the mapping `given` = names in the secrets, `kept` = names in
Vault. A user *asks* for a name by installing it over an empty Vault or by writing
it with a refresh request, which are the two cases in which the code, and
`docs/public/installation.md:600`, use it. A name written without a request over
an entry that exists is discarded when the secret is cleaned; that is the
documented behaviour.

### VolumeClaims

State: the wanted annotations, replicas and storage kind; the annotations the
status reports as applied; the claims with theirs; the recorded hashes; the
running call. An annotation's value is the number of the update that wrote it.
`ProcessSnapshots`, `ProcessServer` and `ProcessBackup` are the three places that
create or update a claim, `updateStatus` and `Finish` the end of the cycle.
`updateZooKeeperStatus` is the status update after the servers
(`zookeeper_reconciler.go:232`), which conflicts with a user's edit before
ZooKeeper's hash is recorded (`:248`); `StatusConflict` is the same for Monitoring
and the backup daemon, when the global section opened their gates.
`Panic` covers the copy into the nil map of a claim without annotations (until
Kubernetes binds and annotates it) and the index into a list of volumes that is
shorter than the number of servers. The kind of storage is the same for ZooKeeper
and the backup daemon, which share the claim by default. The custom resource is
read without lag: a stale read ends in the same conflict as an edit after the
read.

### TransactionalBackup

State: the leader's snapshot and log files, the shared directories `tmp` and
`recover`, the backups, for each backup its request to `/store`, the daemon's
position, the pods and the recovered files each started from. Transactions are
numbers, a file its range and modification time (which `cp -p` and `copy2` keep, and
at which nobody looks once a backup is stored). `RemoveAll`, `Mkdir`, `Copy` (file by
file), `Copied` are the steps of `storeZooKeeperFiles`; `StartBackup`, `Answered`,
`Select`, `StoreLog` those of `transactional_backup`; `StartRecovery`,
`CopyToRecover`, `ScaleDown`, `ScaleUp`, `RemoveRecover` those of
`transactional_recovery`; `Entrypoint` is `docker-entrypoint.sh:435`. The platform
library that scales and checks the pods, ZooKeeper and the kubelet are external.

The handler of a request does not notice that nobody listens to it. When the daemon
is killed, or `requests.post` (`backup.py:119`) raises because the connection broke
(`BackupFails`), the request goes on beside whatever the daemon does next: it may
create `tmp` again after the `finally` has removed it, write into it while `rmtree`
works, which then raises (`Leave`), or meet the request of the next backup. When the
connection breaks without a sign (`LoseAnswer`), the daemon waits for an answer that
does not come: the request has no timeout.

ZooKeeper writes a snapshot in two steps. `BeginSnapshot` ends the log;
`FinishSnapshot` gives the snapshot its modification time and, perhaps, the
transactions made meanwhile. A log whose last transaction falls in between is
older than the snapshot and is not selected (`process_zookeeper_logs.py:58`).

`StoreLog` stores a log as far as the parser reads it. The parser drops the
transactions of sessions, of which the properties do not speak, and ends the log
before the first transaction of a type it does not know (`UnknownTxns`,
`process_zookeeper_logs.py:93`); the backup is successful all the same. Creations of
ephemeral nodes are kept: `read_bool` (`parse_transaction_logs.py:199`) compares a
tuple with 0, so the flag that would drop them is never seen.

History variables: `instant` and the window `from`, `to` of a backup, in which
nothing disturbed the copy; `dirty`, the directories that one of the ways above left
behind; `leftover` and `disturbed` of a recovery.

Abstracted: a snapshot is named by the last logged transaction, and its own
transactions are certain up to that name only (replaying the log makes it exact); a
log begins after a snapshot or a restart, not when it reaches a size; the leader
stays the leader between lookup and request; a truncated log is an exception
(`BackupFails`); the folder of a failed backup is not looked at; the copy by the
entrypoint is one step; the leader's further writes are followed until it starts
from recovered files.

## Runs

Passing runs, with the number of distinct states TLC finds:

| Run | Module, states | Question |
|---|---|---|
| `edits` | `MCReconcile`, 520,000 | two servers, two edits of three sections (Monitoring comes and goes), two failures, one restart: is skipping sound (`GateSound`), the resting state applied (`QuietApplied`), the outcome right (`OutcomeConsistent`, `SuccessfulMeansApplied`)? also `TypeOK` and the inductive invariant `HashesVouch` |
| `vault` | `MCReconcile`, 340,000 | all services with Vault, updates of secrets: are the restart annotations current at rest (`QuietRestarted`), requests in unshared secrets processed (`QuietRefreshed`), does every step of the operator lead on (`Progress`), and does it come to rest (`Settles`)? |
| `rolling` | `MCRollout`, 150,000 | does a rolling update of three servers take down one at a time (`OnlyCurrentDisrupted`, `PassedAreReady`), leave nothing behind (`RestIsCurrent`) and end with all servers ready (`Completes`)? |
| `scale` | `MCRollout`, 2,700,000 | installation, up- and downscale without failed calls, pods failing: `RestIsCurrent`, `ExcessScaledDown`; does every step of the operator lead on (`Progress`)? |
| `credentials` | `MCVault`, 1,300,000 | are passwords rotated only on request (`RotatedOnRequest`), Deployments only made when Vault has what their pods read (`RunnableWhenDeployed`), pods replaced after a rotation (`RestartedAfterRotation`), versions reported (`ReportedAtRest`) and names handed over (`HandoverKept`, with its invariant `NamesAccounted`)? |
| `claims` | `VolumeClaims`, 475,000 | do the claims follow the spec (`ClaimsFollowSpec`), also after cycles cut short (`RetriesComplete`), does a predefined claim stay as it is (`PredefinedKept`), does every step of the operator lead on (`Progress`), and does it settle (`Settles`)? |
| `backup` | `TransactionalBackup`, 730,000 | is a successful backup the state of one moment (`BackupIsOfOneMoment`), does a recovery reach every server (`RecoveredEverywhere`), does everything end (`Ends`) and clean up but for what a kill or a broken connection leaves (`LeavesNothing`)? |

Runs in which the code disagrees with its documentation or its own messages
(TLC reports the violation; `PROJECT.json` quotes the lines):

| Run | What happens |
|---|---|
| `revert` | an edit fails half-way and is taken back: the old hash still matches, the service is skipped, the half-applied Deployments stay |
| `shared_refresh` | Monitoring records the version of the backup daemon's secret, so the backup daemon ignores the request to refresh it |
| `vault_retry` | the cleaned secret's version is recorded early (`zookeeper_vault.go:116`); after a failure the retry skips the rolling loop and restarts all servers at once |
| `partial_downscale` | a downscale that failed after its first Deployment is retried with a smaller count and leaves an excess server |
| `nil_versions` | installed over a Vault that has the entries, the operator stores no versions; a refresh of the backup daemon alone then writes into a nil map in every retry |

`Progress` is the part of "the operator comes to rest" that is about single steps.
The operator wakes itself: it updates the secrets and the status that it watches,
and retries what conflicts. `Progress` orders what is left to do (secrets without
owner, open requests, undelivered updates, the queued request, the position in the
call) and states that every step which is not a user's, a failure or a restart
lowers the first entry that it changes. The only way back is a retry for a
reason that the operator did not make and that others take away: outdated data in
`ReconcileCycle` until it is delivered, a claim that is not bound or a list of
volumes that is too short (`Stuck`) in `VolumeClaims`; in `ZooKeeperRollout`, which
has no cache, there is none. `Settles` in `VolumeClaims` therefore ends at rest or
`Stuck`.

What the passing properties leave out, because the code does it otherwise:

* `ClaimsFollowSpec` excludes cycles cut short (`cut`): keys that only a failed
  cycle added are not deleted when the next edit drops them, since the keys to
  delete are read from the status. It excludes claims that a change passed by
  (`missed`): scale down, change the annotations, scale up, and the claim of the
  returning server keeps the old ones. `RetriesComplete` excludes annotations
  that go back to what the status or the recorded hash stands for before a change
  is complete (`undone`): some claims then keep the change.
  `docs/public/installation.md:410` speaks of annotations "added to all Persistent
  Volume Claims (PVCs) created by the operator".
* `BackupIsOfOneMoment` excludes a snapshot that is written while `cp` copies
  (`instant`): if the snapshot is missed, the log it ended is copied without its
  last transactions or not at all, and the log that follows it is copied,
  transactions are missing in between. `docs/public/backup-modes.md:39` calls the mode
  consistent "because ZooKeeper structure is saved in an instant by copying
  necessary logs". It also excludes a copy beside an earlier request that is still
  at work. Two backups it covers but lets end early: one whose log was cut before a
  transaction of an unknown type, and one whose log was left out as older than the
  snapshot, which may then hold some of the transactions made while it was written.
* `RecoveredEverywhere` excludes a server that restarts by itself while the
  recovery directory is being removed, and a recovery that finds the files of one
  whose daemon was killed: `create_directory` keeps them.
* `LeavesNothing` excludes the directories in `dirty`: of a killed daemon, of a
  request that creates `tmp` after its daemon stopped listening, of a removal that
  such a request made fail. The next backup removes `tmp`, the next recovery
  `recover`; until then the start of any server takes up what is in `recover`.
* `Ends` excludes a backup whose connection broke without a sign.
* `RotatedOnRequest` allows one more rotation per failure: the retry of a cycle
  that wrote an entry and did not clean the secret writes it again.
* `ReportedAtRest` excludes versions whose status update was lost: they are
  reported with the next rotation only. It allows that, over a Vault that
  had the entries before the installation, an entry's version is not reported.
* `RestartedAfterRotation` excludes removed secrets: without a secret there is no
  version to put into the annotations.

More observations from the reading, without a run: the gates ignore
`vaultSecretManagement` (and Monitoring ignores edits of `backupDaemon`, from
which its Deployment is built too); the outcome is only written when the spec
changed (controller:116), so a failed cycle that a secret caused leaves `Failed`
after a successful retry; a readiness check that failed is not revised when the
pods become ready; in rolling mode only the server just updated is checked, while
`docs/public/installation.md:490` says the status of all servers is; a custom
resource deleted and created again with equal contents finds its hashes recorded
and gets no Deployments until the operator restarts; the secret of the S3 aliases is
read without being watched (`backupdaemon_reconciler.go:103`), so its update starts
no cycle.

Bounds. Every counter is bounded by a constant named `Max...` in the action that
raises it. A failure and a restart may fall between any two steps; in `edits` a
second failure makes a failed retry. Edits are enough for one during a cycle and
one during its retry; `claims` has four updates, which a revert after a change
after a scaling needs. Three servers are the smallest number for which the code
keeps rolling mode (`currentReplicas <= 2` switches it off); where the order of
servers matters but not their number there are two. `MaxVersion` in `credentials`
is above what one update and one fault can reach, and versions stop there only
where the code would go on for ever (`nil_versions`). In `backup` two backups make
a leftover of the first meet the second, two transactions and one snapshot make a
log that ends and one that begins. The first transaction is of an unknown type: the
log that begins with it is cut, and one that begins after it is stored whole, so a
log left out for its time is not mistaken for one that was cut. A log cut in its
middle needs another choice of `UnknownTxns` (with `{2}` the run passes too); the
theorem is for every choice. One fault is a failed step, a connection that breaks
with or without a sign, a kill or a restart. Deadlock is not checked in any run: an
operator at rest, or a daemon with no backups left, is a legitimate end.
`Settles`, `Completes` and `Ends` state that it is the right one.

Fairness. Weak fairness of the operator's steps and of the delivery of events
(the work queue retries, informers deliver eventually; the secrets' informer owes
some delivery, not one of each secret), of the cluster's steps in
`ZooKeeperRollout`, and in `TransactionalBackup` of the daemon, of the copying
server (some request goes on, also one that nobody listens to) and of the start of
scaled up pods. Nothing is assumed of the binding of claims, nor of the end of a
snapshot. Users, failures, pod failures, kills and restarts are never fair and are
bounded, which is the meaning of "once failures stop".

## Proofs

Every safety property of a passing run is also a theorem, for every value of the
constants that satisfies the named assumptions of the modules (at least one
server, Boolean flags, natural bounds, known services, sections and kinds of
storage) and the further assumptions that a theorem states.

`ReconcileCycleProofs`:

* `TypeCorrect`: `Spec => []TypeOK`.
* `VouchCorrect`, `GateIsSound`, `RestIsApplied`, `SuccessIsApplied`: under
  `~AllowRevert`, `HashesVouch`, `GateSound` and `QuietApplied` are invariants
  and `SuccessfulMeansApplied` holds of every step. The run `revert` shows that
  the assumption is needed.
* `OutcomeIsConsistent`: `Spec => []OutcomeConsistent`, with reverts too. Its
  invariant `OutcomeInv` adds that a cycle with a new spec starts from cleared
  conditions, reports no success while it runs, and has at most the service it is
  waiting for in progress.

`GateSound` is not inductive: that the gate is closed now says nothing about the
spec the next call reads. `HashesVouch` adds that: stamps are never reused, so a
recorded hash that equals the stamp of a later spec means the section did not
change since (`Follows`), and the Deployments built then are still right.
`RestInv` states it for the spec in the cache, `CallInv` for the instance of the
running call, `ServiceInv` for the services the call has already passed,
`QueueInv` that an unapplied spec always has a request or an undelivered event.
Each action then disturbs one conjunct: `Deploy` and `Annotate` `ServiceInv`,
`Finish` `RestInv`, edits and deliveries `QueueInv`; `Restart` forgets the hashes,
which makes the invariant easier.

* `RestIsRestarted`: `Spec => []QuietRestarted`, with reverts too. At rest nothing
  tells which call wrote an annotation, so the invariant follows a secret through
  the call. `VersionInv`: versions only grow, and a cached secret of the current
  version is the current secret. `ReadInv`: what the call has read so far is
  current or an event that wakes the operator is still to come. `MarkedInv`: the
  Deployments passed in the annotation loop carry what was read. `CarriedInv`:
  for the services that are done, without a queued request, so do all Deployments
  or an event is to come. `BasisInv`, `InstInv` and `BuiltInv` tie the call to the
  cached spec and to Deployments that exist.
* `RestIsRefreshed`: `Spec => []QuietRefreshed`. `ClearInv` says that a version
  that was recorded, or read by a call past `processVaultSecrets`, is not that of a
  secret with an open request; `ServedInv` that a service that is done left none,
  or an event is to come. Both are about the secrets that no other service
  records; for the shared one the statement is false (`shared_refresh`).
* `OperatorProgresses`: `Spec => Progress`, with reverts, for any number of servers
  and any bounds. Two steps need history. Emptying a secret lowers what is left only
  if its request is still open: `CleanInv` says that it is, or that the secret has
  changed since it was read, and then the update conflicts. A conflict may return
  the call only if something is undelivered: `ReadInv` gives it for secrets,
  `FetchedInv` (without a queued request the call works on the cached generation)
  for the custom resource.

`ZooKeeperRolloutProofs`:

* `TypeCorrect`: the loops stay inside the ensemble. It needs `CallInv`: a
  downscale never starts above what was counted, and no count exceeds the servers.
* `OneServerAtATime`, `PassedServersServe`: assuming `SleepCoversSync` and no pod
  that fails by itself, `OnlyCurrentDisrupted` and `PassedAreReady`. The invariant
  `RollingInv` adds that a status computed for the current template is right
  (`StatusTruthful`), that the servers passed have the call's template and a pod
  that matches it, and that the servers not yet reached are as they were. It is
  needed because readiness is read from a status: nothing about the pods follows
  from the step that reads it alone.
* `RestCurrent`: `Spec => []RestIsCurrent`, without assumptions. `RestInv` says
  that the recorded hash vouches for the Deployments (`HashVouches`), that a call
  whose instance or secret is out of date has a request queued behind it
  (`CallCurrent`), and what the call has brought up to date so far
  (`CallDeployed`).
* `NoExcess`: assuming that no call fails and the operator does not restart,
  `ExcessScaledDown`. `ScaleInv` says that the active Deployments are the first
  ones, which is why their count is also the highest of them, and which are left in
  the middle of a downscale. Without the assumption the statement is false
  (`partial_downscale`).
* `OperatorProgresses`: `Spec => Progress`. `FoundInv` says that the Deployments
  up to the last one the call counted exist, and that a secret which is as the call
  read it still has what the call is to empty. So a call fails by itself only if a
  user's update has queued a request behind it.

`CredentialHandover`: `NamesSurvive`, the abstract specification loses no name.

`VaultNamesProofs`:

* `TypeCorrect`.
* `NamesAlwaysAccounted`: `NamesAccounted` is inductive relative to `TypeOK`.
  `CopyInv` says that versions tell contents apart, so a copy with the current
  version is the secret; `CallInv` that the call works on entries of its service;
  `NameInv` where each name is: in Vault once the secret is empty, in Vault too
  once the pass over a fresh copy is beyond it, and in a secret whose refresh
  request protects it when a copy is stale.
* `DeploymentsRunnable`: `Spec => []RunnableWhenDeployed`. `VaultReady` adds that
  a recorded hash, like a Deployment, stands for a finished pass (`Prepared`) of
  its service, and that ZooKeeper's pass comes before the others'.

`VaultCredentialsProofs`:

* `HandoverImplemented`: `Spec => HandoverKept`. Initial states map to initial
  states; `ProcessEntry` maps to `Keep`, `cleanSecretData` to `Drop`, the users'
  actions to `Supply`, all others stutter. `NameInv` gives the guards of `Keep`
  and `Drop`. `NoNameLost` follows with `NamesSurvive`.
* `VersionsReported`: `Spec => []ReportedAtRest`. `ReportInv`: unless a status
  update was lost, every entry's version is the reported one or is still in the
  in-memory `SecretVersions` of a pass whose status update is to come.
* `OneRotationPerRequest`: `Spec => []RotatedOnRequest`. The bound is not
  inductive, since a request that is open may still raise a version. `RotationInv`
  counts the rotations *due* for an entry (a request in the call's copy, one in
  the secret that the copy does not show, a missing password policy) and bounds
  version and due rotations together; every action pays for what it adds.

`VaultRestartProofs`:

* `PodsReplaced`: `Spec => []RestartedAfterRotation`. `AnnotInv`: no annotation is
  ahead of its secret. `RestartInv`: a Deployment whose pods were not replaced
  either carries an old version, or its request is open and its service will pass
  the gate. `CatchInv`: a service the cycle left behind carries the current
  version or an event is to come. At rest the two exclude each other.

`VolumeClaimsProofs`:

* `TypeCorrect`, and `ClaimsInvariant`: `ClaimsInv` is inductive. `CallInv` ties
  the call and the recorded hashes to the spec, `ExistInv` the hashes to the claims
  that exist. `FollowInv` says, when no cycle was cut short, that a claim has the
  annotations of the call if this call handled it and those of the status if not.
  `CoverInv` is what remains after failures: unless users went back, a recorded
  hash equal to the wanted annotations, or a status that reports them, means that
  all claims have them.
* `ClaimsFollow`, `RetriesCompleteChange`: `ClaimsFollowSpec` and
  `RetriesComplete`, with the exceptions above. `PredefinedUntouched`:
  `Spec => PredefinedKept`.
* `OperatorProgresses`: `Spec => Progress`. A call returns early only by a fault, by
  a conflict with a user's edit, whose event has queued a request behind it, or by a
  panic, whose conditions are those of `Stuck`.

`TransactionalBackupProofs`:

* `TypeCorrect`, `NothingLeft`: `DaemonInv` relates the daemon's position to the
  directories, the requests (those that nobody listens to too) and the states of the
  backups; `NothingLeft` is `Spec => []LeavesNothing`, for any number of requests that
  go on at once.
* `FilesRecovered`: `Spec => []RecoveredEverywhere`. `ContentInv`: a directory has
  one file per name. `RecoverInv`: what is copied and what is to be copied are the
  backup, and pods that start before the directory goes start from all of it.
* `OneMoment`: `Spec => []BackupIsOfOneMoment`, for any set of unknown types.
  `FilesInv` describes ZooKeeper's own files: logs begin after snapshots,
  modification times order a log and a snapshot as their writes are, the newest
  snapshot and its log reach the last transaction. `MomentInv` carries a window from
  the request to the backup: the files copied so far and still to be copied, those
  in `tmp`, those selected and stored hold the newest snapshot, at most the one log
  that follows it, all that was written before the request and nothing written after
  the answer, except where the log was cut or is older than the snapshot.

Proof modules that extend one another share their context, and tlapm spends more
on each leaf the more context it has; the Vault proofs are therefore two siblings
over a common base, and leaves that Zenon proves quickly name it.

Only model-checked: the liveness properties `Settles` (of the cycle and of the
claims), `Completes` and `Ends`. Liveness under fairness and `ENABLED` are out of
this prover's reach. What of `Settles` is about single steps is proved
(`Progress`). What remains for TLC is that a step is
possible until the end is reached, and that fairness takes it.

## Not modelled

* Deletion of the custom resource and garbage collection of what it owns.
* Services, service accounts, configuration maps: created or overwritten as a
  whole; they appear as calls that may fail. The other fields of Kubernetes
  objects in the providers are data without behaviour.
* The hierarchical backup: a recursive walk over znodes that the documentation
  itself calls not consistent; the binary format of the logs.
* `dr_reconfig.sh`, health probes, the rest of the entrypoint: they write
  configuration once or probe, and keep no state.
* Monitoring scripts, utilities, `v1alpha1` (types without a controller), generated
  deepcopy code, charts, tests and image builds.
* Login to Vault beyond a call that may fail.
