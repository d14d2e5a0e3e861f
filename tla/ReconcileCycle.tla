---------------------------- MODULE ReconcileCycle ----------------------------
(***************************************************************************)
(* One reconciliation loop of the ZooKeeper operator: the controller's     *)
(* Reconcile (zookeeperservice_controller.go) and the Reconcile and Status *)
(* of the services it manages, run against a custom resource and secrets   *)
(* that users edit at any moment, read through an informer cache that lags,*)
(* and written with optimistic concurrency on resourceVersion.             *)
(*                                                                         *)
(* Data abstraction.  A section of the spec is the number of the user      *)
(* update that last wrote it (a stamp); 0 is a nil section.  Two sections  *)
(* have the same hash exactly when they have the same stamp.  A Deployment *)
(* is the stamps its pod template was built from and, for each secret, the *)
(* resourceVersion in its restart annotation (0: none).                    *)
(***************************************************************************)
EXTENDS Naturals, Sequences

CONSTANTS
    Servers,          \* number of ZooKeeper server Deployments
    VaultEnabled,     \* IsVaultSecretManagementEnabled(cr)
    WaitForPodsReady, \* spec.global.waitForPodsReady
    AllowRevert,      \* may a user write back an earlier content of a section?
    InitialSections,  \* the sections of the spec that is first installed
    EditableSections, \* the sections users edit
    EditableSecrets,  \* the secrets users edit
    MaxEdits,         \* bound on the updates of the custom resource
    MaxSecretEdits,   \* bound on the updates of secrets by users
    MaxFailures,      \* bound on failed API calls and timeouts
    MaxCrashes        \* bound on operator restarts

Managed == {"zooKeeper", "monitoring", "backupDaemon"}
Component == Managed \cup {"integrationTests"}
Section == Component \cup {"global", "vaultSecretManagement"}
Secret == {"zooKeeperSecret", "monitoringSecret", "backupDaemonSecret",
           "s3Secret", "s3AliasesSecret"}

ASSUME ServersAssumption == Servers \in Nat \ {0}
ASSUME FlagsAssumption == /\ VaultEnabled \in BOOLEAN
                          /\ WaitForPodsReady \in BOOLEAN
                          /\ AllowRevert \in BOOLEAN
ASSUME EditableAssumption == /\ "global" \in InitialSections
                             /\ InitialSections \subseteq Section
                             /\ EditableSections \subseteq Section
                             /\ EditableSecrets \subseteq Secret
ASSUME BoundsAssumption == /\ MaxEdits \in Nat
                           /\ MaxSecretEdits \in Nat
                           /\ MaxFailures \in Nat
                           /\ MaxCrashes \in Nat

VARIABLES
    \* the API server
    spec,             \* the custom resource's spec: [Section -> stamp]
    edits,            \* number of updates of the spec (metadata.generation)
    conditions,       \* status.conditions: reason -> type
    secrets,          \* the secrets
    template,         \* template[c][i]: what Deployment i of c was built from
    restart,          \* restart[c][i]: its restart annotations
    \* the informer cache and the work queue
    cachedSpec, cachedEdits,
    statusLag,        \* the cache lacks the operator's last status update
    cachedSecrets,
    queued,
    \* the operator's memory
    specHash,         \* ResourceHashes["spec"], as the spec it is a hash of
    resourceHashes,   \* the other entries of ResourceHashes, by section
    resourceVersions, \* ResourceVersions, by secret
    \* the running call of Reconcile
    pc,               \* its next step
    comp,             \* position in Order of the service being processed
    idx,              \* secret or server being processed
    instSpec, instEdits, \* the instance fetched at the start
    behind,           \* the fetched status was already out of date
    changed,          \* isCustomResourceChanged
    seen,             \* resourceVersions of the secrets read for this service
    mustClean,        \* needToCleanSecret of the service's own secret
    \* bounds
    secretEdits, failures, crashes

apiVars == <<spec, edits, conditions, secrets, template, restart>>
cacheVars == <<cachedSpec, cachedEdits, statusLag, cachedSecrets, queued>>
memoryVars == <<specHash, resourceHashes, resourceVersions>>
instVars == <<instSpec, instEdits, behind, changed>>
callVars == <<pc, comp, idx, instVars, seen, mustClean>>
boundVars == <<secretEdits, failures, crashes>>
vars == <<apiVars, cacheVars, memoryVars, callVars, boundVars>>

-----------------------------------------------------------------------------
(* Services: their order, the secrets they read, their Deployments.        *)

\* The order of buildReconcilers.
Order == <<"zooKeeper", "monitoring", "backupDaemon", "integrationTests">>

Current == Order[comp]

\* The secrets a service reads, in the order it reads them; its own comes first.
ZooKeeperSecrets == <<"zooKeeperSecret">>
MonitoringSecrets(sp) == IF sp["backupDaemon"] # 0
                         THEN <<"monitoringSecret", "backupDaemonSecret">>
                         ELSE <<"monitoringSecret">>
BackupDaemonSecrets == <<"backupDaemonSecret", "s3Secret", "s3AliasesSecret">>

WatchSeq(c, sp) == IF c = "zooKeeper" THEN ZooKeeperSecrets
                   ELSE IF c = "backupDaemon" THEN BackupDaemonSecrets
                   ELSE MonitoringSecrets(sp)

Watched(c, sp) == {WatchSeq(c, sp)[j] : j \in 1..Len(WatchSeq(c, sp))}

\* Found with findSecret only: the operator neither owns it nor gets its events.
ReadOnly == {"s3AliasesSecret"}

\* The number of Deployments of a service.
Units(c) == IF c = "zooKeeper" THEN Servers ELSE 1

NoSections == [x \in Section |-> 0]
NoVersions == [s \in Secret |-> 0]

\* The sections the providers read while they build a Deployment.
ServerInputs == {"zooKeeper", "global", "vaultSecretManagement"}
MonitoringInputs == {"monitoring", "global", "vaultSecretManagement", "backupDaemon"}
BackupDaemonInputs == {"backupDaemon", "global", "vaultSecretManagement"}

Inputs(c) == IF c = "zooKeeper" THEN ServerInputs
             ELSE IF c = "monitoring" THEN MonitoringInputs
             ELSE BackupDaemonInputs

Desired(c) == [x \in Section |-> IF x \in Inputs(c) THEN instSpec[x] ELSE 0]

\* The annotations applyAutoRestartSecretAnnotations leaves on a Deployment.
Annotated(c, old) == [s \in Secret |-> IF s \in Watched(c, instSpec) THEN seen[s] ELSE old[s]]

\* Mutants of GateOpen: one of the three comparisons is forgotten.
GateOpenNoGlobal(c) == \/ resourceHashes[c] # instSpec[c]
                       \/ \E s \in Watched(c, instSpec) : resourceVersions[s] # seen[s]
GateOpenNoSecrets(c) == \/ resourceHashes[c] # instSpec[c]
                        \/ resourceHashes["global"] # instSpec["global"]

\* The condition under which a service's Reconcile does its work.
GateOpen(c) == \/ resourceHashes[c] # instSpec[c]
               \/ resourceHashes["global"] # instSpec["global"]
               \/ \E s \in Watched(c, instSpec) : resourceVersions[s] # seen[s]

-----------------------------------------------------------------------------
(* Status updates.  They carry the resourceVersion of the instance, which  *)
(* the operator's own updates refresh and a user's update makes obsolete.  *)

Reason == Component \cup {"service"}
NoConditions == [r \in Reason |-> "none"]
ConditionType == {"none", "In progress", "Ready", "Failed", "Successful"}

Fresh == instEdits = edits /\ ~behind

\* Mutant of StatusUpdate: a patch, which carries no resourceVersion.
StatusPatch(newConditions) ==
    /\ conditions' = newConditions
    /\ statusLag' = TRUE

\* A status update that the API server accepts.
StatusUpdate(newConditions) ==
    /\ Fresh
    /\ conditions' = newConditions
    /\ statusLag' = TRUE

\* Mutant of hasFailedConditions: only the condition of the whole is looked at.
hasFailedOutcome == conditions["service"] = "Failed"

hasFailedConditions == \E r \in Reason : conditions[r] = "Failed"

\* writeFailedStatus: an error of its own is only logged.
writeFailedStatus(base) ==
    \/ StatusUpdate([base EXCEPT !["service"] = "Failed"])
    \/ UNCHANGED <<conditions, statusLag>>

\* The call of Reconcile is over; its local variables are gone.
Return ==
    /\ pc' = "idle"
    /\ comp' = 1
    /\ idx' = 1
    /\ instSpec' = NoSections
    /\ instEdits' = 0
    /\ behind' = FALSE
    /\ changed' = FALSE
    /\ seen' = NoVersions
    /\ mustClean' = FALSE

\* Reconcile returns an error: the work queue gets the request back.
ReturnError ==
    /\ Return
    /\ queued' = TRUE
    /\ UNCHANGED <<cachedSpec, cachedEdits, cachedSecrets>>

\* A service's Reconcile or Status returned an error.
Abort(base) ==
    /\ writeFailedStatus(base)
    /\ ReturnError

-----------------------------------------------------------------------------
(* The controller's Reconcile.                                             *)

StartConditions == [NoConditions EXCEPT !["service"] = "In progress"]

\* A request is taken from the queue and the instance is read from the cache.
\* When the spec's hash is new the conditions are cleared and "In progress" is
\* written; if that update conflicts, Reconcile returns the error at once and
\* the request goes back to the queue: nothing has changed, a stuttering step.
Begin ==
    /\ pc = "idle"
    /\ queued
    /\ queued' = FALSE
    /\ instSpec' = cachedSpec
    /\ instEdits' = cachedEdits
    /\ behind' = statusLag
    /\ changed' = (specHash # cachedSpec)
    /\ IF specHash # cachedSpec
       THEN /\ cachedEdits = edits
            /\ ~statusLag
            /\ conditions' = StartConditions
            /\ statusLag' = TRUE
       ELSE UNCHANGED <<conditions, statusLag>>
    /\ pc' = "service"
    /\ UNCHANGED <<spec, edits, secrets, template, restart, cachedSpec, cachedEdits,
                   cachedSecrets, memoryVars, comp, idx, seen, mustClean, boundVars>>

\* buildReconcilers: a service takes part iff its section is not nil.  The
\* Reconcile of the integration tests does nothing.
NextService ==
    /\ pc = "service"
    /\ IF comp > Len(Order)
       THEN pc' = "publish" /\ UNCHANGED comp
       ELSE IF Current \in Managed /\ instSpec[Current] # 0
            THEN pc' = "watch" /\ UNCHANGED comp
            ELSE pc' = "service" /\ comp' = comp + 1
    /\ UNCHANGED <<apiVars, cacheVars, memoryVars, idx, instVars, seen, mustClean,
                   boundVars>>

\* watchSecret: the secret is found in the cache and written back with this
\* custom resource as its owner, which changes it only the first time.
watchSecret ==
    /\ pc = "watch"
    /\ LET s == WatchSeq(Current, instSpec)[idx]
           found == cachedSecrets[s]
           updated == IF s \in ReadOnly \/ found.owned
                      THEN found
                      ELSE [found EXCEPT !.rv = @ + 1, !.owned = TRUE]
       IN /\ s \in ReadOnly \/ found.rv = secrets[s].rv
          /\ secrets' = IF s \in ReadOnly THEN secrets
                        ELSE [secrets EXCEPT ![s] = updated]
          /\ seen' = [seen EXCEPT ![s] = updated.rv]
          /\ mustClean' = IF idx = 1 THEN found.pending ELSE mustClean
    /\ IF idx = Len(WatchSeq(Current, instSpec))
       THEN pc' = "gate" /\ idx' = 1
       ELSE pc' = "watch" /\ idx' = idx + 1
    /\ UNCHANGED <<spec, edits, conditions, template, restart, cacheVars, memoryVars,
                   comp, instVars, boundVars>>

\* The cached secret is not the current one: the update conflicts.
watchSecretConflict ==
    /\ pc = "watch"
    /\ LET s == WatchSeq(Current, instSpec)[idx]
       IN s \notin ReadOnly /\ cachedSecrets[s].rv # secrets[s].rv
    /\ Abort(conditions)
    /\ UNCHANGED <<spec, edits, secrets, template, restart, memoryVars, boundVars>>

\* Mutant of Skip: a skipped service returns without the restart annotations.
SkipAnnotations ==
    /\ pc = "gate"
    /\ ~GateOpen(Current)
    /\ pc' = "service"
    /\ comp' = comp + 1
    /\ UNCHANGED <<apiVars, cacheVars, memoryVars, idx, instVars, seen, mustClean,
                   boundVars>>

\* "configuration didn't change, skipping reconcile loop"
Skip ==
    /\ pc = "gate"
    /\ ~GateOpen(Current)
    /\ pc' = "annotate"
    /\ UNCHANGED <<apiVars, cacheVars, memoryVars, comp, idx, instVars, seen,
                   mustClean, boundVars>>

Enter ==
    /\ pc = "gate"
    /\ GateOpen(Current)
    /\ pc' = IF VaultEnabled THEN "vault" ELSE "deploy"
    /\ UNCHANGED <<apiVars, cacheVars, memoryVars, comp, idx, instVars, seen,
                   mustClean, boundVars>>

\* processVaultSecrets: the credentials are in Vault, so the service's own secret
\* is emptied, its refresh request is taken back, and its new version recorded.
processVaultSecrets ==
    /\ pc = "vault"
    /\ LET s == WatchSeq(Current, instSpec)[1]
           cleaned == secrets[s].rv + 1
       IN IF mustClean
          THEN /\ secrets[s].rv = seen[s]
               /\ secrets' = [secrets EXCEPT ![s].rv = cleaned, ![s].pending = FALSE]
               /\ seen' = [seen EXCEPT ![s] = cleaned]
               /\ resourceVersions' = [resourceVersions EXCEPT ![s] = cleaned]
          ELSE UNCHANGED <<secrets, seen, resourceVersions>>
    /\ pc' = "deploy"
    /\ mustClean' = FALSE
    /\ UNCHANGED <<spec, edits, conditions, template, restart, cacheVars, specHash,
                   resourceHashes, comp, idx, instVars, boundVars>>

\* The secret was updated after it was read: emptying it conflicts.
processVaultSecretsConflict ==
    /\ pc = "vault"
    /\ mustClean
    /\ secrets[WatchSeq(Current, instSpec)[1]].rv # seen[WatchSeq(Current, instSpec)[1]]
    /\ Abort(conditions)
    /\ UNCHANGED <<spec, edits, secrets, template, restart, memoryVars, boundVars>>

\* Mutant of Deploy: the hash is recorded with the first Deployment.
DeployAndRecord ==
    /\ pc = "deploy"
    /\ template' = [template EXCEPT ![Current][idx] = Desired(Current)]
    /\ restart' = [restart EXCEPT ![Current][idx] = Annotated(Current, NoVersions)]
    /\ resourceHashes' = [resourceHashes EXCEPT ![Current] = instSpec[Current]]
    /\ IF idx = Units(Current)
       THEN pc' = "status" /\ idx' = 1
       ELSE pc' = "deploy" /\ idx' = idx + 1
    /\ UNCHANGED <<spec, edits, conditions, secrets, cacheVars, specHash,
                   resourceVersions, comp, instVars, seen, mustClean, boundVars>>

\* createOrUpdateDeployment of Deployment idx of the service.
Deploy ==
    /\ pc = "deploy"
    /\ template' = [template EXCEPT ![Current][idx] = Desired(Current)]
    /\ restart' = [restart EXCEPT ![Current][idx] = Annotated(Current, NoVersions)]
    /\ IF idx = Units(Current)
       THEN pc' = "status" /\ idx' = 1
       ELSE pc' = "deploy" /\ idx' = idx + 1
    /\ UNCHANGED <<spec, edits, conditions, secrets, cacheVars, memoryVars, comp,
                   instVars, seen, mustClean, boundVars>>

\* updateZooKeeperStatus, updateMonitoringStatus, updateBackupDaemonStatus.
UpdateServiceStatus ==
    /\ pc = "status"
    /\ StatusUpdate(conditions)
    /\ pc' = "annotate"
    /\ UNCHANGED <<spec, edits, secrets, template, restart, cachedSpec, cachedEdits,
                   cachedSecrets, queued, memoryVars, comp, idx, instVars, seen,
                   mustClean, boundVars>>

\* updateDeploymentSecretRestartAnnotations of Deployment idx, if it exists; after
\* the last one the versions of the secrets and the section's hash are recorded.
Annotate ==
    /\ pc = "annotate"
    /\ restart' = IF template[Current][idx] = NoSections THEN restart
                  ELSE [restart EXCEPT ![Current][idx] = Annotated(Current, @)]
    /\ IF idx = Units(Current)
       THEN /\ resourceVersions' = Annotated(Current, resourceVersions)
            /\ resourceHashes' = [resourceHashes EXCEPT ![Current] = instSpec[Current]]
            /\ pc' = "service"
            /\ comp' = comp + 1
            /\ idx' = 1
            /\ seen' = NoVersions
            /\ mustClean' = FALSE
       ELSE /\ idx' = idx + 1
            /\ UNCHANGED <<resourceVersions, resourceHashes, pc, comp, seen, mustClean>>
    /\ UNCHANGED <<spec, edits, conditions, secrets, template, cacheVars, specHash,
                   instVars, boundVars>>

\* updateStatus writes the PVC annotations to the status when they changed (written).
Publish(written) ==
    /\ pc = "publish"
    /\ IF written THEN StatusUpdate(conditions) ELSE UNCHANGED <<conditions, statusLag>>
    /\ pc' = IF changed /\ WaitForPodsReady THEN "wait" ELSE "finish"
    /\ comp' = 1
    /\ UNCHANGED <<spec, edits, secrets, template, restart, cachedSpec, cachedEdits,
                   cachedSecrets, queued, memoryVars, idx, instVars, seen, mustClean,
                   boundVars>>

\* "Checking deployment readiness status": the readiness of the pods is awaited.
AwaitReadiness ==
    /\ pc = "wait"
    /\ StatusUpdate([conditions EXCEPT !["service"] = "In progress"])
    /\ pc' = "probe"
    /\ UNCHANGED <<spec, edits, secrets, template, restart, cachedSpec, cachedEdits,
                   cachedSecrets, queued, memoryVars, comp, idx, instVars, seen, mustClean,
                   boundVars>>

\* The first half of Status: the service's condition becomes "In progress".  The
\* integration tests are left out unless their section asks to wait for the result.
ProbeService ==
    /\ pc = "probe"
    /\ IF comp > Len(Order)
       THEN pc' = "finish" /\ UNCHANGED <<comp, conditions, statusLag>>
       ELSE \/ /\ instSpec[Current] = 0 \/ Current = "integrationTests"
               /\ pc' = "probe"
               /\ comp' = comp + 1
               /\ UNCHANGED <<conditions, statusLag>>
            \/ /\ instSpec[Current] # 0
               /\ StatusUpdate([conditions EXCEPT ![Current] = "In progress"])
               /\ pc' = "verdict"
               /\ UNCHANGED comp
    /\ UNCHANGED <<spec, edits, secrets, template, restart, cachedSpec, cachedEdits,
                   cachedSecrets, queued, memoryVars, idx, instVars, seen, mustClean,
                   boundVars>>

\* Mutant of Verdict: a type the status has no room for.
VerdictNotReady(ready) == IF ready THEN "Ready" ELSE "Not ready"

\* The second half: the poll of isDeploymentReady ends (ready) or times out.
Verdict(ready) == IF ready THEN "Ready" ELSE "Failed"

ServiceVerdict(ready) ==
    /\ pc = "verdict"
    /\ StatusUpdate([conditions EXCEPT ![Current] = Verdict(ready)])
    /\ pc' = "probe"
    /\ comp' = comp + 1
    /\ UNCHANGED <<spec, edits, secrets, template, restart, cachedSpec, cachedEdits,
                   cachedSecrets, queued, memoryVars, idx, instVars, seen, mustClean,
                   boundVars>>

\* The end of the cycle: the outcome is written if the spec was new, and the
\* hashes of the spec and of its global section are recorded.
Finish ==
    /\ pc = "finish"
    /\ IF changed
       THEN StatusUpdate([conditions EXCEPT !["service"] =
                             IF hasFailedConditions THEN "Failed" ELSE "Successful"])
       ELSE UNCHANGED <<conditions, statusLag>>
    /\ specHash' = instSpec
    /\ resourceHashes' = [resourceHashes EXCEPT !["global"] = instSpec["global"]]
    /\ Return
    /\ UNCHANGED <<spec, edits, secrets, template, restart, cachedSpec, cachedEdits,
                   cachedSecrets, queued, resourceVersions, boundVars>>

\* A status update conflicts.  Inside a service the error also goes through
\* writeFailedStatus; in the controller's own updates it is returned as it is.
StatusConflict ==
    /\ ~Fresh
    /\ \/ pc \in {"status", "verdict"} /\ Abort(conditions)
       \/ pc = "probe" /\ comp <= Len(Order) /\ instSpec[Current] # 0 /\ Abort(conditions)
       \/ /\ pc \in {"publish", "wait"} \/ (pc = "finish" /\ changed)
          /\ ReturnError
          /\ UNCHANGED <<conditions, statusLag>>
    /\ UNCHANGED <<spec, edits, secrets, template, restart, memoryVars, boundVars>>

\* A call fails: an API call, a call of Vault (its client is made before the first
\* service), or the wait for a pod of a ZooKeeper server, which times out.  A
\* condition that could not be written stays in the instance and is written
\* together with the failure.
CallFails ==
    /\ failures < MaxFailures
    /\ failures' = failures + 1
    /\ \/ /\ \/ pc \in {"watch", "vault", "deploy", "status", "annotate"}
             \/ pc = "gate" /\ GateOpen(Current)
             \/ pc = "service" /\ comp = 1 /\ VaultEnabled
          /\ Abort(conditions)
       \/ /\ pc = "probe" /\ comp <= Len(Order) /\ instSpec[Current] # 0
          /\ Abort([conditions EXCEPT ![Current] = "In progress"])
       \/ /\ pc = "verdict"
          /\ \E ready \in BOOLEAN : Abort([conditions EXCEPT ![Current] = Verdict(ready)])
       \/ /\ pc \in {"publish", "wait"} \/ (pc = "finish" /\ changed)
          /\ ReturnError
          /\ UNCHANGED <<conditions, statusLag>>
    /\ UNCHANGED <<spec, edits, secrets, template, restart, memoryVars, secretEdits,
                   crashes>>

-----------------------------------------------------------------------------
(* The environment: users, the informers, the process itself.              *)

\* The contents a user may give a section: new ones; nil for a service's section;
\* and, if reverts are allowed, earlier ones.
NewContents(x) == {edits + 1}
                  \cup (IF x \in Component THEN {0} ELSE {})
                  \cup (IF AllowRevert THEN 1..edits ELSE {})

EditSpec(x) ==
    /\ edits < MaxEdits
    /\ \E v \in NewContents(x) \ {spec[x]} : spec' = [spec EXCEPT ![x] = v]
    /\ edits' = edits + 1
    /\ UNCHANGED <<conditions, secrets, template, restart, cacheVars, memoryVars,
                   callVars, boundVars>>

\* A user updates a secret.  Under Vault the update may carry data or the
\* refresh-credentials annotation, which leave the secret to be processed.
EditSecret(s) ==
    /\ secretEdits < MaxSecretEdits
    /\ secretEdits' = secretEdits + 1
    /\ \E request \in IF VaultEnabled THEN BOOLEAN ELSE {FALSE} :
          secrets' = [secrets EXCEPT ![s].rv = @ + 1, ![s].pending = @ \/ request]
    /\ UNCHANGED <<spec, edits, conditions, template, restart, cacheVars, memoryVars,
                   callVars, failures, crashes>>

\* Mutant of DeliverCustomResource: updates of the status pass the predicate too.
DeliverAnyUpdate ==
    /\ cachedEdits # edits \/ statusLag
    /\ cachedSpec' = spec
    /\ cachedEdits' = edits
    /\ statusLag' = FALSE
    /\ queued' = TRUE
    /\ UNCHANGED <<apiVars, cachedSecrets, memoryVars, callVars, boundVars>>

\* The informer delivers the custom resource.  The predicate lets the event through
\* iff the generation changed.
DeliverCustomResource ==
    /\ cachedEdits # edits \/ statusLag
    /\ cachedSpec' = spec
    /\ cachedEdits' = edits
    /\ statusLag' = FALSE
    /\ queued' = (queued \/ cachedEdits # edits)
    /\ UNCHANGED <<apiVars, cachedSecrets, memoryVars, callVars, boundVars>>

\* The informer delivers a secret; its event reaches the queue iff it is owned.
DeliverSecret(s) ==
    /\ cachedSecrets[s].rv # secrets[s].rv
    /\ cachedSecrets' = [cachedSecrets EXCEPT ![s] = secrets[s]]
    /\ queued' = (queued \/ secrets[s].owned)
    /\ UNCHANGED <<apiVars, cachedSpec, cachedEdits, statusLag, memoryVars, callVars,
                   boundVars>>

\* The operator restarts: its memory is lost, the caches are listed anew, and the
\* initial listing queues the custom resource.
Restart ==
    /\ crashes < MaxCrashes
    /\ crashes' = crashes + 1
    /\ specHash' = NoSections
    /\ resourceHashes' = NoSections
    /\ resourceVersions' = NoVersions
    /\ cachedSpec' = spec
    /\ cachedEdits' = edits
    /\ statusLag' = FALSE
    /\ cachedSecrets' = secrets
    /\ queued' = TRUE
    /\ Return
    /\ UNCHANGED <<apiVars, secretEdits, failures>>

-----------------------------------------------------------------------------
(* The specification.                                                      *)

NewSecret == [rv |-> 1, owned |-> FALSE, pending |-> VaultEnabled]

Init ==
    /\ edits = 1
    /\ spec = [x \in Section |-> IF x \in InitialSections THEN 1 ELSE 0]
    /\ conditions = NoConditions
    /\ secrets = [s \in Secret |-> NewSecret]
    /\ template = [c \in Managed |-> [i \in 1..Servers |-> NoSections]]
    /\ restart = [c \in Managed |-> [i \in 1..Servers |-> NoVersions]]
    /\ cachedSpec = spec
    /\ cachedEdits = edits
    /\ statusLag = FALSE
    /\ cachedSecrets = secrets
    /\ queued = TRUE
    /\ specHash = NoSections
    /\ resourceHashes = NoSections
    /\ resourceVersions = NoVersions
    /\ pc = "idle"
    /\ comp = 1
    /\ idx = 1
    /\ instSpec = NoSections
    /\ instEdits = 0
    /\ behind = FALSE
    /\ changed = FALSE
    /\ seen = NoVersions
    /\ mustClean = FALSE
    /\ secretEdits = 0
    /\ failures = 0
    /\ crashes = 0

OperatorStep ==
    \/ Begin \/ NextService
    \/ watchSecret \/ watchSecretConflict
    \/ Skip \/ Enter
    \/ processVaultSecrets \/ processVaultSecretsConflict
    \/ Deploy \/ UpdateServiceStatus \/ Annotate
    \/ \E written \in BOOLEAN : Publish(written)
    \/ AwaitReadiness \/ ProbeService
    \/ \E ready \in BOOLEAN : ServiceVerdict(ready)
    \/ Finish \/ StatusConflict

Next ==
    \/ OperatorStep
    \/ CallFails
    \/ \E x \in EditableSections : EditSpec(x)
    \/ \E s \in EditableSecrets : EditSecret(s)
    \/ DeliverCustomResource
    \/ \E s \in Secret : DeliverSecret(s)
    \/ Restart

\* The process keeps running its only worker, and the watches keep delivering.
Fairness ==
    /\ WF_vars(OperatorStep)
    /\ WF_vars(DeliverCustomResource)
    /\ WF_vars(\E s \in Secret : DeliverSecret(s))

Spec == Init /\ [][Next]_vars /\ Fairness

-----------------------------------------------------------------------------
(* Properties.                                                             *)

Step == {"idle", "service", "watch", "gate", "vault", "deploy", "status", "annotate",
         "publish", "wait", "probe", "verdict", "finish"}

SecretObject == [rv : Nat, owned : BOOLEAN, pending : BOOLEAN]

ApiType ==
    /\ spec \in [Section -> Nat]
    /\ edits \in Nat
    /\ conditions \in [Reason -> ConditionType]
    /\ secrets \in [Secret -> SecretObject]
    /\ template \in [Managed -> [1..Servers -> [Section -> Nat]]]
    /\ restart \in [Managed -> [1..Servers -> [Secret -> Nat]]]

CacheType ==
    /\ cachedSpec \in [Section -> Nat]
    /\ cachedEdits \in Nat
    /\ statusLag \in BOOLEAN
    /\ cachedSecrets \in [Secret -> SecretObject]
    /\ queued \in BOOLEAN

MemoryType ==
    /\ specHash \in [Section -> Nat]
    /\ resourceHashes \in [Section -> Nat]
    /\ resourceVersions \in [Secret -> Nat]

InstType ==
    /\ instSpec \in [Section -> Nat]
    /\ instEdits \in Nat
    /\ behind \in BOOLEAN
    /\ changed \in BOOLEAN

\* While a service is processed comp and idx point to a service and to one of its
\* secrets or Deployments.
PositionType ==
    /\ pc \in Step
    /\ comp \in 1..(Len(Order) + 1)
    /\ idx \in Nat \ {0}
    /\ pc \in {"watch", "gate", "vault", "deploy", "status", "annotate"} => comp \in 1..3
    /\ pc = "verdict" => comp \in 1..4
    /\ pc = "watch" => idx <= Len(WatchSeq(Current, instSpec))
    /\ pc \in {"deploy", "annotate"} => idx <= Units(Current)
    /\ pc \notin {"watch", "deploy", "annotate"} => idx = 1

SeenType == seen \in [Secret -> Nat] /\ mustClean \in BOOLEAN

BoundType == secretEdits \in Nat /\ failures \in Nat /\ crashes \in Nat

\* Type correctness: the variables hold what they stand for, and a call is always at
\* a service, a secret or a Deployment that exists.
TypeOK == /\ ApiType /\ CacheType /\ MemoryType /\ InstType /\ PositionType
          /\ SeenType /\ BoundType

\* Deployment i of c was built from the section of c and the global section of sp.
BuiltFrom(c, i, sp) == /\ template[c][i][c] = sp[c]
                       /\ template[c][i]["global"] = sp["global"]

Applied(c, sp) == \A i \in 1..Units(c) : BuiltFrom(c, i, sp)

\* Nothing is left to do: no call runs, no request waits, no event is on its way.
Quiet == /\ pc = "idle"
         /\ ~queued
         /\ cachedEdits = edits
         /\ \A s \in Secret \ ReadOnly : cachedSecrets[s].rv = secrets[s].rv

\* Skipping is sound: whenever the recorded hashes of a service's section and of
\* the global section are those of the current spec, every Deployment of the
\* service was built from them (the condition around Reconcile's work in
\* zookeeper_reconciler.go, monitoring_reconciler.go, backupdaemon_reconciler.go).
GateSound ==
    \A c \in Managed :
        /\ spec[c] # 0
        /\ resourceHashes[c] = spec[c]
        /\ resourceHashes["global"] = spec["global"]
        => Applied(c, spec)

\* When the operator has come to rest, every service in the spec runs with its
\* current section and the current global section, whatever failed, conflicted or
\* restarted on the way.
QuietApplied == Quiet => \A c \in Managed : spec[c] # 0 => Applied(c, spec)

\* When the operator has come to rest, every Deployment carries the current
\* resourceVersion of every secret it watches: a change of a secret restarts the
\* pods even though two services share one record of the secret's version.
QuietRestarted ==
    Quiet => \A c \in Managed :
                spec[c] # 0 =>
                   \A i \in 1..Units(c), s \in Watched(c, spec) \ ReadOnly :
                      restart[c][i][s] = secrets[s].rv

\* "Successful" is written only at a moment when every service of the spec that is
\* then current has been applied (updateConditions at the end of Reconcile).
SuccessfulMeansApplied ==
    [][conditions'["service"] = "Successful" /\ conditions["service"] # "Successful"
       => \A c \in Managed : spec[c] # 0 => Applied(c, spec)]_vars

\* No service is reported failed or in progress under a "Successful" outcome: the
\* conditions of an earlier cycle never survive into it.
OutcomeConsistent ==
    conditions["service"] = "Successful" =>
       \A c \in Component : conditions[c] \in {"none", "Ready"}

\* A secret that only one service reads keeps no unprocessed data or refresh request
\* once the operator has come to rest (processVaultSecrets).
QuietRefreshed ==
    Quiet /\ VaultEnabled =>
       /\ spec["zooKeeper"] # 0 => ~secrets["zooKeeperSecret"].pending
       /\ spec["monitoring"] # 0 => ~secrets["monitoringSecret"].pending

\* Once users stop and calls stop failing the operator comes to rest: conflicts,
\* its own updates of secrets and its retries do not keep it busy forever.
Settles == <>[]Quiet

\* What is left to be done once, whatever users do not add to: secrets without an
\* owner, secrets with a request for Vault, updates the informers have not delivered.
Unowned == {s \in Secret : ~secrets[s].owned}
Requested == {s \in Secret : secrets[s].pending}
Undelivered == {s \in Secret : cachedSecrets[s].rv # secrets[s].rv}
               \cup {x \in {"customResource"} : cachedEdits # edits}

\* How far a call is: its part, the service, the step of the service, the item.
Part == IF pc = "idle" THEN 5
        ELSE IF pc = "finish" THEN 4
        ELSE IF pc \in {"probe", "verdict"} THEN 3
        ELSE IF pc = "wait" THEN 2
        ELSE IF pc = "publish" THEN 1 ELSE 0

Stage == IF pc = "annotate" THEN 6
         ELSE IF pc = "status" THEN 5
         ELSE IF pc = "deploy" THEN 4
         ELSE IF pc = "vault" THEN 3
         ELSE IF pc = "gate" THEN 2
         ELSE IF pc \in {"watch", "verdict"} THEN 1 ELSE 0

Position == <<Part, comp, Stage, idx>>

Before(p, q) == \E k \in 1..4 : p[k] < q[k] /\ \A j \in 1..(k - 1) : p[j] = q[j]

SecretSettled ==
    /\ Unowned' \subseteq Unowned /\ Requested' \subseteq Requested
    /\ Unowned' # Unowned \/ Requested' # Requested

UpdateDelivered ==
    /\ UNCHANGED <<Unowned, Requested>>
    /\ Undelivered' \subseteq Undelivered /\ Undelivered' # Undelivered

\* The request is taken, or the call comes closer to its end, or a status is delivered,
\* or the call is retried because what it worked with was outdated.
CallAdvances ==
    \/ queued /\ ~queued'
    \/ UNCHANGED queued /\ Before(Position, Position')
    \/ UNCHANGED <<queued, callVars>> /\ statusLag /\ ~statusLag'
    \/ pc' = "idle" /\ (behind \/ Undelivered # {})

Advances ==
    \/ <<edits, boundVars>>' # <<edits, boundVars>>
    \/ SecretSettled
    \/ UpdateDelivered
    \/ UNCHANGED <<Unowned, Requested, Undelivered>> /\ CallAdvances

\* The operator does not keep itself busy.  Except for users' updates, failures and
\* restarts, every step settles a secret for good, or delivers an update, or takes the
\* request from the queue, or brings the running call closer to its end, or delivers
\* a status, and takes back nothing that comes before it in this list; only a call
\* that worked with outdated data is put back into the queue.
Progress == [][Advances]_vars

\* docs/public/vault.md: after an upgrade with refreshCredentials the operator
\* generates new passwords for all secrets, the backup daemon's too.
AllRefreshed ==
    Quiet /\ VaultEnabled =>
       (spec["backupDaemon"] # 0 => ~secrets["backupDaemonSecret"].pending)

-----------------------------------------------------------------------------
(* The inductive invariant behind GateSound, QuietApplied and              *)
(* SuccessfulMeansApplied when contents are never written back.            *)

\* sp2 follows sp1: a section keeps its stamp, is nil, or was written later.
Follows(sp1, e1, sp2, e2) ==
    /\ e1 <= e2
    /\ e1 = e2 => sp1 = sp2
    /\ \A x \in Section : /\ sp1[x] <= e1
                          /\ sp2[x] = sp1[x] \/ sp2[x] = 0 \/ sp2[x] > e1

GateSoundFor(sp) ==
    \A c \in Managed :
        /\ sp[c] # 0
        /\ resourceHashes[c] = sp[c]
        /\ resourceHashes["global"] = sp["global"]
        => Applied(c, sp)

\* The running call has finished the Reconcile of service c.
Passed(c) == \/ pc \in {"publish", "wait", "probe", "verdict", "finish"}
             \/ \E j \in 1..3 : j < comp /\ Order[j] = c

\* What holds between calls: the cache follows no later than the API server, every
\* recorded hash is of a spec the cache has shown, and skipping is sound for it.
RestInv ==
    /\ Follows(cachedSpec, cachedEdits, spec, edits)
    /\ \A x \in Section : spec[x] <= edits
    /\ spec["global"] # 0 /\ cachedSpec["global"] # 0
    /\ \A x \in Section : resourceHashes[x] <= cachedEdits
    /\ GateSoundFor(cachedSpec)

\* What holds of a call: skipping is sound for its instance, and the services it
\* has passed are applied and recorded.
CallInv ==
    pc # "idle" =>
       /\ Follows(instSpec, instEdits, cachedSpec, cachedEdits)
       /\ instSpec["global"] # 0
       /\ \A x \in Section : resourceHashes[x] <= instEdits
       /\ GateSoundFor(instSpec)
       /\ \A c \in Managed : Passed(c) /\ instSpec[c] # 0 =>
             resourceHashes[c] = instSpec[c] /\ Applied(c, instSpec)

\* What holds of the position of a call and of the service being processed.
ServiceInv ==
    /\ pc = "idle" => comp = 1
    /\ pc \in {"watch", "gate", "vault", "deploy", "status", "annotate"} =>
          instSpec[Current] # 0
    /\ pc = "deploy" =>
          \A i \in 1..Servers : i < idx => BuiltFrom(Current, i, instSpec)
    /\ pc \in {"status", "annotate"} => Applied(Current, instSpec)

\* What an empty queue means: the cached spec is recorded, or the call works on it.
QueueInv ==
    ~queued =>
       IF pc = "idle"
       THEN /\ resourceHashes["global"] = cachedSpec["global"]
            /\ \A c \in Managed : cachedSpec[c] # 0 => resourceHashes[c] = cachedSpec[c]
       ELSE instEdits = cachedEdits

\* The hashes in the operator's memory never vouch for a Deployment that was built
\* from something else, for the cached spec and for the running call's instance:
\* the invariant the proofs of GateSound, QuietApplied and SuccessfulMeansApplied
\* are based on.
HashesVouch == RestInv /\ CallInv /\ ServiceInv /\ QueueInv

=============================================================================
