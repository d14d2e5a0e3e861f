--------------------------- MODULE VaultCredentials ---------------------------
(***************************************************************************)
(* Credentials under Vault secret management: processVaultSecrets of the   *)
(* ZooKeeper, Monitoring and Backup Daemon reconcilers, call by call, in   *)
(* the reconciliation cycle that runs them (zookeeper_vault.go,            *)
(* monitoring_vault.go, backupdaemon_vault.go, vault_client.go).  The      *)
(* custom resource's spec stays as it was installed; ReconcileCycle models *)
(* its updates.  Users update and remove the secrets, calls fail before or *)
(* after they took effect, the operator restarts, and both the secrets and *)
(* the status are read from a cache that lags.                             *)
(*                                                                         *)
(* Data abstraction.  A user name (a list of names, for the additional     *)
(* users) is the number of the user update that wrote it, 0 when the key   *)
(* is absent or empty.  A password is the version of the Vault entry it    *)
(* was written with; extractUserNames, which strips the passwords from a   *)
(* list read back from Vault, takes the name of the entry.                 *)
(***************************************************************************)
EXTENDS Naturals, Sequences

CONSTANTS
    Services,         \* the services of the custom resource
    Servers,          \* number of ZooKeeper servers
    WritePolicies,    \* vaultSecretManagement.writePolicies
    VaultGenerates,   \* passwordGenerationMechanism = "vault"
    Preloaded,        \* Vault holds the entries of an earlier installation
    EditableSecrets,  \* the secrets users update, by service
    Supplies,         \* the sets of entries a user update may name
    MayRemove,        \* may users remove a secret?
    MaxVersion,       \* versions of an entry are counted up to this bound
    MaxUpdates,       \* bound on the updates of the secrets by users
    MaxFaults         \* bound on failed calls and operator restarts

Service == {"zooKeeper", "monitoring", "backupDaemon"}
ZooKeeperEntries == {"admin", "client", "additional"}
Entry == ZooKeeperEntries \cup {"daemon"}
Grant == {"adminPolicy", "adminRole", "clientPolicy", "monitoringPolicy",
          "monitoringRole", "daemonPolicy", "daemonRole", "passwordPolicy"}

ASSUME ServicesAssumption == "zooKeeper" \in Services /\ Services \subseteq Service
ASSUME ServersAssumption == Servers \in Nat \ {0}
ASSUME FlagsAssumption == /\ WritePolicies \in BOOLEAN
                          /\ VaultGenerates \in BOOLEAN
                          /\ Preloaded \in BOOLEAN
                          /\ MayRemove \in BOOLEAN
ASSUME EditsAssumption == /\ EditableSecrets \subseteq Service
                          /\ Supplies \subseteq SUBSET Entry
ASSUME BoundsAssumption == /\ MaxVersion \in Nat \ {0}
                           /\ MaxUpdates \in Nat
                           /\ MaxFaults \in Nat

VARIABLES
    \* Vault
    vault,            \* vault[e]: [version, name] of entry e, version 0: absent
    granted,          \* the policies and roles that exist
    \* the API server
    secrets,          \* secrets[s]: the secret of service s
    reported,         \* status.vaultSecretManagementStatus.secretVersions
    deployed,         \* the Deployments that exist
    annotated,        \* annotated[d][s]: version of secret s in d's template
    restarted,        \* Deployments whose template, and so the pod, was replaced after
                      \* the last write of their service's entries
    \* the informer cache and the work queue
    cachedSecrets, cachedReported,
    statusLag,        \* the cache lacks the operator's last status update
    queued,
    \* the operator's memory
    hashed,           \* the services whose hash is in ResourceHashes
    settled,          \* ResourceHashes has the hashes of the spec and its global section
    recorded,         \* ResourceVersions
    \* the running call of Reconcile
    pc, cur, server,  \* its next step, the service and the server it works on
    mem,              \* mem[s]: the copy of secret s
    versions,         \* SecretVersions in the instance
    made,             \* SecretVersions is not nil
    upToDate,         \* the instance has the latest resourceVersion
    \* history and bounds
    wanted,           \* wanted[e]: the name the user last asked for, 0: none
    asked,            \* asked[s]: updates that left a refresh request in secret s
    updates,          \* updates of the secrets by users
    panicked,         \* a call of Reconcile has panicked
    lost,             \* a version was written to Vault but never to the status
    faults            \* failed calls and restarts of the operator

vaultVars == <<vault, granted>>
deployVars == <<deployed, annotated>>
cacheVars == <<cachedSecrets, cachedReported, statusLag, queued>>
memoryVars == <<hashed, settled, recorded>>
instVars == <<versions, made, upToDate>>
callVars == <<pc, cur, server, mem, instVars>>
userVars == <<wanted, asked, updates>>
vars == <<vaultVars, secrets, reported, deployVars, restarted, cacheVars, memoryVars,
          callVars, userVars, panicked, lost, faults>>

-----------------------------------------------------------------------------
(* Services, entries and Deployments.                                      *)

\* The Vault entries with the credentials of a service.
EntriesOf == [s \in Service |-> IF s = "zooKeeper" THEN ZooKeeperEntries
                                ELSE IF s = "backupDaemon" THEN {"daemon"} ELSE {}]

\* Mutant of ZooKeeperGrants: the client policy is left out.
GrantsNoClient == <<"adminPolicy", "adminRole">>

\* The policies and roles that processVaultSecrets makes for each service, in order.
ZooKeeperGrants == <<"adminPolicy", "adminRole", "clientPolicy">>
MonitoringGrants == <<"monitoringPolicy", "monitoringRole">>
BackupDaemonGrants == <<"daemonPolicy", "daemonRole">>

GrantsOf(s) == IF s = "zooKeeper" THEN ZooKeeperGrants
               ELSE IF s = "monitoring" THEN MonitoringGrants ELSE BackupDaemonGrants

Units(s) == IF s = "zooKeeper" THEN Servers ELSE 1
Deployment == {d \in Service \X (1..Servers) : d[2] <= Units(d[1])}
DeploymentsOf(s) == {d \in Deployment : d[1] = s}

\* Monitoring also watches the Backup Daemon's secret.
Watched(s) == {s} \cup (IF s = "monitoring" THEN {"backupDaemon"} \cap Services ELSE {})

\* The order of buildReconcilers; "none" after the last service.
After(s) == IF s = "none" THEN "zooKeeper"
            ELSE IF s = "zooKeeper" /\ "monitoring" \in Services THEN "monitoring"
            ELSE IF s # "backupDaemon" /\ "backupDaemon" \in Services THEN "backupDaemon"
            ELSE "none"

NoNames == [e \in Entry |-> 0]
NoVersions == [e \in Entry |-> 0]
NoSecret == [rv |-> 0, names |-> NoNames, filled |-> FALSE, refresh |-> FALSE,
             owned |-> FALSE]

\* What the running call holds between two calls.
Returned == /\ pc' = "idle"
            /\ cur' = "none"
            /\ server' = 1
            /\ mem' = [s \in Service |-> NoSecret]
            /\ versions' = NoVersions
            /\ made' = FALSE
            /\ upToDate' = FALSE

\* Versions the instance has noted and the status has not.
Unreported == \E e \in Entry : versions[e] # reported[e] /\ versions[e] = vault[e].version

\* Every status update writes the instance's SecretVersions with it.
StatusUpdate == /\ upToDate
                /\ reported' = versions
                /\ statusLag' = TRUE

\* Mutant of writeFailedStatus: the failure is logged only.
writeNoStatus(outage) == UNCHANGED <<reported, statusLag, lost>>

\* It swallows its own error: a conflict or, in an outage, the call failing too.
writeFailedStatus(outage) ==
    \/ StatusUpdate /\ UNCHANGED lost
    \/ /\ ~upToDate \/ outage
       /\ lost' = (lost \/ Unreported)
       /\ UNCHANGED <<reported, statusLag>>

\* The call returns an error and is retried.
Fail(outage) ==
    /\ writeFailedStatus(outage)
    /\ queued' = TRUE
    /\ Returned
    /\ UNCHANGED <<cachedSecrets, cachedReported>>

-----------------------------------------------------------------------------
(* The cycle: Reconcile of the controller and of the services.             *)

\* Reconcile fetches the instance.  Before the spec's hash is recorded it first
\* writes a condition, which conflicts while the cache lags and is retried.
Begin ==
    /\ pc = "idle"
    /\ queued
    /\ settled \/ ~statusLag
    /\ queued' = FALSE
    /\ statusLag' = (statusLag \/ ~settled)
    /\ upToDate' = ~statusLag
    /\ versions' = cachedReported
    /\ made' = (cachedReported # NoVersions)
    /\ pc' = "watch"
    /\ cur' = After("none")
    /\ UNCHANGED <<vaultVars, secrets, reported, deployVars, restarted, cachedSecrets,
                   cachedReported, memoryVars, server, mem, userVars, panicked, lost,
                   faults>>

\* The secret that watchSecret is called for next.
Target == IF pc = "watch" THEN cur ELSE "backupDaemon"

WithOwner(secret) == [rv |-> IF secret.owned THEN secret.rv ELSE secret.rv + 1,
                      names |-> secret.names, filled |-> secret.filled,
                      refresh |-> secret.refresh, owned |-> TRUE]

\* watchSecret succeeds, or finds that the secret has been removed.
watchSecret ==
    /\ pc \in {"watch", "watchShared"}
    /\ LET s == Target
           own == WithOwner(secrets[s])
       IN \/ /\ cachedSecrets[s].rv # 0
             /\ cachedSecrets[s].rv = secrets[s].rv
             /\ secrets' = [secrets EXCEPT ![s] = own]
             /\ mem' = [mem EXCEPT ![s] = own]
          \/ /\ cachedSecrets[s].rv = 0 \/ secrets[s].rv = 0
             /\ UNCHANGED <<secrets, mem>>
    /\ pc' = IF pc = "watch" /\ Watched(cur) # {cur} THEN "watchShared" ELSE "gate"
    /\ UNCHANGED <<vaultVars, reported, deployVars, restarted, cacheVars, memoryVars, cur,
                   server, instVars, userVars, panicked, lost, faults>>

\* The cached copy is out of date: its update conflicts.
watchSecretConflict ==
    /\ pc \in {"watch", "watchShared"}
    /\ LET s == Target IN /\ cachedSecrets[s].rv # 0
                          /\ secrets[s].rv # 0
                          /\ cachedSecrets[s].rv # secrets[s].rv
    /\ Fail(FALSE)
    /\ UNCHANGED <<vaultVars, secrets, deployVars, restarted, memoryVars, userVars,
                   panicked, faults>>

secretVersionChanged(s) == mem[s].rv # 0 /\ recorded[s] # mem[s].rv

Gate ==
    /\ pc = "gate"
    /\ pc' = IF \/ cur \notin hashed
                \/ ~settled
                \/ \E s \in Watched(cur) : secretVersionChanged(s)
             THEN "policies" ELSE "annotate"
    /\ UNCHANGED <<vaultVars, secrets, reported, deployVars, restarted, cacheVars,
                   memoryVars, cur, server, mem, instVars, userVars, panicked, lost,
                   faults>>

\* processVaultSecrets, first part: the policies and roles that are missing (or to
\* be refreshed) are written one by one; ZooKeeper's also makes SecretVersions.
\* The writing fails after any number of them.
WritePoliciesAndRoles ==
    /\ pc = "policies"
    /\ \E k \in 0..Len(GrantsOf(cur)) :
          /\ granted' = IF WritePolicies
                        THEN granted \cup {GrantsOf(cur)[j] : j \in 1..k}
                        ELSE granted
          /\ \/ /\ k = Len(GrantsOf(cur))
                /\ pc' = IF EntriesOf[cur] = {} THEN "clean" ELSE "generator"
                /\ made' = (made \/ cur = "zooKeeper")
                /\ UNCHANGED <<reported, cacheVars, cur, server, mem, versions, upToDate,
                               lost, faults>>
             \/ /\ k < Len(GrantsOf(cur))
                /\ WritePolicies
                /\ faults < MaxFaults
                /\ faults' = faults + 1
                /\ \E outage \in BOOLEAN : Fail(outage)
    /\ UNCHANGED <<vault, secrets, deployVars, restarted, memoryVars, userVars, panicked>>

\* NewVaultPasswordGenerator writes the password policy; WriteVaultPasswordPolicy
\* logs a failure of the request and returns nil, so the work goes on without it.
NewPasswordGenerator ==
    /\ pc = "generator"
    /\ \/ /\ granted' = IF VaultGenerates THEN granted \cup {"passwordPolicy"} ELSE granted
          /\ UNCHANGED faults
       \/ /\ VaultGenerates
          /\ faults < MaxFaults
          /\ faults' = faults + 1
          /\ UNCHANGED granted
    /\ pc' = IF cur = "zooKeeper" THEN "admin" ELSE "daemon"
    /\ UNCHANGED <<vault, secrets, reported, deployVars, restarted, cacheVars, memoryVars,
                   cur, server, mem, instVars, userVars, panicked, lost>>

needToRefreshCredentials == mem[cur].refresh

\* Mutant of NameFor: the name in Vault is forgotten.
NameForgotten(e) == IF mem[cur].names[e] # 0 THEN mem[cur].names[e] ELSE 0

\* The user name comes from the secret if it has one, else from the entry.
NameFor(e) == IF mem[cur].names[e] # 0 THEN mem[cur].names[e] ELSE vault[e].name

\* A password is generated iff there is a user name.
GeneratePasswordForPolicy(e) ==
    NameFor(e) # 0 /\ VaultGenerates => "passwordPolicy" \in granted

WriteVaultSecret(e) ==
    /\ vault' = [vault EXCEPT ![e] = [version |-> IF vault[e].version < MaxVersion
                                                  THEN vault[e].version + 1
                                                  ELSE vault[e].version,
                                      name |-> NameFor(e)]]
    /\ restarted' = restarted \ DeploymentsOf(cur)

\* An entry is written, and its version noted, if it is missing or to be refreshed.
ProcessEntry(e, next) ==
    /\ pc = e
    /\ \/ /\ vault[e].version # 0 /\ ~needToRefreshCredentials
          /\ pc' = next
          /\ UNCHANGED <<vault, reported, restarted, cacheVars, cur, server, mem, instVars,
                         panicked, lost>>
       \/ /\ vault[e].version = 0 \/ needToRefreshCredentials
          /\ ~GeneratePasswordForPolicy(e)
          /\ Fail(FALSE)
          /\ UNCHANGED <<vault, restarted, panicked>>
       \/ /\ vault[e].version = 0 \/ needToRefreshCredentials
          /\ GeneratePasswordForPolicy(e)
          /\ WriteVaultSecret(e)
          /\ made
          /\ versions' = [versions EXCEPT ![e] = vault'[e].version]
          /\ pc' = next
          /\ UNCHANGED <<reported, cacheVars, cur, server, mem, made, upToDate, panicked,
                         lost>>
    /\ UNCHANGED <<granted, secrets, deployVars, memoryVars, userVars, faults>>

processAdminCredentials == ProcessEntry("admin", "client")
processClientCredentials == ProcessEntry("client", "additional")
processAdditionalUsersCredentials == ProcessEntry("additional", "clean")
processCredentials == ProcessEntry("daemon", "clean")

\* The entry has been written and SecretVersions is nil: noting the version panics.
\* The panic is recovered as an error of Reconcile; no status is written.
processCredentialsPanic ==
    /\ pc = "daemon"
    /\ vault["daemon"].version = 0 \/ needToRefreshCredentials
    /\ GeneratePasswordForPolicy("daemon")
    /\ ~made
    /\ WriteVaultSecret("daemon")
    /\ panicked' = TRUE
    /\ lost' = TRUE
    /\ queued' = TRUE
    /\ Returned
    /\ UNCHANGED <<granted, secrets, reported, deployVars, cachedSecrets, cachedReported,
                   statusLag, memoryVars, userVars, faults>>

\* The response to a write is lost: Vault has the new version, the call failed.
WriteVaultSecretUnanswered ==
    /\ pc \in Entry
    /\ faults < MaxFaults
    /\ faults' = faults + 1
    /\ vault[pc].version = 0 \/ needToRefreshCredentials
    /\ GeneratePasswordForPolicy(pc)
    /\ WriteVaultSecret(pc)
    /\ \/ StatusUpdate
       \/ UNCHANGED <<reported, statusLag>>
    /\ lost' = TRUE
    /\ queued' = TRUE
    /\ Returned
    /\ UNCHANGED <<granted, secrets, deployVars, cachedSecrets, cachedReported, memoryVars,
                   userVars, panicked>>

needToCleanSecret == mem[cur].rv # 0 /\ (mem[cur].filled \/ mem[cur].refresh)

Cleaned(secret) == [rv |-> secret.rv + 1, names |-> NoNames, filled |-> FALSE,
                    refresh |-> FALSE, owned |-> secret.owned]

\* Mutant of CleanedCopy: only the resourceVersion of the copy is renewed.
CopyKept(secret) == [secret EXCEPT !.rv = @ + 1]

\* The copy in memory is emptied too: for the next ZooKeeper server there is neither
\* a request nor anything to clean.
CleanedCopy(secret) == Cleaned(secret)

\* The end of processVaultSecrets: the secret is emptied, its refresh request taken
\* back, and its new version recorded.
cleanSecretData ==
    /\ pc = "clean"
    /\ IF needToCleanSecret
       THEN /\ secrets[cur].rv = mem[cur].rv
            /\ secrets' = [secrets EXCEPT ![cur] = Cleaned(mem[cur])]
            /\ mem' = [mem EXCEPT ![cur] = CleanedCopy(mem[cur])]
            /\ recorded' = [recorded EXCEPT ![cur] = mem[cur].rv + 1]
       ELSE UNCHANGED <<secrets, mem, recorded>>
    /\ pc' = "deploy"
    /\ UNCHANGED <<vaultVars, reported, deployVars, restarted, cacheVars, hashed, settled,
                   cur, server, instVars, userVars, panicked, lost, faults>>

\* The secret was updated or removed after it was read, or the answer is lost.
cleanSecretDataFails ==
    /\ pc = "clean"
    /\ needToCleanSecret
    /\ \/ secrets[cur].rv # mem[cur].rv /\ UNCHANGED <<secrets, faults>> /\ Fail(FALSE)
       \/ /\ secrets[cur].rv = mem[cur].rv
          /\ faults < MaxFaults
          /\ faults' = faults + 1
          /\ secrets' = [secrets EXCEPT ![cur] = Cleaned(mem[cur])]
          /\ \E outage \in BOOLEAN : Fail(outage)
    /\ UNCHANGED <<vaultVars, deployVars, restarted, memoryVars, userVars, panicked>>

\* Mutant of NextServer: one server too many.
NextServerOffByOne ==
    IF server <= Units(cur)
    THEN pc' = "policies" /\ server' = server + 1
    ELSE pc' = "status" /\ server' = 1

\* The loop over the servers.
NextServer ==
    IF server < Units(cur)
    THEN pc' = "policies" /\ server' = server + 1
    ELSE pc' = "status" /\ server' = 1

\* createOrUpdateDeployment with the restart annotations, then the next server.
Deploy ==
    /\ pc = "deploy"
    /\ LET d == <<cur, server>>
           built == [s \in Service |-> IF s \in Watched(cur) THEN mem[s].rv ELSE 0]
       IN /\ deployed' = deployed \cup {d}
          /\ annotated' = [annotated EXCEPT ![d] = built]
          /\ restarted' = IF d \in deployed /\ annotated[d] = built THEN restarted
                          ELSE restarted \cup {d}
    /\ NextServer
    /\ UNCHANGED <<vaultVars, secrets, reported, cacheVars, memoryVars, cur, mem,
                   instVars, userVars, panicked, lost, faults>>

\* updateZooKeeperStatus, updateMonitoringStatus, updateBackupDaemonStatus.
UpdateServiceStatus ==
    /\ pc = "status"
    /\ \/ /\ StatusUpdate
          /\ pc' = "annotate"
          /\ UNCHANGED <<cachedSecrets, cachedReported, queued, cur, server, mem, instVars,
                         lost>>
       \/ ~upToDate /\ Fail(FALSE)
    /\ UNCHANGED <<vaultVars, secrets, deployVars, restarted, memoryVars, userVars, panicked,
                   faults>>

\* Mutant of RestartAnnotations: the template is left as it is.
OldAnnotations(d) == annotated[d]

\* The template's annotations with the versions of the secrets that were read.
RestartAnnotations(d) == [s \in Service |-> IF s \in Watched(cur) /\ mem[s].rv # 0
                                            THEN mem[s].rv ELSE annotated[d][s]]

\* updateDeploymentSecretRestartAnnotations, also when the gate is closed; after the
\* last server the secrets' versions and the service's hash are recorded.
Annotate ==
    /\ pc = "annotate"
    /\ LET d == <<cur, server>>
           built == RestartAnnotations(d)
       IN IF d \in deployed /\ annotated[d] # built
          THEN /\ annotated' = [annotated EXCEPT ![d] = built]
               /\ restarted' = restarted \cup {d}
          ELSE UNCHANGED <<annotated, restarted>>
    /\ IF server < Units(cur)
       THEN server' = server + 1 /\ UNCHANGED <<recorded, hashed, pc, cur, mem>>
       ELSE /\ recorded' = [s \in Service |-> IF s \in Watched(cur) /\ mem[s].rv # 0
                                              THEN mem[s].rv ELSE recorded[s]]
            /\ hashed' = hashed \cup {cur}
            /\ pc' = IF After(cur) = "none" THEN "finish" ELSE "watch"
            /\ cur' = After(cur)
            /\ server' = 1
            /\ mem' = [s \in Service |-> NoSecret]
    /\ UNCHANGED <<vaultVars, secrets, reported, deployed, cacheVars, settled,
                   instVars, userVars, panicked, lost, faults>>

\* The outcome is written if the spec was new, and its hashes are recorded.
Finish ==
    /\ pc = "finish"
    /\ IF settled THEN UNCHANGED <<reported, statusLag>> ELSE StatusUpdate
    /\ settled' = TRUE
    /\ Returned
    /\ UNCHANGED <<vaultVars, secrets, deployVars, restarted, cachedSecrets, cachedReported,
                   queued, hashed, recorded, userVars, panicked, lost, faults>>

\* A call fails without effect, or the wait for a pod times out.
CallFails ==
    /\ faults < MaxFaults
    /\ faults' = faults + 1
    /\ \/ /\ pc \notin {"idle", "gate", "generator", "finish"}
          /\ \E outage \in BOOLEAN : Fail(outage)
       \/ /\ pc = "finish" /\ ~settled
          /\ queued' = TRUE
          /\ Returned
          /\ UNCHANGED <<reported, cachedSecrets, cachedReported, statusLag, lost>>
    /\ UNCHANGED <<vaultVars, secrets, deployVars, restarted, memoryVars, userVars, panicked>>

-----------------------------------------------------------------------------
(* The environment: users, the informers, the process itself.              *)

\* A user update names entries, and sets the refresh-credentials annotation.  With
\* a request the user asks for the names the secret now has; without one, for none.
UpdateSecret(s) ==
    /\ secrets[s].rv # 0
    /\ updates < MaxUpdates
    /\ updates' = updates + 1
    /\ \E given \in Supplies, request \in BOOLEAN :
          LET names == [e \in Entry |-> IF e \in given \cap EntriesOf[s]
                                        THEN updates + 2 ELSE secrets[s].names[e]]
          IN /\ secrets' = [secrets EXCEPT ![s] =
                   [rv |-> @.rv + 1, names |-> names, refresh |-> request, owned |-> @.owned,
                    filled |-> @.filled \/ given \cap EntriesOf[s] # {}]]
             /\ wanted' = [e \in Entry |-> IF e \notin EntriesOf[s] \/ names[e] = 0
                                           THEN wanted[e]
                                           ELSE IF request THEN names[e] ELSE 0]
             /\ asked' = [asked EXCEPT ![s] = IF request THEN @ + 1 ELSE @]
    /\ UNCHANGED <<vaultVars, reported, deployVars, restarted, cacheVars, memoryVars,
                   callVars, panicked, lost, faults>>

\* Whether a removed secret was owned decides if the removal reaches the queue.
Removed(secret) == [rv |-> 0, names |-> NoNames, filled |-> FALSE, refresh |-> FALSE,
                    owned |-> secret.owned]

RemoveSecret(s) ==
    /\ MayRemove
    /\ secrets[s].rv # 0
    /\ updates < MaxUpdates
    /\ updates' = updates + 1
    /\ secrets' = [secrets EXCEPT ![s] = Removed(secrets[s])]
    /\ wanted' = [e \in Entry |-> IF secrets[s].names[e] = 0 THEN wanted[e] ELSE 0]
    /\ UNCHANGED <<vaultVars, reported, deployVars, restarted, cacheVars, memoryVars,
                   callVars, asked, panicked, lost, faults>>

\* The informer delivers a secret; its event reaches the queue iff it is owned.
DeliverSecret(s) ==
    /\ cachedSecrets[s] # secrets[s]
    /\ cachedSecrets' = [cachedSecrets EXCEPT ![s] = secrets[s]]
    /\ queued' = (queued \/ secrets[s].owned)
    /\ UNCHANGED <<vaultVars, secrets, reported, deployVars, restarted, cachedReported,
                   statusLag, memoryVars, callVars, userVars, panicked, lost, faults>>

\* It delivers the custom resource; the predicate drops the event.
DeliverStatus ==
    /\ statusLag
    /\ cachedReported' = reported
    /\ statusLag' = FALSE
    /\ UNCHANGED <<vaultVars, secrets, reported, deployVars, restarted, cachedSecrets, queued,
                   memoryVars, callVars, userVars, panicked, lost, faults>>

\* The operator restarts: its memory is lost, the caches are listed anew, and the
\* initial listing queues the custom resource.
Restart ==
    /\ faults < MaxFaults
    /\ faults' = faults + 1
    /\ lost' = (lost \/ Unreported)
    /\ cachedSecrets' = secrets
    /\ cachedReported' = reported
    /\ statusLag' = FALSE
    /\ queued' = TRUE
    /\ hashed' = {}
    /\ settled' = FALSE
    /\ recorded' = [s \in Service |-> 0]
    /\ Returned
    /\ UNCHANGED <<vaultVars, secrets, reported, deployVars, restarted, userVars, panicked>>

-----------------------------------------------------------------------------
(* The specification.                                                      *)

\* The secrets as they are installed: with names and without a refresh request.
NewSecret(s) == [rv |-> 1, names |-> [e \in Entry |-> IF e \in EntriesOf[s] THEN 1 ELSE 0],
                 filled |-> TRUE, refresh |-> FALSE, owned |-> FALSE]

Init ==
    /\ vault = [e \in Entry |-> IF Preloaded THEN [version |-> 1, name |-> MaxUpdates + 2]
                                ELSE [version |-> 0, name |-> 0]]
    /\ granted = IF WritePolicies THEN {} ELSE Grant \ {"passwordPolicy"}
    /\ secrets = [s \in Service |-> IF s \in Services THEN NewSecret(s) ELSE NoSecret]
    /\ reported = NoVersions
    /\ deployed = {}
    /\ annotated = [d \in Deployment |-> [s \in Service |-> 0]]
    /\ restarted = {}
    /\ cachedSecrets = secrets
    /\ cachedReported = NoVersions
    /\ statusLag = FALSE
    /\ queued = TRUE
    /\ hashed = {}
    /\ settled = FALSE
    /\ recorded = [s \in Service |-> 0]
    /\ pc = "idle"
    /\ cur = "none"
    /\ server = 1
    /\ mem = [s \in Service |-> NoSecret]
    /\ versions = NoVersions
    /\ made = FALSE
    /\ upToDate = FALSE
    /\ wanted = [e \in Entry |-> IF Preloaded THEN 0
                                 ELSE IF \E s \in Services : e \in EntriesOf[s] THEN 1 ELSE 0]
    /\ asked = [s \in Service |-> 0]
    /\ updates = 0
    /\ panicked = FALSE
    /\ lost = FALSE
    /\ faults = 0

OperatorStep ==
    \/ Begin \/ watchSecret \/ watchSecretConflict \/ Gate
    \/ WritePoliciesAndRoles \/ NewPasswordGenerator
    \/ processAdminCredentials \/ processClientCredentials
    \/ processAdditionalUsersCredentials
    \/ processCredentials \/ processCredentialsPanic
    \/ cleanSecretData \/ cleanSecretDataFails
    \/ Deploy \/ UpdateServiceStatus \/ Annotate \/ Finish

DeliverSecrets == \E s \in Service : DeliverSecret(s)

Next ==
    \/ OperatorStep
    \/ CallFails \/ WriteVaultSecretUnanswered \/ Restart
    \/ DeliverStatus \/ DeliverSecrets
    \/ \E s \in EditableSecrets : UpdateSecret(s) \/ RemoveSecret(s)

\* Workers take the queued request, informers deliver what changed.
Fairness == WF_vars(OperatorStep) /\ WF_vars(DeliverSecrets) /\ WF_vars(DeliverStatus)

Spec == Init /\ [][Next]_vars /\ Fairness

-----------------------------------------------------------------------------
(* Properties.                                                             *)

SecretObject == [rv : Nat, names : [Entry -> Nat], filled : BOOLEAN, refresh : BOOLEAN,
                 owned : BOOLEAN]

Step == {"idle", "watch", "watchShared", "gate", "policies", "generator", "clean",
         "deploy", "status", "annotate", "finish"} \cup Entry

StoreType == /\ vault \in [Entry -> [version : Nat, name : Nat]]
             /\ granted \subseteq Grant
             /\ secrets \in [Service -> SecretObject]
             /\ reported \in [Entry -> Nat]
DeployType == /\ deployed \subseteq Deployment
              /\ restarted \subseteq deployed
              /\ annotated \in [Deployment -> [Service -> Nat]]
CacheType == /\ cachedSecrets \in [Service -> SecretObject]
             /\ cachedReported \in [Entry -> Nat]
             /\ statusLag \in BOOLEAN
             /\ queued \in BOOLEAN
MemoryType == /\ hashed \subseteq Service
              /\ settled \in BOOLEAN
              /\ recorded \in [Service -> Nat]
CallType == /\ pc \in Step
            /\ cur \in Services \cup {"none"}
            /\ pc \in {"idle", "finish"} <=> cur = "none"
            /\ server \in 1..Units(cur)
            /\ mem \in [Service -> SecretObject]
            /\ versions \in [Entry -> Nat]
            /\ made \in BOOLEAN
            /\ upToDate \in BOOLEAN
HistoryType == /\ wanted \in [Entry -> Nat]
               /\ asked \in [Service -> Nat]
               /\ updates \in Nat
               /\ panicked \in BOOLEAN
               /\ lost \in BOOLEAN
               /\ faults \in Nat

\* Types: every variable of the model stays in its domain; the steps of Reconcile
\* between fetching the instance and its end work on one of the service's servers.
TypeOK == StoreType /\ DeployType /\ CacheType /\ MemoryType /\ CallType /\ HistoryType

\* Passwords are generated when Vault lacks the entry and once per refresh request:
\* a failed or interrupted cycle may generate them again, the loop over the servers
\* and stale copies of the secret may not.
RotatedOnRequest ==
    ~panicked => \A s \in Service : \A e \in EntriesOf[s] :
                    vault[e].version <= 1 + asked[s] + faults

\* What the pods of a service read at start: their role, the policies it names, and
\* the entries in their environment.  A missing one stops the pod
\* (VAULT_IGNORE_MISSING_SECRETS is "False").
GrantsRead(s) ==
    IF s = "zooKeeper" THEN {"adminRole", "adminPolicy"}
    ELSE IF s = "monitoring" THEN {"monitoringRole", "monitoringPolicy", "clientPolicy"}
    ELSE {"daemonRole", "daemonPolicy", "adminPolicy"}
ZooKeeperReads == {"admin", "client", "additional"}
MonitoringReads == {"client"}
BackupDaemonReads == {"daemon", "admin"}
EntriesRead(s) == IF s = "zooKeeper" THEN ZooKeeperReads
                  ELSE IF s = "monitoring" THEN MonitoringReads ELSE BackupDaemonReads

\* No Deployment exists before everything that its pods read from Vault, the part
\* that another service's reconciler writes included.
RunnableWhenDeployed ==
    \A d \in deployed : /\ GrantsRead(d[1]) \subseteq granted
                        /\ \A e \in EntriesRead(d[1]) : vault[e].version # 0

AtRest == pc = "idle" /\ ~queued /\ cachedSecrets = secrets

\* At rest the pods of every Deployment were replaced after the last rotation of
\* their service's own credentials, however the cycles that rotated them were cut
\* short; unless the secret was removed, which leaves nothing to notice it by.
RestartedAfterRotation ==
    AtRest => \A d \in deployed : secrets[d[1]].rv # 0 => d \in restarted

\* At rest the status reports the versions that Vault has, if no status update was
\* lost after a write; of entries installed over, it may report no version at all.
ReportedAtRest ==
    AtRest /\ ~lost => \A e \in Entry : \/ reported[e] = vault[e].version
                                        \/ Preloaded /\ reported[e] = 0

\* A service whose secret no other service's reconciler records.
Unshared == {s \in Services : ~(s = "backupDaemon" /\ "monitoring" \in Services)}

\* vault.md on credentials rotation: "After this, the Operator generates new
\* passwords for all ZooKeeper secrets": every request is eventually served.
EveryRefreshServed == \A s \in Unshared : secrets[s].refresh ~> ~secrets[s].refresh

\* The secret that carries the name of an entry.
Owner == [e \in Entry |-> IF e \in ZooKeeperEntries THEN "zooKeeper" ELSE "backupDaemon"]
GivenNames == [e \in Entry |-> secrets[Owner[e]].names[e]]
KeptNames == [e \in Entry |-> vault[e].name]

\* The operator hands names over as CredentialHandover promises.
Handover == INSTANCE CredentialHandover
    WITH Owners <- Service, Owned <- EntriesOf, given <- GivenNames, kept <- KeptNames

\* Every step of the operator keeps the promise, in spite of lagging caches, lost
\* answers, conflicts and restarts: the detailed specification implements the
\* abstract one.
HandoverKept == Handover!HandoverSpec

-----------------------------------------------------------------------------
(* The inductive invariant behind HandoverKept.                            *)

\* The call's copy of a secret is what the API server has.
Fresh(s) == mem[s].rv # 0 /\ mem[s].rv = secrets[s].rv

\* The name of entry e has been processed in the current pass.
Passed(e) == \/ e = "admin" /\ pc \in {"client", "additional"}
             \/ e = "client" /\ pc = "additional"
             \/ cur = Owner[e] /\ pc = "clean"

\* What holds of the secrets and of the copies: versions tell contents apart, and a
\* removed secret, seen or not, has no names.
CopyInv ==
    \A s \in Service :
       /\ secrets[s].rv = 0 => secrets[s].names = NoNames
       /\ secrets[s].rv # 0 => cachedSecrets[s].rv # 0 /\ mem[s].rv <= secrets[s].rv
       /\ mem[s].rv = 0 => mem[s].names = NoNames
       /\ Fresh(s) => mem[s] = secrets[s]
       /\ \A e \in Entry \ EntriesOf[s] : secrets[s].names[e] = 0

\* What holds of the call: it works on entries of its service, and has a copy of the
\* service's secret unless that has been removed.
CallInv ==
    /\ \A e \in Entry : pc = e => cur = Owner[e]
    /\ pc = "generator" => EntriesOf[cur] # {}
    /\ pc \notin {"idle", "finish", "watch"} /\ mem[cur].rv = 0 => secrets[cur].rv = 0

\* What holds of a name that was asked for.
NameInv ==
    \A e \in Entry : wanted[e] # 0 =>
       LET secret == secrets[Owner[e]]
           copy == mem[Owner[e]]
       IN /\ secret.names[e] = 0 => vault[e].name = wanted[e] /\ copy.names[e] = 0
          /\ secret.names[e] # 0 =>
                /\ secret.names[e] = wanted[e]
                /\ secret.refresh \/ vault[e].version = 0 \/ vault[e].name = wanted[e]
                /\ copy.rv # 0 /\ ~Fresh(Owner[e]) => secret.refresh
                /\ Fresh(Owner[e]) /\ Passed(e) => vault[e].name = wanted[e]

\* Each name that was asked for is where the next step of processVaultSecrets looks
\* for it: in the secret until the pass that has read it is over, in Vault after
\* that; a copy that is out of date never overwrites it.
NamesAccounted == CopyInv /\ CallInv /\ NameInv
=============================================================================
