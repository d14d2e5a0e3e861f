--------------------------- MODULE ZooKeeperRollout ---------------------------
(***************************************************************************)
(* How the operator rolls out the ZooKeeper servers: the work that         *)
(* ReconcileZooKeeper.Reconcile does once its gate is open (counting the   *)
(* active Deployments, scaling the excess ones down, then updating server  *)
(* after server) and the restart annotations it sets afterwards, against   *)
(* the Kubernetes Deployment controller and kubelet.                       *)
(*                                                                         *)
(* Each server is a Deployment of one pod with strategy Recreate.  A pod   *)
(* template is the pair of the configuration and of the secret version it  *)
(* was built from; every change of the custom resource is a new            *)
(* configuration (the template holds SERVER_COUNT, so a new number of      *)
(* replicas is one too).                                                   *)
(***************************************************************************)
EXTENDS Naturals, FiniteSets

CONSTANTS
    MaxServers,      \* servers are 1..MaxServers
    Installed,       \* number of servers running at the start (0: fresh install)
    ReplicaChoices,  \* values of spec.zooKeeper.replicas users write
    RollingUpdate,   \* spec.zooKeeper.rollingUpdate
    VaultEnabled,    \* IsVaultSecretManagementEnabled(cr)
    SleepCoversSync, \* the Deployment controller reacts within waitingInterval
    MaxConfigs,      \* bound on configurations
    MaxSecretEdits,  \* bound on updates of the secret by users
    MaxFailures,     \* bound on failed calls and timeouts
    MaxPodFailures,  \* bound on containers that fail by themselves
    MaxRestarts      \* bound on restarts of the operator

ASSUME ServersAssumption == /\ MaxServers \in Nat \ {0}
                            /\ Installed \in 0..MaxServers
                            /\ ReplicaChoices \subseteq 1..MaxServers
                            /\ ReplicaChoices # {}
ASSUME FlagsAssumption == /\ RollingUpdate \in BOOLEAN
                          /\ VaultEnabled \in BOOLEAN
                          /\ SleepCoversSync \in BOOLEAN
ASSUME BoundsAssumption == /\ MaxConfigs \in Nat
                           /\ MaxSecretEdits \in Nat
                           /\ MaxFailures \in Nat
                           /\ MaxPodFailures \in Nat
                           /\ MaxRestarts \in Nat

Server == 1..MaxServers

VARIABLES
    replicas,    \* spec.zooKeeper.replicas
    config,      \* the configuration in the custom resource
    secret,      \* resourceVersion of the ZooKeeper secret
    pending,     \* the secret holds data or a refresh request for Vault
    deployment,  \* deployment[i]: replicas and template; config 0 means it does not exist
    pod,         \* pod[i]: state and template
    published,   \* published[i]: min(ReadyReplicas, UpdatedReplicas) > 0 in the status
    observed,    \* observed[i]: the status was computed for the current template
    queued,      \* a request is in the work queue
    recordedHash, recordedVersion,    \* ResourceHashes and ResourceVersions
    pc,          \* next step of the running call
    server,      \* serverId, or the Deployment being scaled down
    current,     \* currentReplicas
    rolling,     \* RollingUpdate as this call uses it
    target,      \* replicas and configuration of the instance
    seen,        \* resourceVersion of the secret the call holds
    dirty,       \* needToCleanSecret of the secret the call holds
    unsettled,   \* history: the servers that were not settled when the call began
    secretEdits, failures, podFailures, restarts

crVars == <<replicas, config, secret, pending>>
kubeVars == <<deployment, pod, published, observed>>
memoryVars == <<recordedHash, recordedVersion>>
callVars == <<pc, server, current, rolling, target, seen, dirty, unsettled>>
boundVars == <<secretEdits, failures, podFailures, restarts>>
vars == <<crVars, kubeVars, queued, memoryVars, callVars, boundVars>>

NoDeployment == [replicas |-> 0, config |-> 0, secret |-> 0]
NoPod == [state |-> "none", config |-> 0, secret |-> 0]

Exists(i) == deployment[i].config # 0

\* getCurrentDeploymentsCount counts the Deployments with replicas above zero.
Active == {i \in Server : Exists(i) /\ deployment[i].replicas > 0}

Ready(i) == pod[i].state = "ready"

\* Servers of the instance that do not serve now.
NotReady == {i \in 1..replicas : Exists(i) /\ ~Ready(i)}

Matches(i) == pod[i].config = deployment[i].config /\ pod[i].secret = deployment[i].secret

\* The server is wanted and its pod serves the template of its Deployment.
Settled(i) == i \in Active /\ Ready(i) /\ Matches(i)

\* Mutant of isDeploymentReady: the status is not compared.
isDeploymentFound(i) == Exists(i)

\* isDeploymentReady: the published status against the wanted number of replicas.
isDeploymentReady(i) ==
    Exists(i) /\ deployment[i].replicas = IF published[i] THEN 1 ELSE 0

\* isPodRunning: no pod of the Deployment is in another phase than Running.
isPodRunning(i) == pod[i].state # "pending"

\* An update of a Deployment; a new template is not observed by the controller yet.
Update(i, new) ==
    /\ deployment' = [deployment EXCEPT ![i] = new]
    /\ observed' = [observed EXCEPT ![i] = @ /\ new = deployment[i]]
    /\ UNCHANGED <<pod, published>>

-----------------------------------------------------------------------------
(* The operator.                                                           *)

Return ==
    /\ pc' = "idle"
    /\ server' = 1
    /\ current' = 0
    /\ rolling' = FALSE
    /\ target' = [replicas |-> 0, config |-> 0]
    /\ seen' = 0
    /\ dirty' = FALSE
    /\ unsettled' = {}

\* The first server, after watchSecret, the gate and the services.
FirstServer == IF VaultEnabled THEN "vault" ELSE "server"

\* Mutant of GateOpen: the hash of the section is forgotten.
GateOpenSecretOnly == recordedVersion # secret

\* The condition around the work of ReconcileZooKeeper.Reconcile.
GateOpen == recordedHash # config \/ recordedVersion # secret

\* Reconcile starts: gate, count of the active Deployments, choice of the mode.
Begin ==
    /\ pc = "idle"
    /\ queued
    /\ queued' = FALSE
    /\ target' = [replicas |-> replicas, config |-> config]
    /\ seen' = secret
    /\ dirty' = pending
    /\ unsettled' = {i \in Server : ~Settled(i)}
    /\ IF GateOpen
       THEN /\ current' = Cardinality(Active)
            /\ rolling' = (RollingUpdate /\ Cardinality(Active) > 2
                                         /\ Cardinality(Active) = replicas)
            /\ IF Cardinality(Active) > replicas
               THEN pc' = "downscale" /\ server' = replicas + 1
               ELSE pc' = FirstServer /\ server' = 1
       ELSE /\ pc' = "annotate"
            /\ UNCHANGED <<server, current, rolling>>
    /\ UNCHANGED <<crVars, kubeVars, memoryVars, boundVars>>

\* Mutant of Downscale: the last excess Deployment is left out.
DownscaleButLast ==
    /\ pc = "downscale"
    /\ Exists(server)
    /\ IF server = current
       THEN UNCHANGED kubeVars /\ pc' = FirstServer /\ server' = 1
       ELSE /\ Update(server, [deployment[server] EXCEPT !.replicas = 0])
            /\ server' = server + 1
            /\ UNCHANGED pc
    /\ UNCHANGED <<crVars, queued, memoryVars, current, rolling, target, seen, dirty,
                   unsettled, boundVars>>

\* scaleDeployment of one excess Deployment; it must exist.
Downscale ==
    /\ pc = "downscale"
    /\ Exists(server)
    /\ Update(server, [deployment[server] EXCEPT !.replicas = 0])
    /\ IF server = current
       THEN pc' = FirstServer /\ server' = 1
       ELSE server' = server + 1 /\ UNCHANGED pc
    /\ UNCHANGED <<crVars, queued, memoryVars, current, rolling, target, seen, dirty,
                   unsettled, boundVars>>

\* Mutant of CleanSecret: the refresh request stays in the secret.
CleanSecretKeepRequest ==
    /\ pc = "vault"
    /\ IF dirty
       THEN /\ secret = seen
            /\ secret' = secret + 1
            /\ seen' = secret + 1
            /\ recordedVersion' = secret + 1
            /\ queued' = TRUE
       ELSE UNCHANGED <<secret, seen, recordedVersion, queued>>
    /\ dirty' = FALSE
    /\ pc' = "server"
    /\ UNCHANGED <<replicas, config, pending, kubeVars, recordedHash, server, current,
                   rolling, target, unsettled, boundVars>>

\* processVaultSecrets empties the secret and records its new version at once.
CleanSecret ==
    /\ pc = "vault"
    /\ IF dirty
       THEN /\ secret = seen
            /\ secret' = secret + 1
            /\ pending' = FALSE
            /\ seen' = secret + 1
            /\ recordedVersion' = secret + 1
            /\ queued' = TRUE
       ELSE UNCHANGED <<secret, pending, seen, recordedVersion, queued>>
    /\ dirty' = FALSE
    /\ pc' = "server"
    /\ UNCHANGED <<replicas, config, kubeVars, recordedHash, server, current, rolling,
                   target, unsettled, boundVars>>

\* createOrUpdateDeployment of the server's Deployment.
UpdateServer ==
    /\ pc = "server"
    /\ Update(server, [replicas |-> 1, config |-> target.config, secret |-> seen])
    /\ pc' = "running"
    /\ UNCHANGED <<crVars, queued, memoryVars, server, current, rolling, target, seen,
                   dirty, unsettled, boundVars>>

\* Mutant of NextServer: one server too many.
NextServerPastEnd ==
    IF server > target.replicas
    THEN pc' = "status" /\ server' = 1
    ELSE pc' = FirstServer /\ server' = server + 1

\* After a server the loop goes on with the next one.
NextServer ==
    IF server = target.replicas
    THEN pc' = "status" /\ server' = 1
    ELSE pc' = FirstServer /\ server' = server + 1

\* The poll of isPodRunning ends.
AwaitRunning ==
    /\ pc = "running"
    /\ isPodRunning(server)
    /\ IF rolling THEN pc' = "ready" /\ UNCHANGED server ELSE NextServer
    /\ UNCHANGED <<crVars, kubeVars, queued, memoryVars, current, rolling, target, seen,
                   dirty, unsettled, boundVars>>

\* Mutant of AwaitReady: the status is read without the sleep.
AwaitReadyAtOnce ==
    /\ pc = "ready"
    /\ isDeploymentReady(server)
    /\ NextServer
    /\ UNCHANGED <<crVars, kubeVars, queued, memoryVars, current, rolling, target, seen,
                   dirty, unsettled, boundVars>>

\* With RollingUpdate: sleep waitingInterval, then the poll of isDeploymentReady ends.
AwaitReady ==
    /\ pc = "ready"
    /\ SleepCoversSync => observed[server]
    /\ isDeploymentReady(server)
    /\ NextServer
    /\ UNCHANGED <<crVars, kubeVars, queued, memoryVars, current, rolling, target, seen,
                   dirty, unsettled, boundVars>>

\* updateZooKeeperStatus: accepted iff the custom resource was not updated meanwhile.
UpdateStatus ==
    /\ pc = "status"
    /\ target.config = config
    /\ pc' = "annotate"
    /\ UNCHANGED <<crVars, kubeVars, queued, memoryVars, server, current, rolling, target,
                   seen, dirty, unsettled, boundVars>>

\* updateDeploymentSecretRestartAnnotations of each server, gate open or not; after
\* the last one the version and the hash are recorded.
Annotate ==
    /\ pc = "annotate"
    /\ IF Exists(server)
       THEN Update(server, [deployment[server] EXCEPT !.secret = seen])
       ELSE UNCHANGED kubeVars
    /\ IF server = target.replicas
       THEN /\ recordedVersion' = seen
            /\ recordedHash' = target.config
            /\ Return
       ELSE /\ server' = server + 1
            /\ UNCHANGED <<memoryVars, pc, current, rolling, target, seen, dirty, unsettled>>
    /\ UNCHANGED <<crVars, queued, boundVars>>

\* Mutant of ReturnError: the request is not queued again.
ReturnErrorOnce == Return /\ UNCHANGED queued

\* The call returns an error and the request is queued again.
ReturnError == Return /\ queued' = TRUE

\* Errors that follow from the state: a conflicting update, a missing Deployment.
CallConflicts ==
    /\ \/ pc = "status" /\ target.config # config
       \/ pc = "vault" /\ dirty /\ secret # seen
       \/ pc = "downscale" /\ ~Exists(server)
    /\ ReturnError
    /\ UNCHANGED <<crVars, kubeVars, memoryVars, boundVars>>

\* Any other failed call, or a poll that reaches its 300 seconds.
CallFails ==
    /\ pc # "idle"
    /\ failures < MaxFailures
    /\ failures' = failures + 1
    /\ ReturnError
    /\ UNCHANGED <<crVars, kubeVars, memoryVars, secretEdits, podFailures, restarts>>

\* The operator restarts with an empty memory.
Restart ==
    /\ restarts < MaxRestarts
    /\ restarts' = restarts + 1
    /\ recordedHash' = 0
    /\ recordedVersion' = 0
    /\ ReturnError
    /\ UNCHANGED <<crVars, kubeVars, secretEdits, failures, podFailures>>

-----------------------------------------------------------------------------
(* Users.                                                                  *)

ChangeConfig(n) ==
    /\ config < MaxConfigs
    /\ config' = config + 1
    /\ replicas' = n
    /\ queued' = TRUE
    /\ UNCHANGED <<secret, pending, kubeVars, memoryVars, callVars, boundVars>>

ChangeSecret ==
    /\ secretEdits < MaxSecretEdits
    /\ secretEdits' = secretEdits + 1
    /\ secret' = secret + 1
    /\ pending' = VaultEnabled
    /\ queued' = TRUE
    /\ UNCHANGED <<replicas, config, kubeVars, memoryVars, callVars, failures, podFailures,
                   restarts>>

-----------------------------------------------------------------------------
(* Kubernetes (external): the Deployment controller and the kubelet.       *)

\* Strategy Recreate: a pod of another template, or an unwanted one, is removed.
RemovePod(i) ==
    /\ pod[i].state # "none"
    /\ deployment[i].replicas = 0 \/ ~Matches(i)
    /\ pod' = [pod EXCEPT ![i] = NoPod]
    /\ UNCHANGED <<crVars, deployment, published, observed, queued, memoryVars, callVars,
                   boundVars>>

CreatePod(i) ==
    /\ pod[i].state = "none"
    /\ deployment[i].replicas = 1
    /\ pod' = [pod EXCEPT ![i] = [state |-> "pending", config |-> deployment[i].config,
                                  secret |-> deployment[i].secret]]
    /\ UNCHANGED <<crVars, deployment, published, observed, queued, memoryVars, callVars,
                   boundVars>>

\* A pod's containers start, and its readiness probe succeeds.
AdvancePod(i) ==
    /\ \E step \in {<<"pending", "running">>, <<"running", "ready">>} :
          /\ pod[i].state = step[1]
          /\ pod' = [pod EXCEPT ![i].state = step[2]]
    /\ UNCHANGED <<crVars, deployment, published, observed, queued, memoryVars, callVars,
                   boundVars>>

\* The controller publishes the Deployment's status.
SyncStatus(i) ==
    LET available == Ready(i) /\ Matches(i)
    IN /\ Exists(i)
       /\ ~observed[i] \/ published[i] # available
       /\ published' = [published EXCEPT ![i] = available]
       /\ observed' = [observed EXCEPT ![i] = TRUE]
       /\ UNCHANGED <<crVars, deployment, pod, queued, memoryVars, callVars, boundVars>>

\* A container fails by itself and its pod is not ready any more.
PodFails(i) ==
    /\ podFailures < MaxPodFailures
    /\ podFailures' = podFailures + 1
    /\ Ready(i)
    /\ pod' = [pod EXCEPT ![i].state = "running"]
    /\ UNCHANGED <<crVars, deployment, published, observed, queued, memoryVars, callVars,
                   secretEdits, failures, restarts>>

-----------------------------------------------------------------------------

Init ==
    /\ replicas \in IF Installed = 0 THEN ReplicaChoices ELSE {Installed}
    /\ config = 1
    /\ secret = 1
    /\ pending = (Installed = 0 /\ VaultEnabled)
    /\ deployment = [i \in Server |-> IF i <= Installed
                        THEN [replicas |-> 1, config |-> 1, secret |-> 1]
                        ELSE NoDeployment]
    /\ pod = [i \in Server |-> IF i <= Installed
                        THEN [state |-> "ready", config |-> 1, secret |-> 1]
                        ELSE NoPod]
    /\ published = [i \in Server |-> i <= Installed]
    /\ observed = [i \in Server |-> i <= Installed]
    /\ queued = (Installed = 0)
    /\ recordedHash = IF Installed = 0 THEN 0 ELSE 1
    /\ recordedVersion = IF Installed = 0 THEN 0 ELSE 1
    /\ pc = "idle"
    /\ server = 1
    /\ current = 0
    /\ rolling = FALSE
    /\ target = [replicas |-> 0, config |-> 0]
    /\ seen = 0
    /\ dirty = FALSE
    /\ unsettled = {}
    /\ secretEdits = 0
    /\ failures = 0
    /\ podFailures = 0
    /\ restarts = 0

OperatorStep == \/ Begin \/ Downscale \/ CleanSecret \/ UpdateServer
                \/ AwaitRunning \/ AwaitReady \/ UpdateStatus \/ Annotate
                \/ CallConflicts

KubeStep(i) == RemovePod(i) \/ CreatePod(i) \/ AdvancePod(i) \/ SyncStatus(i)

Next ==
    \/ OperatorStep \/ CallFails \/ Restart
    \/ \E n \in ReplicaChoices : ChangeConfig(n)
    \/ ChangeSecret
    \/ \E i \in Server : KubeStep(i) \/ PodFails(i)

\* The operator's worker and the Kubernetes controllers keep working.
Fairness == /\ WF_vars(OperatorStep)
            /\ \A i \in Server : WF_vars(KubeStep(i))

Spec == Init /\ [][Next]_vars /\ Fairness

-----------------------------------------------------------------------------
(* Properties.                                                             *)

Step == {"idle", "downscale", "vault", "server", "running", "ready", "status", "annotate"}

\* Type correctness; during a call the server being processed is one of the instance.
TypeOK ==
    /\ replicas \in Server
    /\ config \in Nat
    /\ secret \in Nat
    /\ pending \in BOOLEAN
    /\ deployment \in [Server -> [replicas : {0, 1}, config : Nat, secret : Nat]]
    /\ pod \in [Server -> [state : {"none", "pending", "running", "ready"},
                           config : Nat, secret : Nat]]
    /\ published \in [Server -> BOOLEAN]
    /\ observed \in [Server -> BOOLEAN]
    /\ queued \in BOOLEAN
    /\ recordedHash \in Nat
    /\ recordedVersion \in Nat
    /\ pc \in Step
    /\ server \in Server
    /\ current \in Nat
    /\ rolling \in BOOLEAN
    /\ target \in [replicas : Nat, config : Nat]
    /\ seen \in Nat
    /\ dirty \in BOOLEAN
    /\ unsettled \in SUBSET Server
    /\ secretEdits \in Nat
    /\ failures \in Nat
    /\ podFailures \in Nat
    /\ restarts \in Nat
    /\ pc \notin {"idle", "downscale"} => server <= target.replicas

\* A rolling update takes down one server at a time: while the operator works in
\* rolling mode on an ensemble whose pods do not fail by themselves, every server
\* that is not ready is the one being updated, or was not ready, already being
\* replaced or scaled down before the call.
OnlyCurrentDisrupted ==
    rolling => NotReady \subseteq unsettled \cup {server}

\* The servers a rolling call has passed are up to date and ready: a later server is
\* not touched before the earlier ones serve the new configuration.
PassedAreReady ==
    rolling /\ pc \in {"vault", "server", "running", "ready", "status"} =>
       \A i \in Server :
          (i < server \/ (pc = "status" /\ i <= target.replicas)) =>
             Ready(i) /\ pod[i].config = target.config

\* "redeploy ZooKeeper pods during an update one by one" (docs/public/installation.md):
\* with RollingUpdate and no pod failing by itself at most one installed server is
\* out of service.
OneByOne == RollingUpdate => Cardinality(NotReady) <= 1

\* At rest with nothing queued every server of the spec is wanted, and its Deployment
\* has the current configuration and the current version of the secret: whatever
\* failed or restarted on the way, a skipped update leaves nothing behind.
RestIsCurrent ==
    pc = "idle" /\ ~queued =>
       \A i \in 1..replicas :
          deployment[i] = [replicas |-> 1, config |-> config, secret |-> secret]

\* "For correct work excess ZooKeeper deployments need to be scaled down": at rest
\* no Deployment beyond the wanted number of replicas is active.
ExcessScaledDown ==
    pc = "idle" /\ ~queued => \A i \in Server : i > replicas => i \notin Active

\* How far a call is: its part, the server, the step of the server.
Part == IF pc = "idle" THEN 4
        ELSE IF pc = "annotate" THEN 3
        ELSE IF pc = "status" THEN 2
        ELSE IF pc = "downscale" THEN 0 ELSE 1

Stage == IF pc = "ready" THEN 3
         ELSE IF pc = "running" THEN 2
         ELSE IF pc = "server" THEN 1 ELSE 0

CallAdvances ==
    \/ Part < Part'
    \/ UNCHANGED Part /\ server < server'
    \/ UNCHANGED <<Part, server>> /\ Stage < Stage'

Advances ==
    \/ <<config, boundVars>>' # <<config, boundVars>>
    \/ UNCHANGED <<pending, queued, callVars>>
    \/ pending /\ ~pending'
    \/ UNCHANGED pending /\ queued /\ ~queued'
    \/ UNCHANGED <<pending, queued>> /\ CallAdvances

\* The operator does not keep itself busy.  Every step it takes by itself empties a
\* secret with a request, or takes the request from the queue, or brings the call
\* closer to its end: a call never fails for what the operator itself did, and queues
\* another one only when it empties a secret.
Progress == [][Advances]_vars

\* Once users stop and nothing fails any more, the rollout ends with every wanted
\* server ready on the current configuration.
Completes ==
    <>[](/\ pc = "idle"
         /\ \A i \in 1..replicas : Ready(i) /\ pod[i].config = config)

=============================================================================
