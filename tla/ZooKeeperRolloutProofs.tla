------------------------ MODULE ZooKeeperRolloutProofs ------------------------
(***************************************************************************)
(* Proofs about ZooKeeperRollout, for every number of servers and every    *)
(* bound: type correctness; that the Deployments are current when the work *)
(* queue is empty; when the Deployment controller reacts within the        *)
(* operator's sleep and no pod fails by itself, that a rolling update      *)
(* disrupts one server at a time; when no call fails and the operator does *)
(* not restart, that no Deployment in excess stays active; and that the    *)
(* operator does not keep itself busy.                                     *)
(***************************************************************************)
EXTENDS ZooKeeperRollout, FiniteSetTheorems, TLAPS

DeploymentObject == [replicas : {0, 1}, config : Nat, secret : Nat]
PodObject == [state : {"none", "pending", "running", "ready"}, config : Nat, secret : Nat]

\* What the loops rely on: a call starts at the first server, its number of replicas
\* is one users may ask for, it scales down no further than it has counted, and the
\* secret is emptied, if at all, before the first server.
CallInv ==
    /\ config # 0
    /\ pc = "idle" => server = 1 /\ ~rolling
    /\ pc # "idle" => target.replicas \in Server /\ target.config # 0
    /\ pc = "downscale" => server <= current /\ current <= MaxServers /\ ~rolling
    /\ pc = "vault" => VaultEnabled
    /\ pc = "vault" /\ server # 1 => ~dirty
    /\ VaultEnabled /\ pc \in {"server", "running", "ready"} => ~dirty

\* The Deployment that createOrUpdateDeployment makes for a server.
Template == [replicas |-> 1, config |-> target.config, secret |-> seen]

\* Servers the rolling call is over with.
PassedBy(i) == \/ pc \in {"vault", "server", "running", "ready"} /\ i < server
               \/ pc \in {"status", "annotate"} /\ i <= target.replicas

\* A status that was computed for the current template is right about it.
StatusTruthful ==
    \A i \in Server : observed[i] /\ published[i] /\ deployment[i].replicas = 1
                      => Ready(i) /\ Matches(i)

RollingInv ==
    /\ StatusTruthful
    /\ pc \in {"running", "ready"} => deployment[server] = Template
    /\ rolling => \A i \in Server : PassedBy(i) => deployment[i] = Template /\ Settled(i)
    /\ rolling => \A i \in Server \ (unsettled \cup {server}) : Settled(i)

-----------------------------------------------------------------------------
(* Facts about Deployments.                                                *)

\* There are no more active Deployments than servers.
LEMMA ActiveCount == Cardinality(Active) \in 0..MaxServers
<1>1. IsFiniteSet(Server) /\ Cardinality(Server) = MaxServers
  BY FS_Interval, ServersAssumption DEF Server
<1>2. Active \subseteq Server
  BY DEF Active
<1>3. IsFiniteSet(Active) /\ Cardinality(Active) <= Cardinality(Server)
  BY <1>1, <1>2, FS_Subset, Zenon
<1>4. Cardinality(Active) \in Nat
  BY <1>3, FS_CardinalityType, Zenon
<1> QED
  BY <1>1, <1>3, <1>4, ServersAssumption

LEMMA ServerFacts ==
    /\ 1 \in Server
    /\ \A i \in Server : i \in Nat /\ i >= 1 /\ i <= MaxServers
    /\ \A n \in Nat : n >= 1 /\ n <= MaxServers => n \in Server
    /\ ReplicaChoices \subseteq Server
BY ServersAssumption DEF Server

LEMMA FirstServerFacts ==
    \/ VaultEnabled /\ FirstServer = "vault"
    \/ ~VaultEnabled /\ FirstServer = "server"
<1>1. CASE VaultEnabled
  BY <1>1 DEF FirstServer
<1>2. CASE ~VaultEnabled
  BY <1>2 DEF FirstServer
<1> QED
  BY <1>1, <1>2

\* Changes of one field of a Deployment or of a pod.
LEMMA FieldFacts ==
    /\ \A o \in DeploymentObject :
          /\ [o EXCEPT !.replicas = 0] \in DeploymentObject
          /\ [o EXCEPT !.replicas = 0].replicas = 0
          /\ \A n \in Nat : /\ [o EXCEPT !.secret = n] \in DeploymentObject
                            /\ o.secret = n => [o EXCEPT !.secret = n] = o
    /\ \A p \in PodObject : \A st \in {"running", "ready"} :
          /\ [p EXCEPT !.state = st] \in PodObject
BY DEF DeploymentObject, PodObject

\* An update of a Deployment leaves its status true, if it was.
LEMMA UpdateFacts ==
    ASSUME TypeOK, NEW i \in Server, NEW new \in DeploymentObject, Update(i, new)
    PROVE  /\ deployment' \in [Server -> DeploymentObject]
           /\ observed' \in [Server -> BOOLEAN]
           /\ deployment'[i] = new
           /\ \A j \in Server \ {i} : /\ deployment'[j] = deployment[j]
                                      /\ observed'[j] = observed[j]
           /\ observed'[i] => observed[i] /\ new = deployment[i]
           /\ UNCHANGED <<pod, published>>
<1>1. /\ deployment \in [Server -> DeploymentObject]
      /\ observed \in [Server -> BOOLEAN]
  BY DEF TypeOK, DeploymentObject
<1>2. /\ deployment' = [deployment EXCEPT ![i] = new]
      /\ observed' = [observed EXCEPT ![i] = observed[i] /\ new = deployment[i]]
      /\ UNCHANGED <<pod, published>>
  BY DEF Update
<1> QED
  BY <1>1, <1>2, Zenon

LEMMA UpdateTruthful ==
    ASSUME TypeOK, StatusTruthful, NEW i \in Server, NEW new \in DeploymentObject,
           Update(i, new)
    PROVE  StatusTruthful'
BY UpdateFacts DEF StatusTruthful, Ready, Matches

-----------------------------------------------------------------------------
(* Type correctness.                                                       *)

Shape == TypeOK /\ CallInv

CallType == /\ pc \in Step /\ server \in Server /\ current \in Nat /\ rolling \in BOOLEAN
            /\ target \in [replicas : Nat, config : Nat] /\ seen \in Nat
            /\ dirty \in BOOLEAN /\ unsettled \in SUBSET Server
            /\ pc \notin {"idle", "downscale"} => server <= target.replicas
KubeType == /\ deployment \in [Server -> DeploymentObject]
            /\ pod \in [Server -> PodObject]
            /\ published \in [Server -> BOOLEAN]
            /\ observed \in [Server -> BOOLEAN]
RestType == /\ replicas \in Server /\ config \in Nat /\ secret \in Nat /\ pending \in BOOLEAN
            /\ queued \in BOOLEAN /\ recordedHash \in Nat /\ recordedVersion \in Nat
            /\ secretEdits \in Nat /\ failures \in Nat /\ podFailures \in Nat
            /\ restarts \in Nat

LEMMA TypeSplit == TypeOK <=> CallType /\ KubeType /\ RestType
BY DEF TypeOK, CallType, KubeType, RestType, DeploymentObject, PodObject

LEMMA TypeSplitNext == TypeOK' <=> CallType' /\ KubeType' /\ RestType'
BY DEF TypeOK, CallType, KubeType, RestType, DeploymentObject, PodObject

\* A call that is over leaves nothing behind.
LEMMA ReturnShape ==
    ASSUME Return
    PROVE  CallType' /\ (config' # 0 => CallInv')
BY ServerFacts, Zenon DEF Return, CallType, CallInv, Step

LEMMA BeginShape ==
    ASSUME Shape, Begin
    PROVE  Shape'
<1>1. CallType /\ KubeType /\ RestType /\ CallInv
  BY TypeSplit DEF Shape
<1>2. KubeType' /\ RestType'
  BY <1>1, Zenon DEF Begin, KubeType, RestType, crVars, kubeVars, memoryVars, boundVars
<1>3. /\ target' \in [replicas : Nat, config : Nat]
      /\ target'.replicas = replicas /\ target'.config = config
      /\ seen' \in Nat /\ dirty' \in BOOLEAN /\ unsettled' \in SUBSET Server
      /\ pc = "idle" /\ server = 1 /\ config' # 0 /\ config # 0
  <2>1. /\ target' = [replicas |-> replicas, config |-> config]
        /\ UNCHANGED config
    BY DEF Begin, crVars
  <2>2. replicas \in Nat /\ config \in Nat
    BY <1>1, ServerFacts DEF RestType
  <2>3. seen' = secret /\ dirty' = pending /\ unsettled' \in SUBSET Server /\ pc = "idle"
    BY DEF Begin
  <2> QED
    BY <1>1, <2>1, <2>2, <2>3 DEF RestType, CallInv
<1>4. replicas \in Server /\ replicas \in Nat /\ replicas >= 1 /\ replicas <= MaxServers
  BY <1>1, ServerFacts DEF RestType
<1>5. CASE GateOpen /\ Cardinality(Active) > replicas
  <2>1. /\ pc' = "downscale" /\ server' = replicas + 1 /\ current' = Cardinality(Active)
        /\ rolling' \in BOOLEAN /\ (rolling' => Cardinality(Active) = replicas)
    BY <1>5, Zenon DEF Begin
  <2>2. server' \in Server /\ server' <= current' /\ current' <= MaxServers /\ current' \in Nat
    BY <1>4, <1>5, <2>1, ActiveCount, ServerFacts, ServersAssumption
  <2>3. ~rolling'
    BY <1>4, <1>5, <2>1, ActiveCount
  <2>4. CallType' /\ CallInv'
    BY <1>3, <1>4, <2>1, <2>2, <2>3 DEF CallType, CallInv, Step
  <2> QED
    BY <1>2, <2>4, TypeSplitNext DEF Shape
<1>6. CASE GateOpen /\ ~(Cardinality(Active) > replicas)
  <2>1. /\ pc' = FirstServer /\ server' = 1 /\ current' = Cardinality(Active)
        /\ rolling' \in BOOLEAN
    BY <1>6 DEF Begin
  <2>2. current' \in Nat
    BY <2>1, ActiveCount
  <2>3. CallType' /\ CallInv'
    <3>1. \/ VaultEnabled /\ pc' = "vault"
          \/ ~VaultEnabled /\ pc' = "server"
      BY <2>1, FirstServerFacts, Zenon
    <3>2. CallType'
      BY <1>3, <1>4, <2>1, <2>2, <3>1, ServerFacts, Zenon DEF CallType, Step
    <3>3. CallInv'
      BY <1>3, <1>4, <2>1, <3>1, Zenon DEF CallInv
    <3> QED
      BY <3>2, <3>3
  <2> QED
    BY <1>2, <2>3, TypeSplitNext DEF Shape
<1>7. CASE ~GateOpen
  <2>1. pc' = "annotate" /\ UNCHANGED <<server, current, rolling>>
    BY <1>7 DEF Begin
  <2>2. CallType' /\ CallInv'
    BY <1>1, <1>3, <1>4, <2>1, Zenon DEF CallType, CallInv, Step
  <2> QED
    BY <1>2, <2>2, TypeSplitNext DEF Shape
<1> QED
  BY <1>5, <1>6, <1>7

LEMMA DownscaleShape ==
    ASSUME Shape, Downscale
    PROVE  Shape'
<1>1. CallType /\ KubeType /\ RestType /\ CallInv
  BY TypeSplit DEF Shape
<1>2. KubeType'
  <2>1. deployment[server] \in DeploymentObject
    BY <1>1 DEF KubeType, CallType
  <2>2. [deployment[server] EXCEPT !.replicas = 0] \in DeploymentObject
    BY <2>1, FieldFacts
  <2>3. Update(server, [deployment[server] EXCEPT !.replicas = 0]) /\ server \in Server
    BY <1>1 DEF Downscale, CallType
  <2> QED
    BY <1>1, <2>2, <2>3, UpdateFacts, Zenon DEF KubeType, Shape
<1>3. RestType'
  BY <1>1 DEF Downscale, RestType, crVars, memoryVars, boundVars
<1>4. /\ \/ server = current /\ pc' = FirstServer /\ server' = 1
         \/ server # current /\ server' = server + 1 /\ pc' = pc
      /\ UNCHANGED <<config, current, rolling, target, seen, dirty, unsettled>>
      /\ pc = "downscale"
  BY DEF Downscale, crVars
<1>5. /\ server \in Nat /\ server <= current /\ current <= MaxServers /\ current \in Nat
      /\ target.replicas \in Nat /\ target.replicas >= 1 /\ server >= 1
  BY <1>1, <1>4, ServerFacts, Zenon DEF CallType, CallInv
<1>6. CallType' /\ CallInv'
  <2>1. CASE server = current /\ pc' = FirstServer /\ server' = 1
    <3>1. \/ VaultEnabled /\ pc' = "vault"
          \/ ~VaultEnabled /\ pc' = "server"
      BY <2>1, FirstServerFacts, Zenon
    <3>2. CallType'
      BY <1>1, <1>4, <1>5, <2>1, <3>1, ServerFacts, Zenon DEF CallType, Step
    <3>3. CallInv'
      BY <1>1, <1>4, <2>1, <3>1, Zenon DEF CallInv
    <3> QED
      BY <3>2, <3>3
  <2>2. CASE server # current /\ server' = server + 1 /\ pc' = pc
    <3>1. server' \in Server /\ server' <= current
      BY <1>5, <2>2, ServerFacts, ServersAssumption
    <3> QED
      BY <1>1, <1>4, <2>2, <3>1, Zenon DEF CallType, CallInv
  <2> QED
    BY <1>4, <2>1, <2>2, Zenon
<1> QED
  BY <1>2, <1>3, <1>6, TypeSplitNext, Zenon DEF Shape

LEMMA CleanSecretShape ==
    ASSUME Shape, CleanSecret
    PROVE  Shape'
<1>1. CallType /\ KubeType /\ RestType /\ CallInv
  BY TypeSplit DEF Shape
<1>2. KubeType'
  BY <1>1 DEF CleanSecret, KubeType, kubeVars
<1>3. RestType' /\ seen' \in Nat
  <2>1. /\ secret' \in Nat /\ seen' \in Nat /\ recordedVersion' \in Nat
        /\ queued' \in BOOLEAN
    <3>1. CASE dirty
      BY <1>1, <3>1 DEF CleanSecret, RestType
    <3>2. CASE ~dirty
      BY <1>1, <3>2 DEF CleanSecret, RestType, CallType
    <3> QED
      BY <3>1, <3>2
  <2>2. pending' = pending \/ pending' = FALSE
    BY DEF CleanSecret
  <2>3. UNCHANGED <<replicas, config, recordedHash, secretEdits, failures, podFailures,
                    restarts>>
    BY DEF CleanSecret, boundVars
  <2> QED
    BY <1>1, <2>1, <2>2, <2>3, Zenon DEF RestType
<1>4. /\ UNCHANGED <<config, server, current, rolling, target, unsettled>>
      /\ pc = "vault" /\ pc' = "server" /\ dirty' = FALSE
  BY DEF CleanSecret
<1>5. CallType' /\ CallInv'
  BY <1>1, <1>3, <1>4, Zenon DEF CallType, CallInv, Step
<1> QED
  BY <1>2, <1>3, <1>5, TypeSplitNext, Zenon DEF Shape

LEMMA UpdateServerShape ==
    ASSUME Shape, UpdateServer
    PROVE  Shape'
<1>1. CallType /\ KubeType /\ RestType /\ CallInv
  BY TypeSplit DEF Shape
<1>2. Template \in DeploymentObject /\ Update(server, Template) /\ server \in Server
  BY <1>1 DEF UpdateServer, Template, DeploymentObject, CallType
<1>3. KubeType'
  BY <1>1, <1>2, UpdateFacts DEF KubeType, Shape
<1>4. RestType'
  BY <1>1, Zenon DEF UpdateServer, RestType, crVars, memoryVars, boundVars
<1>5. /\ UNCHANGED <<config, server, current, rolling, target, seen, dirty, unsettled>>
      /\ pc = "server" /\ pc' = "running"
  BY DEF UpdateServer, crVars
<1>6. CallType' /\ CallInv'
  BY <1>1, <1>5 DEF CallType, CallInv, Step
<1> QED
  BY <1>3, <1>4, <1>6, TypeSplitNext DEF Shape

\* After a server of the instance comes another one, or the end of the loop.
LEMMA NextServerShape ==
    ASSUME Shape, NextServer, pc \in {"running", "ready"},
           UNCHANGED <<config, current, rolling, target, seen, dirty, unsettled>>
    PROVE  CallType' /\ CallInv'
<1>1. CallType /\ CallInv
  BY TypeSplit, Zenon DEF Shape
<1>2. /\ server \in Nat /\ server >= 1 /\ server <= target.replicas
      /\ target.replicas \in Nat /\ target.replicas <= MaxServers
  BY <1>1, ServerFacts, Zenon DEF CallType, CallInv
<1>3. CASE server = target.replicas
  <2>1. pc' = "status" /\ server' = 1
    BY <1>3 DEF NextServer
  <2> QED
    BY <1>1, <1>2, <2>1, ServerFacts, Zenon DEF CallType, CallInv, Step
<1>4. CASE server # target.replicas
  <2>1. pc' = FirstServer /\ server' = server + 1
    BY <1>4 DEF NextServer
  <2>2. server' \in Server /\ server' <= target.replicas /\ server' # 1
    BY <1>2, <1>4, <2>1, ServerFacts, ServersAssumption
  <2>3. \/ VaultEnabled /\ pc' = "vault"
        \/ ~VaultEnabled /\ pc' = "server"
    BY <2>1, FirstServerFacts, Zenon
  <2>4. CallType'
    BY <1>1, <2>2, <2>3, Zenon DEF CallType, Step
  <2>5. CallInv'
    BY <1>1, <2>2, <2>3, Zenon DEF CallInv
  <2> QED
    BY <2>4, <2>5
<1> QED
  BY <1>3, <1>4

LEMMA AwaitShape ==
    ASSUME Shape, AwaitRunning \/ AwaitReady \/ UpdateStatus
    PROVE  Shape'
<1>1. CallType /\ KubeType /\ RestType /\ CallInv
  BY TypeSplit, Zenon DEF Shape
<1>2. KubeType' /\ RestType'
  BY <1>1, Zenon DEF AwaitRunning, AwaitReady, UpdateStatus, KubeType, RestType, crVars, kubeVars,
              memoryVars, boundVars
<1>3. UNCHANGED <<config, current, rolling, target, seen, dirty, unsettled>>
  BY Zenon DEF AwaitRunning, AwaitReady, UpdateStatus, crVars
<1>4. CallType' /\ CallInv'
  <2>1. CASE pc \in {"running", "ready"} /\ NextServer
    BY <1>3, <2>1, NextServerShape, Zenon
  <2>2. CASE \/ pc = "running" /\ pc' = "ready" /\ server' = server
             \/ pc = "status" /\ pc' = "annotate" /\ server' = server
    BY <1>1, <1>3, <2>2 DEF CallType, CallInv, Step
  <2> QED
    BY <2>1, <2>2 DEF AwaitRunning, AwaitReady, UpdateStatus
<1> QED
  BY <1>2, <1>4, TypeSplitNext DEF Shape

LEMMA AnnotateShape ==
    ASSUME Shape, Annotate
    PROVE  Shape'
<1>1. CallType /\ KubeType /\ RestType /\ CallInv
  BY TypeSplit DEF Shape
<1>2. KubeType'
  <2>1. deployment[server] \in DeploymentObject /\ seen \in Nat /\ server \in Server
    BY <1>1 DEF KubeType, CallType
  <2>2. [deployment[server] EXCEPT !.secret = seen] \in DeploymentObject
    BY <2>1, FieldFacts, Zenon
  <2>3. CASE UNCHANGED kubeVars
    BY <1>1, <2>3 DEF KubeType, kubeVars
  <2>4. CASE Update(server, [deployment[server] EXCEPT !.secret = seen])
    BY <1>1, <2>1, <2>2, <2>4, UpdateFacts DEF KubeType, Shape
  <2> QED
    BY <2>3, <2>4, Zenon DEF Annotate
<1>3. UNCHANGED <<replicas, config, secret, pending, queued, secretEdits, failures,
                  podFailures, restarts>> /\ pc = "annotate"
  BY DEF Annotate, crVars, boundVars
<1>4. /\ server \in Nat /\ server >= 1 /\ server <= target.replicas
      /\ target.replicas \in Nat /\ target.replicas <= MaxServers
  BY <1>1, <1>3, ServerFacts DEF CallType, CallInv
<1>5. CASE server = target.replicas
  <2>1. recordedVersion' = seen /\ recordedHash' = target.config /\ Return
    BY <1>5 DEF Annotate
  <2>2. RestType'
    BY <1>1, <1>3, <2>1 DEF RestType, CallType
  <2>3. CallType' /\ CallInv'
    BY <1>1, <1>3, <2>1, ReturnShape DEF CallInv
  <2> QED
    BY <1>2, <2>2, <2>3, TypeSplitNext DEF Shape
<1>6. CASE server # target.replicas
  <2>1. /\ server' = server + 1
        /\ UNCHANGED <<recordedHash, recordedVersion, pc, current, rolling, target, seen,
                       dirty, unsettled>>
    BY <1>6 DEF Annotate, memoryVars
  <2>2. RestType'
    BY <1>1, <1>3, <2>1 DEF RestType
  <2>3. server' \in Server /\ server' <= target.replicas
    BY <1>4, <1>6, <2>1, ServerFacts, ServersAssumption
  <2>4. CallType' /\ CallInv'
    BY <1>1, <1>3, <2>1, <2>3 DEF CallType, CallInv
  <2> QED
    BY <1>2, <2>2, <2>4, TypeSplitNext DEF Shape
<1> QED
  BY <1>5, <1>6, Zenon

LEMMA ErrorShape ==
    ASSUME Shape, CallConflicts \/ CallFails \/ Restart
    PROVE  Shape'
<1>1. CallType /\ KubeType /\ RestType /\ CallInv
  BY TypeSplit DEF Shape
<1>2. Return /\ queued' = TRUE
  BY Zenon DEF CallConflicts, CallFails, Restart, ReturnError
<1>3. KubeType' /\ UNCHANGED <<replicas, config, secret, pending>>
  BY <1>1, Zenon DEF CallConflicts, CallFails, Restart, KubeType, kubeVars, crVars
<1>4. /\ recordedHash' \in Nat /\ recordedVersion' \in Nat
      /\ secretEdits' \in Nat /\ failures' \in Nat /\ podFailures' \in Nat
      /\ restarts' \in Nat
  BY <1>1 DEF CallConflicts, CallFails, Restart, RestType, memoryVars, boundVars
<1>5. RestType'
  BY <1>1, <1>2, <1>3, <1>4, Zenon DEF RestType
<1>6. CallType' /\ CallInv'
  BY <1>1, <1>2, <1>3, ReturnShape, Zenon DEF CallInv
<1> QED
  BY <1>3, <1>5, <1>6, TypeSplitNext, Zenon DEF Shape

LEMMA UserShape ==
    ASSUME Shape, ChangeSecret \/ \E n \in ReplicaChoices : ChangeConfig(n)
    PROVE  Shape'
<1>1. CallType /\ KubeType /\ RestType /\ CallInv
  BY TypeSplit, Zenon DEF Shape
<1>2. /\ CallType' /\ KubeType'
      /\ UNCHANGED <<pc, server, current, rolling, target, seen, dirty, unsettled>>
  BY <1>1, Zenon DEF ChangeSecret, ChangeConfig, CallType, KubeType, callVars, kubeVars
<1>3. config' \in Nat /\ config' # 0 /\ secret' \in Nat /\ replicas' \in Server
  BY <1>1, ServerFacts DEF ChangeSecret, ChangeConfig, RestType, CallInv
<1>4. RestType'
  <2>1. /\ pending' = pending \/ pending' = VaultEnabled
        /\ queued' = TRUE
        /\ secretEdits' \in {secretEdits, secretEdits + 1}
        /\ UNCHANGED <<recordedHash, recordedVersion, failures, podFailures, restarts>>
    BY Zenon DEF ChangeSecret, ChangeConfig, memoryVars, boundVars
  <2>2. pending' \in BOOLEAN
    BY <1>1, <2>1, FlagsAssumption, Zenon DEF RestType
  <2>3. secretEdits' \in Nat
    BY <1>1, <2>1 DEF RestType
  <2> QED
    BY <1>1, <1>3, <2>1, <2>2, <2>3, Zenon DEF RestType
<1>5. CallInv'
  BY <1>1, <1>2, <1>3, Zenon DEF CallInv
<1> QED
  BY <1>2, <1>4, <1>5, TypeSplitNext, Zenon DEF Shape

LEMMA KubeShape ==
    ASSUME Shape, NEW i \in Server, KubeStep(i) \/ PodFails(i)
    PROVE  Shape'
<1>1. CallType /\ KubeType /\ RestType /\ CallInv
  BY TypeSplit, Zenon DEF Shape
<1>2. /\ UNCHANGED <<replicas, config, secret, pending, queued, recordedHash,
                     recordedVersion, secretEdits, failures, restarts, deployment>>
      /\ UNCHANGED <<pc, server, current, rolling, target, seen, dirty, unsettled>>
  BY Zenon DEF KubeStep, RemovePod, CreatePod, AdvancePod, SyncStatus, PodFails, crVars,
         memoryVars, boundVars, callVars
<1>3. podFailures' \in Nat
  BY <1>1 DEF KubeStep, RemovePod, CreatePod, AdvancePod, SyncStatus, PodFails, boundVars,
              RestType
<1>4. published' \in [Server -> BOOLEAN] /\ observed' \in [Server -> BOOLEAN]
  BY <1>1, Zenon DEF KubeStep, RemovePod, CreatePod, AdvancePod, SyncStatus, PodFails, KubeType
<1>5. pod' \in [Server -> PodObject]
  <2>1. CASE RemovePod(i)
    <3>1. NoPod \in PodObject
      BY DEF NoPod, PodObject
    <3> QED
      BY <1>1, <2>1, <3>1 DEF RemovePod, KubeType
  <2>2. CASE CreatePod(i)
    <3>1. [state |-> "pending", config |-> deployment[i].config,
           secret |-> deployment[i].secret] \in PodObject
      BY <1>1 DEF KubeType, DeploymentObject, PodObject
    <3> QED
      BY <1>1, <2>2, <3>1 DEF CreatePod, KubeType
  <2>3. CASE AdvancePod(i) \/ PodFails(i)
    <3>1. PICK st \in {"running", "ready"} : pod' = [pod EXCEPT ![i].state = st]
      BY <2>3 DEF AdvancePod, PodFails
    <3>2. [pod[i] EXCEPT !.state = st] \in PodObject
      BY <1>1, FieldFacts, Zenon DEF KubeType
    <3> QED
      BY <1>1, <3>1, <3>2 DEF KubeType
  <2>4. CASE SyncStatus(i)
    BY <1>1, <2>4 DEF SyncStatus, KubeType
  <2> QED
    BY <2>1, <2>2, <2>3, <2>4 DEF KubeStep
<1>6. CallType' /\ KubeType' /\ RestType'
  BY <1>1, <1>2, <1>3, <1>4, <1>5 DEF CallType, KubeType, RestType
<1>7. CallInv'
  BY <1>1, <1>2 DEF CallInv
<1> QED
  BY <1>6, <1>7, TypeSplitNext, Zenon DEF Shape

LEMMA InitShape == Init => Shape
<1> SUFFICES ASSUME Init PROVE Shape
  OBVIOUS
<1>1. /\ CallType /\ CallInv
  <2>1. /\ config = 1 /\ pc = "idle" /\ server = 1 /\ current = 0 /\ ~rolling
        /\ target = [replicas |-> 0, config |-> 0] /\ seen = 0 /\ ~dirty /\ unsettled = {}
    BY DEF Init
  <2>2. rolling \in BOOLEAN /\ dirty \in BOOLEAN
    BY Zenon DEF Init
  <2>3. CallType
    BY <2>1, <2>2, ServerFacts DEF CallType, Step
  <2>4. CallInv
    BY <2>1 DEF CallInv
  <2> QED
    BY <2>3, <2>4
<1>2. KubeType
  <2>1. deployment \in [Server -> DeploymentObject]
    BY DEF Init, NoDeployment, DeploymentObject
  <2>2. pod \in [Server -> PodObject]
    BY DEF Init, NoPod, PodObject
  <2>3. published \in [Server -> BOOLEAN] /\ observed \in [Server -> BOOLEAN]
    BY DEF Init
  <2> QED
    BY <2>1, <2>2, <2>3 DEF KubeType
<1>3. RestType
  <2>1. replicas \in Server
    <3>1. CASE Installed = 0
      BY <3>1, ServerFacts DEF Init
    <3>2. CASE Installed # 0
      BY <3>2, ServerFacts, ServersAssumption DEF Init
    <3> QED
      BY <3>1, <3>2
  <2>2. pending \in BOOLEAN /\ queued \in BOOLEAN
    BY Zenon DEF Init
  <2>3. recordedHash \in Nat /\ recordedVersion \in Nat
    BY DEF Init
  <2> QED
    BY <2>1, <2>2, <2>3 DEF Init, RestType
<1> QED
  BY <1>1, <1>2, <1>3, TypeSplit DEF Shape

LEMMA StepShape ==
    ASSUME Shape, [Next]_vars
    PROVE  Shape'
<1>1. CASE OperatorStep
  BY <1>1, BeginShape, DownscaleShape, CleanSecretShape, UpdateServerShape, AwaitShape,
     AnnotateShape, ErrorShape, Zenon DEF OperatorStep
<1>2. CASE CallFails \/ Restart
  BY <1>2, ErrorShape, Zenon
<1>3. CASE ChangeSecret \/ \E n \in ReplicaChoices : ChangeConfig(n)
  BY <1>3, UserShape, Zenon
<1>4. CASE \E i \in Server : KubeStep(i) \/ PodFails(i)
  BY <1>4, KubeShape, Zenon
<1>5. CASE UNCHANGED vars
  BY <1>5 DEF vars, crVars, kubeVars, memoryVars, callVars, boundVars, Shape, TypeOK, CallInv
<1> QED
  BY <1>1, <1>2, <1>3, <1>4, <1>5, Zenon DEF Next

\* The loops over the servers stay inside the ensemble: no Deployment beyond the
\* wanted number of replicas is created, none beyond the counted ones is scaled down.
THEOREM TypeCorrect == Spec => []TypeOK
<1>1. Shape => TypeOK
  BY Zenon DEF Shape
<1> QED
  BY <1>1, InitShape, StepShape, PTL DEF Spec

-----------------------------------------------------------------------------
(* One server at a time.                                                   *)

\* A server whose Deployment and pod stay as they are stays settled.
LEMMA SettledKept ==
    ASSUME NEW i \in Server, Settled(i), deployment'[i] = deployment[i], pod'[i] = pod[i]
    PROVE  Settled(i)'
BY Zenon DEF Settled, Active, Exists, Ready, Matches

\* A step that leaves the cluster alone leaves every server settled that was.
LEMMA ClusterKept ==
    ASSUME UNCHANGED kubeVars
    PROVE  /\ \A i \in Server : Settled(i)' <=> Settled(i)
           /\ StatusTruthful => StatusTruthful'
<1>1. UNCHANGED <<deployment, pod, published, observed>>
  BY Zenon DEF kubeVars
<1> QED
  BY <1>1 DEF Settled, Active, Exists, Ready, Matches, StatusTruthful

\* A call that is over is not a rolling one.
LEMMA ReturnRolling ==
    ASSUME Return, StatusTruthful'
    PROVE  RollingInv'
BY Zenon DEF Return, RollingInv

LEMMA BeginRolling ==
    ASSUME Shape, Shape', RollingInv, Begin
    PROVE  RollingInv'
<1>1. UNCHANGED kubeVars
  BY DEF Begin
<1>2. StatusTruthful'
  BY <1>1, ClusterKept, Zenon DEF RollingInv
<1>3. pc' \notin {"running", "ready"}
  BY FirstServerFacts, Zenon DEF Begin
<1>4. unsettled' = {i \in Server : ~Settled(i)}
  BY DEF Begin
<1>5. rolling' => pc' \in {"vault", "server"} /\ server' = 1
  <2>1. pc = "idle" /\ ~rolling
    BY Zenon DEF Begin, Shape, CallInv
  <2>2. pc' = "downscale" => ~rolling'
    BY Zenon DEF Shape, CallInv
  <2>3. CASE GateOpen
    <3>1. pc' = "downscale" \/ (pc' = FirstServer /\ server' = 1)
      BY <2>3, Zenon DEF Begin
    <3> QED
      BY <2>2, <3>1, FirstServerFacts, Zenon
  <2>4. CASE ~GateOpen
    BY <2>1, <2>4, Zenon DEF Begin
  <2> QED
    BY <2>3, <2>4, Zenon
<1>6. rolling' => \A i \in Server : ~PassedBy(i)'
  BY <1>5, ServerFacts DEF PassedBy
<1>7. \A i \in Server \ (unsettled' \cup {server'}) : Settled(i)'
  BY <1>1, <1>4, ClusterKept
<1> QED
  BY <1>2, <1>3, <1>6, <1>7, Zenon DEF RollingInv

LEMMA DownscaleRolling ==
    ASSUME Shape, Shape', RollingInv, Downscale
    PROVE  RollingInv'
<1>1. ~rolling'
  BY DEF Downscale, Shape, CallInv
<1>2. pc' \notin {"running", "ready"}
  BY FirstServerFacts DEF Downscale
<1>3. StatusTruthful'
  <2>1. /\ server \in Server
        /\ deployment \in [Server -> DeploymentObject]
    BY TypeSplit DEF Shape, CallType, KubeType
  <2>2. [deployment[server] EXCEPT !.replicas = 0] \in DeploymentObject
    BY <2>1, FieldFacts
  <2>3. Update(server, [deployment[server] EXCEPT !.replicas = 0])
    BY DEF Downscale
  <2> QED
    BY <2>1, <2>2, <2>3, UpdateTruthful DEF Shape, RollingInv
<1> QED
  BY <1>1, <1>2, <1>3 DEF RollingInv

LEMMA CleanSecretRolling ==
    ASSUME Shape, RollingInv, CleanSecret
    PROVE  RollingInv'
<1>1. /\ UNCHANGED kubeVars
      /\ UNCHANGED <<server, rolling, target, unsettled>>
      /\ pc = "vault" /\ pc' = "server"
  BY Zenon DEF CleanSecret
<1>2. /\ StatusTruthful'
      /\ \A i \in Server : Settled(i)' <=> Settled(i)
  BY <1>1, ClusterKept, Zenon DEF RollingInv
<1>3. deployment' = deployment
  BY <1>1, Zenon DEF kubeVars
<1>4. \A i \in Server : PassedBy(i)' => PassedBy(i) /\ i < server
  BY <1>1, Zenon DEF PassedBy
<1>5. server = 1 \/ seen' = seen
  BY DEF CleanSecret, Shape, CallInv
<1>6. \A i \in Server : PassedBy(i)' => PassedBy(i) /\ seen' = seen
  BY <1>4, <1>5, ServerFacts
<1>7. ASSUME rolling', NEW i \in Server, PassedBy(i)'
      PROVE  deployment'[i] = Template' /\ Settled(i)'
  <2>1. deployment[i] = Template /\ Settled(i) /\ seen' = seen
    BY <1>1, <1>6, <1>7, Zenon DEF RollingInv
  <2> QED
    BY <1>1, <1>2, <1>3, <2>1, Zenon DEF Template
<1>8. rolling' => \A i \in Server \ (unsettled' \cup {server'}) : Settled(i)'
  BY <1>1, <1>2, Zenon DEF RollingInv
<1> QED
  BY <1>1, <1>2, <1>7, <1>8 DEF RollingInv

LEMMA UpdateServerRolling ==
    ASSUME Shape, RollingInv, UpdateServer
    PROVE  RollingInv'
<1>1. /\ UNCHANGED <<server, rolling, target, seen, unsettled>>
      /\ pc = "server" /\ pc' = "running"
      /\ Update(server, Template)
  BY Zenon DEF UpdateServer, Template
<1>2. /\ server \in Server
      /\ Template \in DeploymentObject
  BY TypeSplit, Zenon DEF Shape, CallType, Template, DeploymentObject
<1>3. /\ StatusTruthful'
      /\ deployment'[server] = Template
      /\ \A j \in Server \ {server} : deployment'[j] = deployment[j] /\ pod'[j] = pod[j]
  BY <1>1, <1>2, UpdateFacts, UpdateTruthful, Zenon DEF Shape, RollingInv
<1>4. Template' = Template
  BY <1>1, Zenon DEF Template
<1>5. ASSUME rolling', NEW i \in Server, PassedBy(i)'
      PROVE  deployment'[i] = Template' /\ Settled(i)'
  <2>1. PassedBy(i) /\ i # server
    BY <1>1, <1>2, <1>5, ServerFacts DEF PassedBy
  <2>2. deployment[i] = Template /\ Settled(i)
    BY <1>1, <1>5, <2>1, Zenon DEF RollingInv
  <2> QED
    BY <1>3, <1>4, <2>1, <2>2, SettledKept, Zenon
<1>6. ASSUME rolling', NEW i \in Server \ (unsettled' \cup {server'})
      PROVE  Settled(i)'
  <2>1. Settled(i) /\ i # server
    BY <1>1, <1>6, Zenon DEF RollingInv
  <2> QED
    BY <1>3, <2>1, SettledKept, Zenon
<1> QED
  BY <1>1, <1>3, <1>4, <1>5, <1>6, Zenon DEF RollingInv

\* Steps that leave the cluster, the template and the wanted server alone.
LEMMA StayRolling ==
    ASSUME RollingInv, UNCHANGED kubeVars,
           UNCHANGED <<server, rolling, target, seen, unsettled>>,
           pc' \in {"running", "ready"} => pc \in {"running", "ready"},
           \A i \in Server : PassedBy(i)' => PassedBy(i)
    PROVE  RollingInv'
<1>1. /\ StatusTruthful'
      /\ \A i \in Server : Settled(i)' <=> Settled(i)
  BY ClusterKept, Zenon DEF RollingInv
<1>2. Template' = Template /\ deployment' = deployment
  BY Zenon DEF Template, kubeVars
<1> QED
  BY <1>1, <1>2, Zenon DEF RollingInv

\* A server that isDeploymentReady finds ready after the sleep serves the new template.
LEMMA ReadyMeansSettled ==
    ASSUME Shape, RollingInv, SleepCoversSync, AwaitReady
    PROVE  deployment[server] = Template /\ Settled(server)
<1>1. /\ server \in Server
      /\ pc = "ready" /\ target.config # 0
      /\ observed[server] /\ isDeploymentReady(server)
  BY TypeSplit, Zenon DEF Shape, CallType, CallInv, AwaitReady
<1>2. deployment[server] = Template
  BY <1>1, Zenon DEF RollingInv
<1>3. deployment[server].replicas = 1 /\ deployment[server].config # 0
  BY <1>1, <1>2 DEF Template
<1>4. published[server]
  BY <1>1, <1>3 DEF isDeploymentReady
<1>5. Ready(server) /\ Matches(server)
  BY <1>1, <1>3, <1>4, Zenon DEF RollingInv, StatusTruthful
<1> QED
  BY <1>1, <1>2, <1>3, <1>5 DEF Settled, Active, Exists

LEMMA AwaitRolling ==
    ASSUME Shape, RollingInv, SleepCoversSync, AwaitRunning \/ AwaitReady \/ UpdateStatus
    PROVE  RollingInv'
<1>0. server \in Server /\ server <= target.replicas /\ target.replicas \in Nat
  BY TypeSplit, Zenon DEF Shape, CallType, AwaitRunning, AwaitReady, UpdateStatus
<1>1. /\ UNCHANGED kubeVars
      /\ UNCHANGED <<rolling, target, seen, unsettled>>
  BY Zenon DEF AwaitRunning, AwaitReady, UpdateStatus
<1>2. /\ StatusTruthful'
      /\ \A i \in Server : Settled(i)' <=> Settled(i)
      /\ Template' = Template /\ deployment' = deployment
  BY <1>1, ClusterKept, Zenon DEF RollingInv, Template, kubeVars
<1>3. CASE AwaitRunning /\ rolling
  <2>1. pc = "running" /\ pc' = "ready" /\ server' = server
    BY <1>3, Zenon DEF AwaitRunning
  <2>2. \A i \in Server : PassedBy(i)' => PassedBy(i)
    BY <2>1, Zenon DEF PassedBy
  <2> QED
    BY <1>1, <2>1, <2>2, StayRolling, Zenon
<1>4. CASE AwaitRunning /\ ~rolling
  <2>1. pc' \notin {"running", "ready"}
    BY <1>4, FirstServerFacts, Zenon DEF AwaitRunning, NextServer
  <2> QED
    BY <1>1, <1>2, <1>4, <2>1, Zenon DEF RollingInv
<1>5. CASE UpdateStatus
  <2>1. pc = "status" /\ pc' = "annotate" /\ server' = server
    BY <1>5, Zenon DEF UpdateStatus
  <2>2. \A i \in Server : PassedBy(i)' => PassedBy(i)
    BY <1>1, <2>1, Zenon DEF PassedBy
  <2> QED
    BY <1>1, <2>1, <2>2, StayRolling, Zenon
<1>6. CASE AwaitReady
  <2>1. deployment[server] = Template /\ Settled(server)
    BY <1>6, ReadyMeansSettled, Zenon
  <2>2. pc = "ready" /\ server \in Server /\ server <= target.replicas
    BY <1>0, <1>6, Zenon DEF AwaitReady
  <2>3. \/ server = target.replicas /\ pc' = "status"
        \/ pc' \in {"vault", "server"} /\ server' = server + 1
    BY <1>6, FirstServerFacts, Zenon DEF AwaitReady, NextServer
  <2>4. \A i \in Server : PassedBy(i)' => i <= server
    BY <1>0, <1>1, <2>2, <2>3, ServerFacts DEF PassedBy
  <2>5. \A i \in Server : PassedBy(i)' => i = server \/ PassedBy(i)
    BY <2>2, <2>4, ServerFacts DEF PassedBy
  <2>6. rolling => \A i \in Server : PassedBy(i)' => deployment[i] = Template /\ Settled(i)
    BY <2>1, <2>5, Zenon DEF RollingInv
  <2>7. rolling => \A i \in Server \ unsettled : Settled(i)
    BY <2>1, Zenon DEF RollingInv
  <2>8. pc' \notin {"running", "ready"}
    BY <2>3, Zenon
  <2> QED
    BY <1>1, <1>2, <2>6, <2>7, <2>8, Zenon DEF RollingInv
<1> QED
  BY <1>3, <1>4, <1>5, <1>6, Zenon

\* In a rolling call every server has its template already: Annotate changes nothing.
LEMMA AnnotateRolling ==
    ASSUME Shape, RollingInv, Annotate
    PROVE  RollingInv'
<1>1. /\ server \in Server /\ server <= target.replicas /\ seen \in Nat
      /\ deployment \in [Server -> DeploymentObject] /\ pc = "annotate"
  BY TypeSplit DEF Shape, CallType, KubeType, Annotate
<1> DEFINE new == [deployment[server] EXCEPT !.secret = seen]
<1>2. new \in DeploymentObject
  BY <1>1, FieldFacts, Zenon
<1>3. Update(server, new) \/ UNCHANGED kubeVars
  BY DEF Annotate
<1>4. StatusTruthful'
  <2>1. CASE Update(server, new)
    BY <1>1, <1>2, <2>1, UpdateTruthful DEF Shape, RollingInv
  <2>2. CASE UNCHANGED kubeVars
    BY <2>2, ClusterKept DEF RollingInv
  <2> QED
    BY <1>3, <2>1, <2>2
<1>5. CASE server = target.replicas
  BY <1>4, <1>5, ReturnRolling DEF Annotate
<1>6. CASE server # target.replicas
  <2>1. server' = server + 1 /\ UNCHANGED <<pc, rolling, target, seen, unsettled>>
    BY <1>6 DEF Annotate
  <2>2. CASE ~rolling
    BY <1>1, <1>4, <2>1, <2>2 DEF RollingInv
  <2>3. CASE rolling
    <3>1. deployment[server] = Template /\ Settled(server)
      BY <1>1, <2>3 DEF RollingInv, PassedBy
    <3>2. new = deployment[server]
      BY <1>1, <3>1, FieldFacts DEF Template
    <3>3. \A i \in Server : deployment'[i] = deployment[i] /\ pod'[i] = pod[i]
      <4>1. CASE Update(server, new)
        BY <1>1, <1>2, <3>2, <4>1, UpdateFacts, Zenon DEF Shape
      <4>2. CASE UNCHANGED kubeVars
        BY <4>2, Zenon DEF kubeVars
      <4> QED
        BY <1>3, <4>1, <4>2, Zenon
    <3>4. Template' = Template
      BY <2>1, Zenon DEF Template
    <3>5. ASSUME NEW i \in Server, PassedBy(i)'
          PROVE  deployment'[i] = Template' /\ Settled(i)'
      <4>1. PassedBy(i)
        BY <1>1, <2>1, <3>5, Zenon DEF PassedBy
      <4>2. deployment[i] = Template /\ Settled(i)
        BY <2>3, <4>1, Zenon DEF RollingInv
      <4> QED
        BY <3>3, <3>4, <4>2, SettledKept, Zenon
    <3>6. ASSUME NEW i \in Server \ (unsettled' \cup {server'})
          PROVE  Settled(i)'
      <4>1. Settled(i)
        BY <2>1, <2>3, <3>1, Zenon DEF RollingInv
      <4> QED
        BY <3>3, <4>1, SettledKept, Zenon
    <3> QED
      BY <1>1, <1>4, <2>1, <3>5, <3>6 DEF RollingInv
  <2> QED
    BY <2>2, <2>3
<1> QED
  BY <1>5, <1>6, Zenon

\* Kubernetes replaces no pod that serves the template of its wanted Deployment.
LEMMA KubeRolling ==
    ASSUME Shape, RollingInv, NEW k \in Server, KubeStep(k)
    PROVE  RollingInv'
<1>1. /\ deployment' = deployment
      /\ UNCHANGED <<pc, server, rolling, target, seen, unsettled>>
      /\ pod \in [Server -> PodObject]
      /\ published \in [Server -> BOOLEAN] /\ observed \in [Server -> BOOLEAN]
      /\ deployment \in [Server -> DeploymentObject]
  BY TypeSplit, Zenon DEF Shape, KubeType, KubeStep, RemovePod, CreatePod, AdvancePod, SyncStatus,
     callVars
<1>2. \A i \in Server : Ready(i) /\ Matches(i) /\ deployment[i].replicas # 0
                        => pod'[i] = pod[i]
  <2>1. \A i \in Server \ {k} : pod'[i] = pod[i]
    BY <1>1, Zenon DEF KubeStep, RemovePod, CreatePod, AdvancePod, SyncStatus
  <2>2. Ready(k) /\ Matches(k) /\ deployment[k].replicas # 0 => pod'[k] = pod[k]
    BY DEF KubeStep, RemovePod, CreatePod, AdvancePod, SyncStatus, Ready
  <2> QED
    BY <2>1, <2>2, Zenon
<1>3. \A i \in Server : Settled(i) => Settled(i)'
  <2>1. SUFFICES ASSUME NEW i \in Server, Settled(i) PROVE Settled(i)'
    BY Zenon
  <2>2. Ready(i) /\ Matches(i) /\ deployment[i].replicas > 0
    BY <2>1, Zenon DEF Settled, Active
  <2>3. deployment[i].replicas # 0
    BY <1>1, <2>2 DEF DeploymentObject
  <2> QED
    BY <1>1, <1>2, <2>1, <2>2, <2>3, SettledKept, Zenon
<1>4. StatusTruthful'
  <2>1. SUFFICES ASSUME NEW i \in Server, observed'[i], published'[i],
                        deployment[i].replicas = 1
                 PROVE  Ready(i)' /\ Matches(i)'
    BY <1>1, Zenon DEF StatusTruthful
  <2>2. CASE observed[i] /\ published[i]
    <3>1. Ready(i) /\ Matches(i)
      BY <2>1, <2>2, Zenon DEF RollingInv, StatusTruthful
    <3> QED
      BY <1>1, <1>2, <2>1, <3>1 DEF Ready, Matches
  <2>3. CASE ~(observed[i] /\ published[i])
    <3>1. SyncStatus(k) /\ i = k
      BY <1>1, <2>1, <2>3, Zenon DEF KubeStep, RemovePod, CreatePod, AdvancePod, SyncStatus
    <3>2. Ready(i) /\ Matches(i) /\ pod' = pod
      BY <1>1, <2>1, <3>1, Zenon DEF SyncStatus
    <3> QED
      BY <1>1, <3>2, Zenon DEF Ready, Matches
  <2> QED
    BY <2>2, <2>3, Zenon
<1>5. \A i \in Server : PassedBy(i)' <=> PassedBy(i)
  BY <1>1 DEF PassedBy
<1> QED
  BY <1>1, <1>3, <1>4, <1>5, Zenon DEF RollingInv, Template

LEMMA InitRolling == Init => RollingInv
<1> SUFFICES ASSUME Init PROVE RollingInv
  OBVIOUS
<1>1. pc = "idle" /\ ~rolling
  BY DEF Init
<1>2. StatusTruthful
  <2>1. SUFFICES ASSUME NEW i \in Server, published[i]
                 PROVE  Ready(i) /\ Matches(i)
    BY DEF StatusTruthful
  <2>2. i <= Installed
    BY <2>1, Zenon DEF Init
  <2>3. /\ deployment[i] = [replicas |-> 1, config |-> 1, secret |-> 1]
        /\ pod[i] = [state |-> "ready", config |-> 1, secret |-> 1]
    BY <2>2 DEF Init
  <2> QED
    BY <2>3 DEF Ready, Matches
<1> QED
  BY <1>1, <1>2 DEF RollingInv

LEMMA StepRolling ==
    ASSUME SleepCoversSync, MaxPodFailures = 0, Shape, Shape', RollingInv, [Next]_vars
    PROVE  RollingInv'
<1>1. CASE Begin \/ Downscale \/ CleanSecret \/ UpdateServer
  BY <1>1, BeginRolling, DownscaleRolling, CleanSecretRolling, UpdateServerRolling
<1>2. CASE AwaitRunning \/ AwaitReady \/ UpdateStatus
  BY <1>2, AwaitRolling
<1>3. CASE Annotate
  BY <1>3, AnnotateRolling
<1>4. CASE CallConflicts \/ CallFails \/ Restart
  <2>1. Return /\ UNCHANGED kubeVars
    BY <1>4 DEF CallConflicts, CallFails, Restart, ReturnError
  <2>2. StatusTruthful'
    BY <2>1, ClusterKept DEF RollingInv
  <2> QED
    BY <2>1, <2>2, ReturnRolling
<1>5. CASE UNCHANGED <<kubeVars, callVars>>
  <2>1. /\ UNCHANGED kubeVars
        /\ UNCHANGED <<pc, server, rolling, target, seen, unsettled>>
    BY <1>5, Zenon DEF callVars
  <2>2. \A i \in Server : PassedBy(i)' => PassedBy(i)
    BY <2>1, Zenon DEF PassedBy
  <2> QED
    BY <2>1, <2>2, StayRolling, Zenon
<1>6. CASE ChangeSecret \/ \E n \in ReplicaChoices : ChangeConfig(n)
  BY <1>5, <1>6, Zenon DEF ChangeSecret, ChangeConfig
<1>7. CASE \E i \in Server : KubeStep(i)
  BY <1>7, KubeRolling, Zenon
<1>8. ASSUME NEW i \in Server, PodFails(i) PROVE FALSE
  BY <1>8, TypeSplit DEF PodFails, Shape, RestType
<1>9. CASE UNCHANGED vars
  BY <1>5, <1>9 DEF vars
<1> QED
  BY <1>1, <1>2, <1>3, <1>4, <1>6, <1>7, <1>8, <1>9 DEF Next, OperatorStep

LEMMA RollingMeans ==
    ASSUME Shape, RollingInv
    PROVE  OnlyCurrentDisrupted /\ PassedAreReady
<1>1. OnlyCurrentDisrupted
  <2>1. 1..replicas \subseteq Server
    <3>1. replicas \in Nat /\ replicas <= MaxServers
      BY TypeSplit, ServerFacts, Zenon DEF Shape, RestType
    <3> QED
      BY <3>1, ServersAssumption DEF Server
  <2> QED
    BY <2>1, Zenon DEF OnlyCurrentDisrupted, NotReady, RollingInv, Settled
<1>2. PassedAreReady
  <2>1. SUFFICES ASSUME rolling, pc \in {"vault", "server", "running", "ready", "status"},
                        NEW i \in Server,
                        i < server \/ (pc = "status" /\ i <= target.replicas)
                 PROVE  Ready(i) /\ pod[i].config = target.config
    BY Zenon DEF PassedAreReady
  <2>2. PassedBy(i)
    <3>1. /\ server <= target.replicas /\ server \in Nat /\ i \in Nat
          /\ target.replicas \in Nat
      BY <2>1, TypeSplit, ServerFacts, Zenon DEF Shape, CallType
    <3> QED
      BY <2>1, <3>1 DEF PassedBy
  <2>3. deployment[i] = Template /\ Settled(i)
    BY <2>1, <2>2 DEF RollingInv
  <2> QED
    BY <2>3 DEF Settled, Matches, Template
<1> QED
  BY <1>1, <1>2, Zenon

\* When the Deployment controller reacts within waitingInterval and no container fails
\* by itself, the rolling mode of ReconcileZooKeeper.Reconcile takes down one server
\* at a time, whatever calls fail, however often the operator restarts and whatever
\* users change on the way.
THEOREM OneServerAtATime ==
    ASSUME SleepCoversSync, MaxPodFailures = 0
    PROVE  Spec => []OnlyCurrentDisrupted
<1>1. Init => Shape /\ RollingInv
  BY InitShape, InitRolling, Zenon
<1>2. Shape /\ RollingInv /\ [Next]_vars => (Shape /\ RollingInv)'
  BY StepShape, StepRolling, Zenon
<1>3. Shape /\ RollingInv => OnlyCurrentDisrupted
  BY RollingMeans, Zenon
<1> QED
  BY <1>1, <1>2, <1>3, PTL DEF Spec

\* Under the same assumptions the rolling loop leaves a server only once it serves the
\* new configuration, and none it has left stops serving it before the loop is over.
THEOREM PassedServersServe ==
    ASSUME SleepCoversSync, MaxPodFailures = 0
    PROVE  Spec => []PassedAreReady
<1>1. Init => Shape /\ RollingInv
  BY InitShape, InitRolling
<1>2. Shape /\ RollingInv /\ [Next]_vars => (Shape /\ RollingInv)'
  BY StepShape, StepRolling
<1>3. Shape /\ RollingInv => PassedAreReady
  BY RollingMeans, Zenon
<1> QED
  BY <1>1, <1>2, <1>3, PTL DEF Spec

-----------------------------------------------------------------------------
(* What a call leaves at rest.                                             *)

Deployed(i, c) == deployment[i].replicas = 1 /\ deployment[i].config = c

\* Servers whose Deployment the call has made, or has found made when the gate is closed.
Handled(i) == \/ pc \in {"vault", "server"} /\ i < server
              \/ pc \in {"running", "ready"} /\ i <= server
              \/ pc \in {"status", "annotate"}

\* The recorded hash vouches for the Deployments of every wanted server.
HashVouches ==
    /\ recordedHash <= config
    /\ recordedHash = config => \A i \in 1..replicas : Deployed(i, config)

\* A call whose instance or secret is out of date has a request queued behind it.
CallCurrent ==
    pc # "idle" => /\ target.config <= config
                   /\ recordedHash <= target.config
                   /\ target.config = config => target.replicas = replicas
                   /\ ~queued => target.config = config /\ seen = secret
                   /\ pc = "status" => server = 1

\* What the call has handled so far has the template of its instance.
CallDeployed ==
    pc # "idle" =>
       \A i \in 1..target.replicas :
          /\ pc = "downscale" => i < server
          /\ Handled(i) => Deployed(i, target.config)
          /\ pc = "annotate" /\ i < server => deployment[i].secret = seen

RestInv == HashVouches /\ CallCurrent /\ CallDeployed /\ RestIsCurrent

LEMMA RangeFacts ==
    ASSUME Shape
    PROVE  /\ 1..replicas \subseteq Server
           /\ pc # "idle" => 1..target.replicas \subseteq Server
           /\ config \in Nat /\ recordedHash \in Nat /\ config # 0
           /\ target.config \in Nat /\ target.replicas \in Nat /\ seen \in Nat
           /\ server \in Server /\ server \in Nat
           /\ deployment \in [Server -> DeploymentObject]
<1>1. /\ replicas \in Server /\ server \in Server
      /\ pc # "idle" => target.replicas \in Server
      /\ config \in Nat /\ recordedHash \in Nat /\ config # 0
      /\ target.config \in Nat /\ target.replicas \in Nat /\ seen \in Nat
      /\ deployment \in [Server -> DeploymentObject]
  BY TypeSplit, Zenon DEF Shape, CallInv, CallType, RestType, KubeType
<1>2. \A n \in Server : 1..n \subseteq Server
  BY ServersAssumption DEF Server
<1> QED
  BY <1>1, <1>2, ServerFacts, Zenon

\* A call that ends with an error leaves the cluster alone and is queued again.
LEMMA ErrorRest ==
    ASSUME Shape, RestInv, CallConflicts \/ CallFails \/ Restart
    PROVE  RestInv'
<1>1. /\ UNCHANGED <<crVars, kubeVars>> /\ ReturnError
      /\ recordedHash' \in {0, recordedHash}
  BY Zenon DEF CallConflicts, CallFails, Restart, memoryVars
<1>2. UNCHANGED <<replicas, config, secret, deployment>> /\ pc' = "idle" /\ queued'
  BY <1>1, Zenon DEF crVars, kubeVars, ReturnError, Return
<1>3. HashVouches'
  BY <1>1, <1>2, RangeFacts DEF RestInv, HashVouches, Deployed
<1> QED
  BY <1>2, <1>3, Zenon DEF RestInv, CallCurrent, CallDeployed, RestIsCurrent

LEMMA BeginRest ==
    ASSUME Shape, RestInv, Begin
    PROVE  RestInv'
<1>1. /\ UNCHANGED <<replicas, config, secret, deployment, recordedHash>>
      /\ pc = "idle" /\ target'.replicas = replicas /\ target'.config = config
      /\ seen' = secret
  BY Zenon DEF Begin, crVars, kubeVars, memoryVars
<1>2. HashVouches'
  BY <1>1, Zenon DEF RestInv, HashVouches, Deployed
<1>3. pc' # "idle" /\ pc' # "status"
  BY FirstServerFacts, Zenon DEF Begin
<1>4. CallCurrent'
  BY <1>1, <1>3, RangeFacts DEF RestInv, HashVouches, CallCurrent
<1>5. CallDeployed'
  <2>1. CASE GateOpen
    <3>1. \/ pc' = "downscale" /\ server' = replicas + 1
          \/ pc' \in {"vault", "server"} /\ server' = 1
      BY <2>1, FirstServerFacts, Zenon DEF Begin
    <3> QED
      BY <1>1, <3>1, TypeSplit, ServerFacts DEF CallDeployed, Handled, Shape, RestType
  <2>2. CASE ~GateOpen
    <3>1. pc' = "annotate" /\ server' = server /\ server = 1 /\ recordedHash = config
      BY <1>1, <2>2, Zenon DEF Begin, GateOpen, Shape, CallInv
    <3>2. \A i \in 1..replicas : Deployed(i, config)
      BY <3>1, Zenon DEF RestInv, HashVouches
    <3> QED
      BY <1>1, <3>1, <3>2 DEF CallDeployed, Deployed
  <2> QED
    BY <2>1, <2>2, Zenon
<1> QED
  BY <1>2, <1>3, <1>4, <1>5, Zenon DEF RestInv, RestIsCurrent

LEMMA DownscaleRest ==
    ASSUME Shape, RestInv, Downscale
    PROVE  RestInv'
<1>1. /\ UNCHANGED <<replicas, config, secret, recordedHash, target, seen, queued>>
      /\ pc = "downscale"
      /\ \/ pc' \in {"vault", "server"} /\ server' = 1
         \/ pc' = "downscale" /\ server' = server + 1
  BY FirstServerFacts DEF Downscale, crVars, memoryVars
<1>2. \A i \in Server \ {server} : deployment'[i] = deployment[i]
  <2>1. /\ [deployment[server] EXCEPT !.replicas = 0] \in DeploymentObject
        /\ Update(server, [deployment[server] EXCEPT !.replicas = 0])
    BY RangeFacts, FieldFacts, Zenon DEF Downscale
  <2> QED
    BY <2>1, RangeFacts, UpdateFacts, Zenon DEF Shape
<1>3. \A i \in 1..target.replicas : i # server /\ i < server
  BY <1>1, RangeFacts DEF RestInv, CallDeployed
<1>4. HashVouches'
  <2>1. recordedHash = config => \A i \in 1..replicas : deployment'[i] = deployment[i]
    BY <1>1, <1>2, <1>3, RangeFacts DEF RestInv, HashVouches, CallCurrent
  <2> QED
    BY <1>1, <2>1, Zenon DEF RestInv, HashVouches, Deployed
<1>5. CallCurrent'
  BY <1>1, Zenon DEF RestInv, CallCurrent
<1>6. CallDeployed'
  BY <1>1, <1>3, RangeFacts DEF CallDeployed, Handled
<1> QED
  BY <1>1, <1>4, <1>5, <1>6, Zenon DEF RestInv, RestIsCurrent

LEMMA CleanSecretRest ==
    ASSUME Shape, RestInv, CleanSecret
    PROVE  RestInv'
<1>1. /\ UNCHANGED <<replicas, config, recordedHash, deployment, target, server>>
      /\ pc = "vault" /\ pc' = "server"
      /\ ~queued' => ~queued /\ UNCHANGED <<secret, seen>>
  BY Zenon DEF CleanSecret, kubeVars
<1>2. HashVouches'
  BY <1>1, Zenon DEF RestInv, HashVouches, Deployed
<1>3. CallCurrent'
  BY <1>1, Zenon DEF RestInv, CallCurrent
<1>4. CallDeployed'
  BY <1>1, Zenon DEF RestInv, CallDeployed, Handled, Deployed
<1> QED
  BY <1>1, <1>2, <1>3, <1>4, Zenon DEF RestInv, RestIsCurrent

LEMMA UpdateServerRest ==
    ASSUME Shape, RestInv, UpdateServer
    PROVE  RestInv'
<1>1. /\ UNCHANGED <<replicas, config, secret, recordedHash, target, seen, queued, server>>
      /\ pc = "server" /\ pc' = "running" /\ Update(server, Template)
  BY Zenon DEF UpdateServer, crVars, memoryVars, Template
<1>2. Template \in DeploymentObject
  BY RangeFacts, Zenon DEF Template, DeploymentObject
<1>3. /\ deployment'[server] = Template
      /\ \A j \in Server \ {server} : deployment'[j] = deployment[j]
  BY <1>1, <1>2, RangeFacts, UpdateFacts, Zenon DEF Shape
<1>4. deployment'[server].replicas = 1 /\ deployment'[server].config = target.config
  BY <1>3 DEF Template
<1>5. HashVouches'
  <2>1. recordedHash = config => target.config = config
    BY <1>1, RangeFacts DEF RestInv, CallCurrent
  <2> QED
    BY <1>1, <1>3, <1>4, <2>1, RangeFacts, Zenon DEF RestInv, HashVouches, Deployed
<1>6. CallCurrent'
  BY <1>1, Zenon DEF RestInv, CallCurrent
<1>7. CallDeployed'
  BY <1>1, <1>3, <1>4, RangeFacts DEF RestInv, CallDeployed, Handled, Deployed
<1> QED
  BY <1>1, <1>5, <1>6, <1>7, Zenon DEF RestInv, RestIsCurrent

LEMMA AwaitRest ==
    ASSUME Shape, RestInv, AwaitRunning \/ AwaitReady \/ UpdateStatus
    PROVE  RestInv'
<1>1. /\ UNCHANGED <<replicas, config, secret, recordedHash, target, seen, queued, deployment>>
      /\ pc \in {"running", "ready", "status"}
  BY Zenon DEF AwaitRunning, AwaitReady, UpdateStatus, crVars, memoryVars, kubeVars
<1>2. \/ pc = "running" /\ pc' = "ready" /\ server' = server
      \/ /\ pc \in {"running", "ready"} /\ pc' = "status" /\ server' = 1
         /\ server = target.replicas
      \/ pc \in {"running", "ready"} /\ pc' \in {"vault", "server"} /\ server' = server + 1
      \/ pc = "status" /\ pc' = "annotate" /\ server' = server
  BY FirstServerFacts, Zenon DEF AwaitRunning, AwaitReady, UpdateStatus, NextServer
<1>3. pc = "status" => server = 1
  BY Zenon DEF RestInv, CallCurrent
<1>4. HashVouches'
  BY <1>1, Zenon DEF RestInv, HashVouches, Deployed
<1>5. CallCurrent'
  BY <1>1, <1>2, Zenon DEF RestInv, CallCurrent
<1>6. \A i \in 1..target.replicas : Handled(i)' => Handled(i)
  BY <1>1, <1>2, RangeFacts DEF Handled
<1>7. CallDeployed'
  BY <1>1, <1>2, <1>3, <1>6, RangeFacts DEF RestInv, CallDeployed, Deployed
<1> QED
  BY <1>1, <1>2, <1>4, <1>5, <1>7, Zenon DEF RestInv, RestIsCurrent

\* The fields of an annotated Deployment.
LEMMA AnnotatedFields ==
    \A o \in DeploymentObject : \A n \in Nat :
       /\ [o EXCEPT !.secret = n] \in DeploymentObject
       /\ [o EXCEPT !.secret = n].replicas = o.replicas
       /\ [o EXCEPT !.secret = n].config = o.config
       /\ [o EXCEPT !.secret = n].secret = n
BY DEF DeploymentObject

LEMMA AnnotateRest ==
    ASSUME Shape, RestInv, Annotate
    PROVE  RestInv'
<1>1. /\ UNCHANGED <<replicas, config, secret, queued>> /\ pc = "annotate"
      /\ server <= target.replicas /\ server \in 1..target.replicas
      /\ target.config # 0
  BY TypeSplit, RangeFacts, ServerFacts DEF Annotate, crVars, Shape, CallType, CallInv
<1>2. \A i \in 1..target.replicas : Deployed(i, target.config)
  BY <1>1, Zenon DEF RestInv, CallDeployed, Handled
<1>3. Exists(server)
  BY <1>1, <1>2, Zenon DEF Exists, Deployed
<1> DEFINE new == [deployment[server] EXCEPT !.secret = seen]
<1>4. /\ new \in DeploymentObject /\ new.secret = seen
      /\ new.replicas = deployment[server].replicas
      /\ new.config = deployment[server].config
  BY RangeFacts, AnnotatedFields, Zenon
<1>5. Update(server, new)
  BY <1>3, Zenon DEF Annotate
<1>6. /\ deployment'[server] = new
      /\ \A j \in Server \ {server} : deployment'[j] = deployment[j]
  BY <1>4, <1>5, RangeFacts, UpdateFacts, Zenon DEF Shape
<1>7. \A i \in Server : /\ deployment'[i].replicas = deployment[i].replicas
                        /\ deployment'[i].config = deployment[i].config
  BY <1>4, <1>6, Zenon
<1>8. \A i \in 1..target.replicas : i <= server => deployment'[i].secret = seen
  <2>1. \A i \in 1..target.replicas : i < server => deployment[i].secret = seen
    BY <1>1, Zenon DEF RestInv, CallDeployed
  <2>2. 1..target.replicas \subseteq Server /\ server \in Nat
    BY <1>1, RangeFacts, Zenon
  <2>3. \A i \in 1..target.replicas : i <= server => i = server \/ i < server
    BY <2>2
  <2> QED
    BY <1>4, <1>6, <2>1, <2>2, <2>3, Zenon
<1>9. CASE server = target.replicas
  <2>1. recordedHash' = target.config /\ pc' = "idle"
    BY <1>9, Zenon DEF Annotate, Return
  <2>2. target.config <= config /\ (target.config = config => target.replicas = replicas)
    BY <1>1, Zenon DEF RestInv, CallCurrent
  <2>3. HashVouches'
    BY <1>1, <1>2, <1>7, <2>1, <2>2, RangeFacts, Zenon DEF HashVouches, Deployed
  <2>4. RestIsCurrent'
    <3>1. SUFFICES ASSUME ~queued, NEW i \in 1..replicas
                   PROVE  deployment'[i] = [replicas |-> 1, config |-> config,
                                            secret |-> secret]
      BY <1>1, Zenon DEF RestIsCurrent
    <3>2. target.config = config /\ seen = secret /\ target.replicas = replicas
      BY <1>1, <3>1, Zenon DEF RestInv, CallCurrent
    <3>3. /\ deployment'[i].replicas = 1 /\ deployment'[i].config = config
          /\ deployment'[i].secret = secret
      <4>1. \A n \in Nat : \A k \in 1..n : k <= n
        OBVIOUS
      <4>2. i \in 1..target.replicas /\ target.replicas \in Nat
        BY <3>1, <3>2, RangeFacts, Zenon
      <4>3. i \in Server /\ i <= server
        BY <1>1, <1>9, <4>1, <4>2, RangeFacts, Zenon
      <4> QED
        BY <1>2, <1>7, <1>8, <3>2, <4>2, <4>3, Zenon DEF Deployed
    <3>4. deployment'[i] \in DeploymentObject
      BY <1>1, <1>4, <1>6, <3>1, <3>2, RangeFacts, Zenon
    <3> QED
      BY <3>3, <3>4, Zenon DEF DeploymentObject
  <2> QED
    BY <2>1, <2>3, <2>4, Zenon DEF RestInv, CallCurrent, CallDeployed
<1>10. CASE server # target.replicas
  <2>1. UNCHANGED <<recordedHash, pc, target, seen>> /\ server' = server + 1
    BY <1>10, Zenon DEF Annotate, memoryVars
  <2>2. HashVouches'
    BY <1>1, <1>7, <2>1, RangeFacts, Zenon DEF RestInv, HashVouches, Deployed
  <2>3. CallCurrent'
    BY <1>1, <2>1, Zenon DEF RestInv, CallCurrent
  <2>4. CallDeployed'
    BY <1>1, <1>2, <1>7, <1>8, <2>1, RangeFacts DEF CallDeployed, Deployed
  <2> QED
    BY <1>1, <2>1, <2>2, <2>3, <2>4, Zenon DEF RestInv, RestIsCurrent
<1> QED
  BY <1>9, <1>10, Zenon

LEMMA UserRest ==
    ASSUME Shape, RestInv, ChangeSecret \/ \E n \in ReplicaChoices : ChangeConfig(n)
    PROVE  RestInv'
<1>1. /\ UNCHANGED <<deployment, recordedHash, pc, server, target, seen>> /\ queued'
      /\ \/ UNCHANGED <<replicas, config>>
         \/ config' = config + 1
  BY Zenon DEF ChangeSecret, ChangeConfig, kubeVars, memoryVars, callVars
<1>2. HashVouches'
  BY <1>1, RangeFacts DEF RestInv, HashVouches, Deployed
<1>3. CallCurrent'
  BY <1>1, RangeFacts DEF RestInv, CallCurrent
<1>4. CallDeployed'
  BY <1>1, Zenon DEF RestInv, CallDeployed, Handled, Deployed
<1> QED
  BY <1>1, <1>2, <1>3, <1>4, Zenon DEF RestInv, RestIsCurrent

\* Steps of Kubernetes, and no step, change nothing the invariant speaks of.
LEMMA KubeRest ==
    ASSUME RestInv,
           UNCHANGED vars \/ \E i \in Server : KubeStep(i) \/ PodFails(i)
    PROVE  RestInv'
<1>1. UNCHANGED <<replicas, config, secret, queued, deployment, recordedHash, pc, server,
                  target, seen>>
  BY DEF vars, crVars, kubeVars, memoryVars, callVars, KubeStep, RemovePod, CreatePod,
     AdvancePod, SyncStatus, PodFails
<1> QED
  BY <1>1, Zenon DEF RestInv, HashVouches, CallCurrent, CallDeployed, RestIsCurrent, Handled,
     Deployed

LEMMA InitRest == Init => RestInv
<1> SUFFICES ASSUME Init PROVE RestInv
  OBVIOUS
<1>1. pc = "idle" /\ config = 1 /\ secret = 1
  BY Zenon DEF Init
<1>2. CASE Installed = 0
  <2>1. queued /\ recordedHash = 0
    BY <1>2, Zenon DEF Init
  <2> QED
    BY <1>1, <2>1 DEF RestInv, HashVouches, CallCurrent, CallDeployed, RestIsCurrent
<1>3. CASE Installed # 0
  <2>1. replicas = Installed /\ recordedHash = 1
    BY <1>3 DEF Init
  <2>2. \A i \in 1..replicas :
           deployment[i] = [replicas |-> 1, config |-> 1, secret |-> 1]
    BY <2>1, ServersAssumption DEF Init, Server
  <2> QED
    BY <1>1, <2>1, <2>2
    DEF RestInv, HashVouches, CallCurrent, CallDeployed, RestIsCurrent, Deployed
<1> QED
  BY <1>2, <1>3, Zenon

LEMMA StepRest ==
    ASSUME Shape, RestInv, [Next]_vars
    PROVE  RestInv'
BY BeginRest, DownscaleRest, CleanSecretRest, UpdateServerRest, AwaitRest, AnnotateRest,
   ErrorRest, UserRest, KubeRest, Zenon DEF Next, OperatorStep

\* Whatever calls fail or conflict, whenever the operator restarts and whatever users
\* change while a call runs: once the work queue is empty every wanted server has a
\* Deployment of the current configuration and of the current version of the secret.
THEOREM RestCurrent == Spec => []RestIsCurrent
<1>1. Init => Shape /\ RestInv
  BY InitShape, InitRest, Zenon
<1>2. Shape /\ RestInv /\ [Next]_vars => (Shape /\ RestInv)'
  BY StepShape, StepRest, Zenon
<1>3. RestInv => RestIsCurrent
  BY DEF RestInv
<1> QED
  BY <1>1, <1>2, <1>3, PTL DEF Spec
-----------------------------------------------------------------------------
(* What is scaled down.                                                    *)

\* The active Deployments are those of the first servers, except while the operator scales
\* down, which takes them from the first excess one; after that none is in excess.
ScaleInv ==
    /\ pc # "downscale" => \A i, j \in Server : j \in Active /\ i < j => i \in Active
    /\ pc = "downscale" =>
          /\ target.replicas < server /\ server <= current
          /\ \A i \in Server :
                i \in Active <=> i <= target.replicas \/ (server <= i /\ i <= current)
    /\ pc \notin {"idle", "downscale"} => \A i \in Active : i <= target.replicas
    /\ recordedHash = config => \A i \in Active : i <= replicas
    /\ ExcessScaledDown

\* The operator counts the active Deployments and takes the count for the last of them.
LEMMA CountIsLast ==
    ASSUME \A i, j \in Server : j \in Active /\ i < j => i \in Active
    PROVE  \A i \in Server : i \in Active <=> i <= Cardinality(Active)
<1>1. /\ IsFiniteSet(Server) /\ Active \subseteq Server /\ MaxServers \in Nat
      /\ Server = 1..MaxServers
  BY FS_Interval, ServersAssumption DEF Server, Active
<1>2. IsFiniteSet(Active) /\ Cardinality(Active) \in Nat
  BY <1>1, FS_Subset, FS_CardinalityType, Zenon
<1>3. SUFFICES ASSUME NEW i \in Server
               PROVE  i \in Active <=> i <= Cardinality(Active)
  OBVIOUS
<1>4. i \in Nat /\ i >= 1
  BY ServerFacts
<1>5. ASSUME i \in Active
      PROVE  i <= Cardinality(Active)
  <2>1. 1..i \subseteq Active
    BY <1>1, <1>4, <1>5
  <2>2. Cardinality(1..i) = i
    BY <1>4, FS_Interval
  <2> QED
    BY <1>2, <2>1, <2>2, FS_Subset, Zenon
<1>6. ASSUME i \notin Active
      PROVE  ~(i <= Cardinality(Active))
  <2>1. Active \subseteq 1..(i - 1)
    BY <1>1, <1>4, <1>6
  <2>2. IsFiniteSet(1..(i - 1)) /\ Cardinality(1..(i - 1)) = i - 1
    BY <1>4, FS_Interval
  <2>3. Cardinality(Active) <= i - 1
    <3> DEFINE before == 1..(i - 1)
    <3>1. Active \in SUBSET before /\ IsFiniteSet(before) /\ Cardinality(before) = i - 1
      BY <2>1, <2>2, Zenon
    <3> HIDE DEF before
    <3>2. Cardinality(Active) <= Cardinality(before)
      BY <3>1, FS_Subset, Zenon
    <3> QED
      BY <3>1, <3>2, Zenon
  <2> QED
    BY <1>2, <1>4, <2>3
<1> QED
  BY <1>5, <1>6

LEMMA BeginScale ==
    ASSUME Shape, RestInv, ScaleInv, Begin
    PROVE  ScaleInv'
<1>1. /\ UNCHANGED <<replicas, config, deployment, recordedHash>>
      /\ pc = "idle" /\ target'.replicas = replicas
  BY Zenon DEF Begin, crVars, kubeVars, memoryVars
<1>2. Active' = Active
  BY <1>1, Zenon DEF Active, Exists
<1>3. /\ \A i, j \in Server : j \in Active /\ i < j => i \in Active
      /\ recordedHash = config => \A i \in Active : i <= replicas
      /\ pc' # "idle"
  BY <1>1, FirstServerFacts, Zenon DEF ScaleInv, Begin
<1>4. \A i \in Server : i \in Active <=> i <= Cardinality(Active)
  BY <1>3, CountIsLast, Zenon
<1>5. /\ replicas \in Nat /\ Cardinality(Active) \in Nat /\ Active \subseteq Server
      /\ \A i \in Server : i \in Nat
  BY ActiveCount, RangeFacts, ServerFacts DEF Shape, TypeOK, Active
<1>6. CASE pc' = "downscale"
  <2>1. /\ server' = replicas + 1 /\ current' = Cardinality(Active)
        /\ Cardinality(Active) > replicas
    BY <1>6, FirstServerFacts DEF Begin
  <2>2. /\ target'.replicas < server' /\ server' <= current'
        /\ \A i \in Server :
              i \in Active <=> i <= target'.replicas \/ (server' <= i /\ i <= current')
    BY <1>1, <1>4, <1>5, <2>1
  <2> QED
    BY <1>1, <1>2, <1>3, <1>6, <2>2, Zenon DEF ScaleInv, ExcessScaledDown
<1>7. CASE pc' # "downscale"
  <2>1. \A i \in Active : i <= replicas
    <3>1. CASE GateOpen
      <4>1. ~(Cardinality(Active) > replicas)
        BY <1>7, <3>1, Zenon DEF Begin
      <4> QED
        BY <1>4, <1>5, <4>1
    <3>2. CASE ~GateOpen
      BY <1>3, <3>2, Zenon DEF GateOpen
    <3> QED
      BY <3>1, <3>2
  <2> QED
    BY <1>1, <1>2, <1>3, <1>7, <2>1, Zenon DEF ScaleInv, ExcessScaledDown
<1> QED
  BY <1>6, <1>7

LEMMA DownscaleScale ==
    ASSUME Shape, ScaleInv, Downscale
    PROVE  ScaleInv'
<1>1. /\ UNCHANGED <<replicas, config, recordedHash, target, current>>
      /\ pc = "downscale"
      /\ \/ pc' \in {"vault", "server"} /\ server' = 1 /\ server = current
         \/ pc' = "downscale" /\ server' = server + 1 /\ server # current
  BY FirstServerFacts DEF Downscale, crVars, memoryVars
<1>2. Active' = Active \ {server}
  <2> DEFINE new == [deployment[server] EXCEPT !.replicas = 0]
  <2>1. new \in DeploymentObject /\ new.replicas = 0 /\ Update(server, new)
    BY RangeFacts, FieldFacts, Zenon DEF Downscale
  <2>2. /\ deployment'[server].replicas = 0
        /\ \A i \in Server \ {server} : deployment'[i] = deployment[i]
    BY <2>1, RangeFacts, UpdateFacts, Zenon DEF Shape
  <2> QED
    BY <2>2 DEF Active, Exists
<1>3. /\ target.replicas \in Nat /\ server \in Nat /\ current \in Nat
      /\ \A i \in Server : i \in Nat
      /\ Active \subseteq Server
  BY RangeFacts, ServerFacts DEF Shape, TypeOK, Active
<1>4. /\ target.replicas < server /\ server <= current
      /\ \A i \in Server :
            i \in Active <=> i <= target.replicas \/ (server <= i /\ i <= current)
      /\ recordedHash = config => \A i \in Active : i <= replicas
  BY <1>1, Zenon DEF ScaleInv
<1>5. CASE pc' = "downscale"
  <2>1. /\ target.replicas < server' /\ server' <= current
        /\ \A i \in Server :
              i \in Active' <=> i <= target.replicas \/ (server' <= i /\ i <= current)
    BY <1>1, <1>2, <1>3, <1>4, <1>5
  <2> QED
    BY <1>1, <1>2, <1>4, <1>5, <2>1, Zenon DEF ScaleInv, ExcessScaledDown
<1>6. CASE pc' # "downscale"
  <2>1. \A i \in Server : i \in Active' <=> i <= target.replicas
    BY <1>1, <1>2, <1>3, <1>4, <1>6
  <2>2. \A i, j \in Server : j \in Active' /\ i < j => i \in Active'
    BY <1>3, <2>1
  <2>3. Active' \subseteq Server /\ pc' # "idle"
    BY <1>1, <1>2, <1>3, <1>6
  <2> QED
    BY <1>1, <1>2, <1>4, <1>6, <2>1, <2>2, <2>3, Zenon DEF ScaleInv, ExcessScaledDown
<1> QED
  BY <1>5, <1>6

LEMMA UpdateServerScale ==
    ASSUME Shape, RestInv, ScaleInv, UpdateServer
    PROVE  ScaleInv'
<1>1. /\ UNCHANGED <<replicas, config, recordedHash, target, server>>
      /\ pc = "server" /\ pc' = "running" /\ Update(server, Template)
  BY Zenon DEF UpdateServer, crVars, memoryVars, Template
<1>2. Template \in DeploymentObject
  BY RangeFacts, Zenon DEF Template, DeploymentObject
<1>3. target.config # 0 /\ server <= target.replicas
  BY <1>1 DEF Shape, CallInv, TypeOK
<1>4. Active' = Active \cup {server}
  <2>1. /\ deployment'[server] = Template
        /\ \A j \in Server \ {server} : deployment'[j] = deployment[j]
    BY <1>1, <1>2, RangeFacts, UpdateFacts, Zenon DEF Shape
  <2>2. deployment'[server].replicas = 1 /\ deployment'[server].config = target.config
    BY <2>1 DEF Template
  <2>3. server \in Server /\ server \in Active'
    BY <1>3, <2>2, RangeFacts DEF Active, Exists
  <2>4. \A j \in Server \ {server} : j \in Active' <=> j \in Active
    BY <2>1, Zenon DEF Active, Exists
  <2>5. Active \subseteq Server /\ Active' \subseteq Server
    BY Zenon DEF Active
  <2> QED
    BY <2>3, <2>4, <2>5, Zenon
<1>5. \A i \in Server : i < server => i \in Active
  <2>1. SUFFICES ASSUME NEW i \in Server, i < server
                 PROVE  i \in Active
    OBVIOUS
  <2>2. i \in 1..target.replicas
    BY <1>3, <2>1, ServerFacts, RangeFacts
  <2>3. Deployed(i, target.config)
    BY <1>1, <2>1, <2>2, Zenon DEF RestInv, CallDeployed, Handled
  <2> QED
    BY <1>3, <2>3 DEF Deployed, Active, Exists
<1>6. recordedHash = config => server <= replicas
  BY <1>1, <1>3, RangeFacts DEF RestInv, CallCurrent
<1>7. \A i, j \in Server : j \in Active' /\ i < j => i \in Active'
  BY <1>1, <1>4, <1>5, Zenon DEF ScaleInv
<1> QED
  BY <1>1, <1>3, <1>4, <1>6, <1>7, Zenon DEF ScaleInv, ExcessScaledDown

LEMMA AnnotateScale ==
    ASSUME Shape, RestInv, ScaleInv, Annotate
    PROVE  ScaleInv'
<1>1. /\ UNCHANGED <<replicas, config, queued>> /\ pc = "annotate"
  BY Zenon DEF Annotate, crVars
<1>2. Active' = Active
  <2> DEFINE new == [deployment[server] EXCEPT !.secret = seen]
  <2>1. /\ new \in DeploymentObject /\ new.replicas = deployment[server].replicas
        /\ new.config = deployment[server].config
    BY RangeFacts, AnnotatedFields, Zenon
  <2>2. CASE Update(server, new)
    <3>1. /\ deployment'[server] = new
          /\ \A j \in Server \ {server} : deployment'[j] = deployment[j]
      BY <2>1, <2>2, RangeFacts, UpdateFacts, Zenon DEF Shape
    <3>2. \A i \in Server : /\ deployment'[i].replicas = deployment[i].replicas
                            /\ deployment'[i].config = deployment[i].config
      BY <2>1, <3>1, Zenon
    <3> QED
      BY <3>2 DEF Active, Exists
  <2>3. CASE UNCHANGED kubeVars
    BY <2>3, Zenon DEF kubeVars, Active, Exists
  <2> QED
    BY <2>2, <2>3, Zenon DEF Annotate
<1>3. /\ \A i, j \in Server : j \in Active /\ i < j => i \in Active
      /\ \A i \in Active : i <= target.replicas
      /\ recordedHash = config => \A i \in Active : i <= replicas
  BY <1>1 DEF ScaleInv
<1>4. CASE server = target.replicas
  <2>1. recordedHash' = target.config /\ pc' = "idle"
    BY <1>4, Zenon DEF Annotate, Return
  <2>2. /\ target.config = config => target.replicas = replicas
        /\ ~queued => target.config = config
    BY <1>1, Zenon DEF RestInv, CallCurrent
  <2>3. target.config = config => \A i \in Active : i <= replicas
    BY <1>3, <2>2, Zenon
  <2>4. ExcessScaledDown'
    <3>1. ~queued => \A i \in Server : i > replicas => i \notin Active
      <4>1. \A m, n \in Nat : m > n => ~(m <= n)
        OBVIOUS
      <4>2. replicas \in Nat /\ \A i \in Server : i \in Nat
        BY ServerFacts, Zenon DEF Shape, TypeOK
      <4> QED
        BY <2>2, <2>3, <4>1, <4>2, Zenon
    <3> QED
      BY <1>1, <1>2, <3>1, Zenon DEF ExcessScaledDown
  <2> QED
    BY <1>1, <1>2, <1>3, <2>1, <2>3, <2>4, Zenon DEF ScaleInv
<1>5. CASE server # target.replicas
  <2>1. UNCHANGED <<recordedHash, pc, target>>
    BY <1>5, Zenon DEF Annotate, memoryVars
  <2> QED
    BY <1>1, <1>2, <1>3, <2>1, Zenon DEF ScaleInv, ExcessScaledDown
<1> QED
  BY <1>4, <1>5, Zenon

\* A call that conflicts does so before or after it scales down: what it scales exists.
LEMMA ConflictScale ==
    ASSUME Shape, ScaleInv, CallConflicts
    PROVE  ScaleInv'
<1>1. /\ UNCHANGED <<replicas, config, deployment, recordedHash>>
      /\ pc' = "idle" /\ queued'
  BY Zenon DEF CallConflicts, ReturnError, Return, crVars, kubeVars, memoryVars
<1>2. Active' = Active
  BY <1>1, Zenon DEF Active, Exists
<1>3. pc # "downscale"
  <2>1. pc = "downscale" => server \in Active
    BY RangeFacts DEF ScaleInv
  <2> QED
    BY <2>1 DEF CallConflicts, Active
<1> QED
  BY <1>1, <1>2, <1>3, Zenon DEF ScaleInv, ExcessScaledDown

LEMMA OtherScale ==
    ASSUME Shape, RestInv, ScaleInv,
           \/ CleanSecret \/ AwaitRunning \/ AwaitReady \/ UpdateStatus
           \/ ChangeSecret \/ \E n \in ReplicaChoices : ChangeConfig(n)
           \/ UNCHANGED vars \/ \E i \in Server : KubeStep(i) \/ PodFails(i)
    PROVE  ScaleInv'
<1>1. UNCHANGED <<deployment, recordedHash, target, current>>
  BY Zenon DEF CleanSecret, AwaitRunning, AwaitReady, UpdateStatus, ChangeSecret, ChangeConfig,
     vars, KubeStep, PodFails, RemovePod, CreatePod, AdvancePod, SyncStatus, crVars, kubeVars,
     memoryVars, callVars
<1>2. Active' = Active
  BY <1>1, Zenon DEF Active, Exists
<1>3. CASE CleanSecret \/ AwaitRunning \/ AwaitReady \/ UpdateStatus
  <2>1. UNCHANGED <<replicas, config>> /\ pc \notin {"idle", "downscale"}
    BY <1>3 DEF CleanSecret, AwaitRunning, AwaitReady, UpdateStatus, crVars
  <2>2. pc' \notin {"idle", "downscale"}
    BY <1>3, FirstServerFacts DEF CleanSecret, AwaitRunning, AwaitReady, UpdateStatus, NextServer
  <2> QED
    BY <1>1, <1>2, <2>1, <2>2, Zenon DEF ScaleInv, ExcessScaledDown
<1>4. CASE ChangeSecret \/ \E n \in ReplicaChoices : ChangeConfig(n)
  <2>1. /\ UNCHANGED <<pc, server>> /\ queued'
        /\ UNCHANGED <<replicas, config>> \/ config' = config + 1
    BY <1>4, Zenon DEF ChangeSecret, ChangeConfig, callVars
  <2>2. recordedHash = config' => config' = config /\ replicas' = replicas
    BY <2>1, RangeFacts DEF RestInv, HashVouches
  <2> QED
    BY <1>1, <1>2, <2>1, <2>2, Zenon DEF ScaleInv, ExcessScaledDown
<1>5. CASE UNCHANGED vars \/ \E i \in Server : KubeStep(i) \/ PodFails(i)
  <2>1. UNCHANGED <<replicas, config, pc, server, queued>>
    BY <1>5, Zenon DEF vars, KubeStep, PodFails, RemovePod, CreatePod, AdvancePod, SyncStatus,
       crVars, callVars
  <2> QED
    BY <1>1, <1>2, <2>1, Zenon DEF ScaleInv, ExcessScaledDown
<1> QED
  BY <1>3, <1>4, <1>5

LEMMA InitScale ==
    ASSUME Init
    PROVE  ScaleInv
<1>1. /\ pc = "idle" /\ config = 1 /\ queued = (Installed = 0)
      /\ recordedHash = IF Installed = 0 THEN 0 ELSE 1
      /\ replicas \in IF Installed = 0 THEN ReplicaChoices ELSE {Installed}
  BY Zenon DEF Init
<1>2. \A i \in Server : i \in Active <=> i <= Installed
  <2>1. \A i \in Server :
           deployment[i] = IF i <= Installed THEN [replicas |-> 1, config |-> 1, secret |-> 1]
                           ELSE NoDeployment
    BY Zenon DEF Init
  <2> QED
    BY <2>1 DEF Active, Exists, NoDeployment
<1>3. Installed \in Nat /\ Active \subseteq Server /\ \A i \in Server : i \in Nat
  BY ServersAssumption, ServerFacts DEF Active
<1>4. \A i, j \in Server : j \in Active /\ i < j => i \in Active
  BY <1>2, <1>3
<1>5. recordedHash = config => \A i \in Active : i <= replicas
  BY <1>1, <1>2, <1>3
<1>6. ~queued => replicas = Installed
  BY <1>1, Zenon
<1>7. ExcessScaledDown
  BY <1>2, <1>3, <1>6 DEF ExcessScaledDown
<1> QED
  BY <1>1, <1>4, <1>5, <1>7 DEF ScaleInv

\* "For correct work excess ZooKeeper deployments need to be scaled down": when no call of
\* the operator fails half-way and the operator does not restart, whatever users change
\* while it works and whatever conflicts, no Deployment beyond the wanted number of servers
\* is active once the work queue is empty.  A failed call while it scales down is what the
\* operator does not recover from: it counts the active Deployments and scales down those
\* between the wanted number and the count.
THEOREM NoExcess ==
    ASSUME MaxFailures = 0, MaxRestarts = 0
    PROVE  Spec => []ExcessScaledDown
<1>1. Init => Shape /\ RestInv /\ ScaleInv
  BY InitShape, InitRest, InitScale
<1>2. Shape => ~CallFails /\ ~Restart
  <2>1. Shape => failures \in Nat /\ restarts \in Nat
    BY TypeSplit, Zenon DEF Shape, RestType
  <2>2. CallFails => failures < MaxFailures
    BY Zenon DEF CallFails
  <2>3. Restart => restarts < MaxRestarts
    BY Zenon DEF Restart
  <2> QED
    BY <2>1, <2>2, <2>3
<1>3. Shape /\ RestInv /\ ScaleInv /\ [Next]_vars => (Shape /\ RestInv /\ ScaleInv)'
  <2> SUFFICES ASSUME Shape, RestInv, ScaleInv, [Next]_vars
               PROVE  (Shape /\ RestInv /\ ScaleInv)'
    OBVIOUS
  <2>1. Shape' /\ RestInv'
    BY StepShape, StepRest
  <2>2. ScaleInv'
    BY <1>2, BeginScale, DownscaleScale, UpdateServerScale, AnnotateScale, ConflictScale,
       OtherScale, Zenon DEF Next, OperatorStep
  <2> QED
    BY <2>1, <2>2
<1>4. ScaleInv => ExcessScaledDown
  BY DEF ScaleInv
<1> QED
  BY <1>1, <1>3, <1>4, PTL DEF Spec

-----------------------------------------------------------------------------
(* The operator does not keep itself busy.                                 *)

\* Deployments exist from the first server on; a call that scales down finds the last
\* one it counted; the secret it read still has what it has to empty.
FoundInv ==
    /\ \A i, j \in Server : Exists(j) /\ i < j => Exists(i)
    /\ pc = "downscale" => Exists(current)
    /\ pc # "idle" => seen <= secret
    /\ pc # "idle" /\ dirty /\ seen = secret => pending

\* A Deployment is never removed, and only UpdateServer creates one.
LEMMA ExistsKept ==
    ASSUME Shape, [Next]_vars
    PROVE  \/ \A i \in Server : Exists(i)' <=> Exists(i)
           \/ /\ UpdateServer /\ UNCHANGED server /\ Exists(server)'
              /\ \A i \in Server \ {server} : Exists(i)' <=> Exists(i)
<1>1. CASE UpdateServer
  <2>1. pc = "server" /\ server' = server /\ Update(server, Template) /\ Template \in DeploymentObject
    BY <1>1, RangeFacts, Zenon DEF UpdateServer, Template, DeploymentObject
  <2>2. /\ deployment'[server] = Template
        /\ \A j \in Server \ {server} : deployment'[j] = deployment[j]
    BY <2>1, RangeFacts, UpdateFacts, Zenon DEF Shape
  <2>3. deployment'[server].config # 0
    <3>1. target.config # 0
      BY <2>1, Zenon DEF Shape, CallInv
    <3>2. Template.config = target.config
      BY DEF Template
    <3> QED
      BY <2>2, <3>1, <3>2, Zenon
  <2> QED
    BY <1>1, <2>1, <2>2, <2>3, Zenon DEF Exists
<1>2. CASE Downscale \/ (Annotate /\ Exists(server))
  <2>1. PICK n \in DeploymentObject : Update(server, n) /\ n.config = deployment[server].config
    <3>1. server \in Server /\ deployment[server] \in DeploymentObject /\ seen \in Nat
      BY RangeFacts, Zenon
    <3>2. /\ [deployment[server] EXCEPT !.replicas = 0] \in DeploymentObject
          /\ [deployment[server] EXCEPT !.replicas = 0].config = deployment[server].config
          /\ [deployment[server] EXCEPT !.secret = seen] \in DeploymentObject
          /\ [deployment[server] EXCEPT !.secret = seen].config = deployment[server].config
      BY <3>1 DEF DeploymentObject
    <3>3. \/ Update(server, [deployment[server] EXCEPT !.replicas = 0])
          \/ Update(server, [deployment[server] EXCEPT !.secret = seen])
      BY <1>2, Zenon DEF Downscale, Annotate
    <3> QED
      BY <3>2, <3>3, Zenon
  <2>2. /\ deployment'[server] = n
        /\ \A j \in Server \ {server} : deployment'[j] = deployment[j]
    BY <2>1, RangeFacts, UpdateFacts, Zenon DEF Shape
  <2> QED
    BY <2>1, <2>2, Zenon DEF Exists
<1>3. CASE UNCHANGED deployment
  BY <1>3, Zenon DEF Exists
<1>4. UpdateServer \/ Downscale \/ (Annotate /\ Exists(server)) \/ UNCHANGED deployment
  BY Zenon DEF Next, OperatorStep, Begin, CleanSecret, AwaitRunning, AwaitReady, UpdateStatus,
     Annotate, CallConflicts, CallFails, Restart, ChangeConfig, ChangeSecret, KubeStep,
     RemovePod, CreatePod, AdvancePod, SyncStatus, PodFails, vars, kubeVars
<1> QED
  BY <1>1, <1>2, <1>3, <1>4, Zenon

\* The Deployment whose number is the count of the active ones exists.
LEMMA CountedExists ==
    ASSUME \A i, j \in Server : Exists(j) /\ i < j => Exists(i),
           Cardinality(Active) \in Server
    PROVE  Exists(Cardinality(Active))
<1> DEFINE c == Cardinality(Active)
<1>1. c \in Nat /\ c >= 1
  BY ServerFacts
<1>2. SUFFICES ASSUME ~Exists(c)
               PROVE  FALSE
  OBVIOUS
<1>3. \A i \in Active : i \in Server /\ Exists(i)
  BY DEF Active
<1>4. \A i \in Active : i \in 1..(c - 1)
  <2>1. SUFFICES ASSUME NEW i \in Active
                 PROVE  i \in 1..(c - 1)
    OBVIOUS
  <2>2. i \in Server /\ Exists(i) /\ i \in Nat /\ i >= 1
    BY <1>3, ServerFacts, Zenon
  <2>3. ~(c < i) /\ i # c
    BY <1>2, <2>2, Zenon
  <2> HIDE DEF c
  <2> QED
    BY <1>1, <2>2, <2>3
<1>5. IsFiniteSet(1..(c - 1)) /\ Cardinality(1..(c - 1)) = c - 1
  <2> HIDE DEF c
  <2> QED
    BY <1>1, FS_Interval
<1>6. c <= c - 1
  <2> DEFINE before == 1..(c - 1)
  <2>1. Active \in SUBSET before /\ IsFiniteSet(before) /\ Cardinality(before) = c - 1
    BY <1>4, <1>5, Zenon
  <2> HIDE DEF before
  <2>2. Cardinality(Active) <= Cardinality(before)
    BY <2>1, FS_Subset, Zenon
  <2> QED
    BY <2>1, <2>2, Zenon
<1> HIDE DEF c
<1> QED
  BY <1>1, <1>6

LEMMA BeginFound ==
    ASSUME Shape, FoundInv, Begin
    PROVE  /\ pc' = "downscale" => Exists(current)'
           /\ (pc # "idle" => seen <= secret)'
           /\ (pc # "idle" /\ dirty /\ seen = secret => pending)'
<1>1. /\ UNCHANGED <<deployment, secret, pending>> /\ seen' = secret /\ dirty' = pending
  BY Zenon DEF Begin, crVars, kubeVars
<1>2. secret \in Nat
  BY TypeSplit DEF Shape, RestType
<1>3. secret <= secret
  BY <1>2
<1>4. ASSUME pc' = "downscale"
      PROVE  Exists(current)'
  <2>1. current' = Cardinality(Active) /\ Cardinality(Active) > replicas
    BY <1>4, FirstServerFacts DEF Begin
  <2>2. Cardinality(Active) \in Server
    BY <2>1, ActiveCount, ServerFacts DEF Shape, TypeOK
  <2>3. Exists(Cardinality(Active))
    BY <2>2, CountedExists, Zenon DEF FoundInv
  <2> QED
    BY <1>1, <2>1, <2>3, Zenon DEF Exists
<1> QED
  BY <1>1, <1>3, <1>4, Zenon

LEMMA StepFound ==
    ASSUME Shape, RestInv, FoundInv, [Next]_vars
    PROVE  FoundInv'
<1>1. \A i, j \in Server : Exists(j)' /\ i < j => Exists(i)'
  <2>1. CASE \A i \in Server : Exists(i)' <=> Exists(i)
    BY <2>1, Zenon DEF FoundInv
  <2>2. CASE /\ UpdateServer /\ UNCHANGED server /\ Exists(server)'
             /\ \A i \in Server \ {server} : Exists(i)' <=> Exists(i)
    <3>1. \A i \in Server : i < server => Exists(i)
      <4>1. SUFFICES ASSUME NEW i \in Server, i < server
                     PROVE  Exists(i)
        OBVIOUS
      <4>2. pc = "server" /\ target.config # 0 /\ server <= target.replicas
        BY <2>2 DEF UpdateServer, Shape, CallInv, TypeOK
      <4>3. i \in 1..target.replicas
        BY <4>1, <4>2, ServerFacts, RangeFacts
      <4>4. Deployed(i, target.config)
        BY <4>1, <4>2, <4>3, Zenon DEF RestInv, CallDeployed, Handled
      <4> QED
        BY <4>2, <4>4 DEF Deployed, Exists
    <3> QED
      BY <2>2, <3>1, Zenon DEF FoundInv, Exists
  <2> QED
    BY <2>1, <2>2, ExistsKept, Zenon
<1>2. \A i \in Server : Exists(i) => Exists(i)'
  BY ExistsKept, Zenon DEF Exists
<1>3. CASE Begin
  BY <1>1, <1>3, BeginFound, Zenon DEF FoundInv
<1>4. CASE pc' = "idle"
  BY <1>1, <1>4, Zenon DEF FoundInv
<1>5. CASE /\ pc # "idle" /\ UNCHANGED <<secret, pending, seen, dirty, current>>
           /\ pc' = "downscale" => pc = "downscale"
  <2>1. pc' = "downscale" => Exists(current)'
    <3>1. pc = "downscale" => current \in Server
      BY ServerFacts DEF Shape, CallInv, TypeOK
    <3> QED
      BY <1>2, <1>5, <3>1, Zenon DEF FoundInv, Exists
  <2> QED
    BY <1>1, <1>5, <2>1, Zenon DEF FoundInv
<1>6. CASE CleanSecret
  <2>1. /\ pc = "vault" /\ pc' = "server" /\ ~dirty'
        /\ \/ seen' = secret + 1 /\ secret' = secret + 1
           \/ UNCHANGED <<seen, secret>>
    BY <1>6 DEF CleanSecret
  <2>2. seen' <= secret'
    BY <2>1, TypeSplit DEF FoundInv, Shape, RestType
  <2> QED
    BY <1>1, <2>1, <2>2, Zenon DEF FoundInv
<1>7. CASE ChangeSecret
  <2>1. /\ UNCHANGED <<pc, current, seen, dirty, deployment>> /\ secret' = secret + 1
    BY <1>7 DEF ChangeSecret, callVars, kubeVars
  <2>2. pc # "idle" => seen <= secret' /\ seen # secret'
    BY <2>1, TypeSplit DEF FoundInv, Shape, RestType, CallType
  <2> QED
    BY <1>1, <2>1, <2>2, Zenon DEF FoundInv, Exists
<1>8. CASE pc = "idle" /\ UNCHANGED pc
  BY <1>4, <1>8, Zenon
<1>9. \/ Begin \/ pc' = "idle" \/ CleanSecret \/ ChangeSecret
      \/ /\ pc # "idle" /\ UNCHANGED <<secret, pending, seen, dirty, current>>
         /\ pc' = "downscale" => pc = "downscale"
      \/ pc = "idle" /\ UNCHANGED pc
  <2>1. CASE Downscale \/ UpdateServer \/ AwaitRunning \/ AwaitReady \/ UpdateStatus \/ Annotate
    BY <2>1, FirstServerFacts DEF Downscale, UpdateServer, AwaitRunning, AwaitReady,
       UpdateStatus, Annotate, NextServer, Return, crVars
  <2>2. CASE CallConflicts \/ CallFails \/ Restart
    BY <2>2 DEF CallConflicts, CallFails, Restart, ReturnError, Return
  <2>3. CASE \/ \E m \in ReplicaChoices : ChangeConfig(m)
             \/ \E i \in Server : KubeStep(i) \/ PodFails(i)
             \/ UNCHANGED vars
    BY <2>3, Zenon DEF ChangeConfig, KubeStep, RemovePod, CreatePod, AdvancePod, SyncStatus, PodFails,
       vars, crVars, callVars
  <2> QED
    BY <2>1, <2>2, <2>3, Zenon DEF Next, OperatorStep
<1> QED
  BY <1>3, <1>4, <1>5, <1>6, <1>7, <1>8, <1>9, Zenon

LEMMA InitFound ==
    ASSUME Init
    PROVE  FoundInv
<1>1. \A i \in Server : Exists(i) <=> i <= Installed
  <2>1. \A i \in Server :
           deployment[i] = IF i <= Installed THEN [replicas |-> 1, config |-> 1, secret |-> 1]
                           ELSE NoDeployment
    BY Zenon DEF Init
  <2>2. /\ [replicas |-> 1, config |-> 1, secret |-> 1].config = 1
        /\ NoDeployment.config = 0 /\ 1 # 0
    BY DEF NoDeployment
  <2>3. \A i \in Server : deployment[i].config = IF i <= Installed THEN 1 ELSE 0
    BY <2>1, <2>2, Zenon
  <2> QED
    BY <2>2, <2>3, Zenon DEF Exists
<1>2. Installed \in Nat /\ \A i \in Server : i \in Nat
  BY ServersAssumption, ServerFacts
<1>3. pc = "idle"
  BY DEF Init
<1> QED
  BY <1>1, <1>2, <1>3 DEF FoundInv

\* Whatever a call conflicts with is new: another request is queued already.
LEMMA ConflictsQueued ==
    ASSUME Shape, RestInv, FoundInv, CallConflicts
    PROVE  queued
<1>1. pc # "idle"
  BY DEF CallConflicts
<1>2. CASE pc = "downscale" /\ ~Exists(server)
  <2>1. server \in Server /\ current \in Server /\ server <= current /\ Exists(current)
    <3>1. /\ server \in Server /\ current \in Nat /\ server <= current /\ current <= MaxServers
          /\ Exists(current)
      BY <1>2, Zenon DEF Shape, CallInv, TypeOK, FoundInv
    <3> QED
      BY <3>1, ServerFacts
  <2>2. server < current \/ server = current
    BY <2>1, ServerFacts
  <2> QED
    BY <1>2, <2>1, <2>2, Zenon DEF FoundInv
<1> QED
  BY <1>1, <1>2, Zenon DEF CallConflicts, RestInv, CallCurrent

LEMMA PartFacts ==
    ASSUME TypeOK
    PROVE  /\ pc = "downscale" => Part = 0
           /\ pc \in {"vault", "server", "running", "ready"} => Part = 1
           /\ pc = "status" => Part = 2
           /\ pc = "annotate" => Part = 3
           /\ pc # "idle" => Part < 4
           /\ pc = "vault" => Stage = 0
           /\ pc = "server" => Stage = 1
           /\ pc = "running" => Stage = 2
<1>1. \A n \in {0, 1, 2, 3} : n < 4
  OBVIOUS
<1>2. pc # "idle" => Part \in {0, 1, 2, 3}
  BY Zenon DEF Part
<1> QED
  BY <1>1, <1>2, Zenon DEF Part, Stage

LEMMA PartNextFacts ==
    /\ pc' \in {"vault", "server", "running", "ready"} => Part' = 1
    /\ pc' = "status" => Part' = 2
    /\ pc' = "annotate" => Part' = 3
    /\ pc' = "idle" => Part' = 4
    /\ pc' = "server" => Stage' = 1
    /\ pc' = "running" => Stage' = 2
    /\ pc' = "ready" => Stage' = 3
BY DEF Part, Stage

\* A call that returns has come to its end.
LEMMA ReturnAdvances ==
    ASSUME TypeOK, pc # "idle", pc' = "idle"
    PROVE  CallAdvances
<1>1. Part < 4 /\ Part' = 4
  BY PartFacts, PartNextFacts
<1> QED
  BY <1>1 DEF CallAdvances

\* The loop over the servers goes on, or is left for the status.
LEMMA NextServerAdvances ==
    ASSUME TypeOK, pc \in {"running", "ready"}, NextServer
    PROVE  CallAdvances
<1>1. Part = 1 /\ server \in Nat
  BY PartFacts, ServerFacts DEF TypeOK
<1>2. CASE pc' = "status"
  BY <1>1, <1>2, PartNextFacts DEF CallAdvances
<1>3. CASE pc' = FirstServer /\ server' = server + 1
  <2>1. Part' = 1
    BY <1>3, FirstServerFacts, PartNextFacts, Zenon
  <2> QED
    BY <1>1, <1>3, <2>1 DEF CallAdvances
<1> QED
  BY <1>2, <1>3 DEF NextServer

\* Every step of a call takes it further.
LEMMA StepAdvances ==
    ASSUME TypeOK, \/ Downscale \/ UpdateServer \/ AwaitRunning \/ AwaitReady
                   \/ UpdateStatus \/ Annotate
    PROVE  UNCHANGED <<pending, queued>> /\ CallAdvances
<1>1. UNCHANGED <<pending, queued>>
  BY Zenon DEF Downscale, UpdateServer, AwaitRunning, AwaitReady, UpdateStatus, Annotate, crVars
<1>2. server \in Nat
  BY ServerFacts DEF TypeOK
<1>3. CASE Downscale
  <2>1. Part = 0
    BY <1>3, PartFacts DEF Downscale
  <2>2. CASE pc' = FirstServer
    <3>1. Part' = 1
      BY <2>2, FirstServerFacts, PartNextFacts, Zenon
    <3> QED
      BY <1>1, <2>1, <3>1 DEF CallAdvances
  <2>3. CASE server' = server + 1 /\ UNCHANGED pc
    <3>1. UNCHANGED Part
      BY <2>3, Zenon DEF Part
    <3>2. server < server'
      BY <1>2, <2>3
    <3> QED
      BY <1>1, <3>1, <3>2, Zenon DEF CallAdvances
  <2> QED
    BY <1>3, <2>2, <2>3, Zenon DEF Downscale
<1>4. CASE UpdateServer
  <2>1. pc = "server" /\ pc' = "running" /\ UNCHANGED server
    BY <1>4, Zenon DEF UpdateServer
  <2>2. Part = 1 /\ Part' = 1 /\ Stage < Stage'
    BY <2>1, PartFacts, PartNextFacts
  <2> QED
    BY <1>1, <2>1, <2>2, Zenon DEF CallAdvances
<1>5. CASE AwaitRunning
  <2>1. CASE pc' = "ready" /\ UNCHANGED server
    <3>1. Part = 1 /\ Part' = 1 /\ Stage < Stage'
      BY <1>5, <2>1, PartFacts, PartNextFacts DEF AwaitRunning
    <3> QED
      BY <1>1, <2>1, <3>1, Zenon DEF CallAdvances
  <2>2. CASE NextServer
    BY <1>1, <1>5, <2>2, NextServerAdvances DEF AwaitRunning
  <2> QED
    BY <1>5, <2>1, <2>2, Zenon DEF AwaitRunning
<1>6. CASE AwaitReady
  BY <1>1, <1>6, NextServerAdvances DEF AwaitReady
<1>7. CASE UpdateStatus
  <2>1. Part = 2 /\ Part' = 3
    BY <1>7, PartFacts, PartNextFacts DEF UpdateStatus
  <2> QED
    BY <1>1, <2>1 DEF CallAdvances
<1>8. CASE Annotate
  <2>1. pc = "annotate"
    BY <1>8 DEF Annotate
  <2>2. CASE Return
    <3>1. pc' = "idle"
      BY <2>2 DEF Return
    <3> QED
      BY <1>1, <2>1, <3>1, ReturnAdvances, Zenon
  <2>3. CASE server' = server + 1 /\ UNCHANGED pc
    <3>1. UNCHANGED Part
      BY <2>3, Zenon DEF Part
    <3>2. server < server'
      BY <1>2, <2>3
    <3> QED
      BY <1>1, <3>1, <3>2, Zenon DEF CallAdvances
  <2> QED
    BY <1>8, <2>2, <2>3, Zenon DEF Annotate
<1> QED
  BY <1>3, <1>4, <1>5, <1>6, <1>7, <1>8, Zenon

\* An emptied secret had a request; a conflict ends a call that has a newer one behind it.
LEMMA OperatorAdvances ==
    ASSUME Shape, RestInv, FoundInv, OperatorStep
    PROVE  Advances
<1>1. TypeOK
  BY DEF Shape
<1>2. CASE Begin
  BY <1>2, Zenon DEF Begin, crVars, Advances
<1>3. CASE CleanSecret /\ dirty
  <2>1. pc = "vault" /\ secret = seen /\ ~pending'
    BY <1>3 DEF CleanSecret
  <2>2. pending
    BY <1>3, <2>1, Zenon DEF FoundInv
  <2> QED
    BY <2>1, <2>2, Zenon DEF Advances
<1>4. CASE CleanSecret /\ ~dirty
  <2>1. pc = "vault" /\ pc' = "server" /\ UNCHANGED <<pending, queued, server>>
    BY <1>4, Zenon DEF CleanSecret
  <2>2. Part = 1 /\ Part' = 1 /\ Stage < Stage'
    BY <1>1, <2>1, PartFacts, PartNextFacts
  <2> QED
    BY <2>1, <2>2, Zenon DEF Advances, CallAdvances
<1>5. CASE CallConflicts
  <2>1. pc # "idle" /\ pc' = "idle" /\ queued' = TRUE /\ UNCHANGED pending
    BY <1>5 DEF CallConflicts, ReturnError, Return, crVars
  <2>2. queued' = queued
    BY <1>1, <1>5, <2>1, ConflictsQueued DEF TypeOK
  <2> QED
    BY <1>1, <2>1, <2>2, ReturnAdvances, Zenon DEF Advances
<1>6. CASE Downscale \/ UpdateServer \/ AwaitRunning \/ AwaitReady \/ UpdateStatus \/ Annotate
  BY <1>1, <1>6, StepAdvances, Zenon DEF Advances
<1> QED
  BY <1>2, <1>3, <1>4, <1>5, <1>6, Zenon DEF OperatorStep

\* Whatever fails, restarts or is changed by users: between two such events the operator
\* takes only finitely many steps; each request starts one call, no call returns an error
\* because of what the operator itself wrote, and only a secret that is emptied, once for
\* each request, makes it queue another.
THEOREM OperatorProgresses == Spec => Progress
<1>1. Init => Shape /\ RestInv /\ FoundInv
  BY InitShape, InitRest, InitFound, Zenon
<1>2. Shape /\ RestInv /\ FoundInv /\ [Next]_vars => (Shape /\ RestInv /\ FoundInv)'
  BY StepShape, StepRest, StepFound, Zenon
<1>3. ASSUME Shape, RestInv, FoundInv, Next
      PROVE  Advances
  <2>1. CASE CallFails \/ Restart \/ ChangeSecret \/ \E n \in ReplicaChoices : ChangeConfig(n)
    <3>1. \/ failures' = failures + 1 \/ restarts' = restarts + 1
          \/ secretEdits' = secretEdits + 1 \/ config' = config + 1
      BY <2>1, Zenon DEF CallFails, Restart, ChangeSecret, ChangeConfig
    <3>2. failures \in Nat /\ restarts \in Nat /\ secretEdits \in Nat /\ config \in Nat
      BY <1>3, TypeSplit, Zenon DEF Shape, RestType
    <3>3. failures' # failures \/ restarts' # restarts \/ secretEdits' # secretEdits
          \/ config' # config
      BY <3>1, <3>2
    <3> QED
      BY <3>3 DEF Advances, boundVars
  <2>2. CASE \E i \in Server : KubeStep(i) \/ PodFails(i)
    BY <2>2, Zenon DEF KubeStep, RemovePod, CreatePod, AdvancePod, SyncStatus, PodFails, crVars,
       Advances
  <2> QED
    BY <1>3, <2>1, <2>2, OperatorAdvances, Zenon DEF Next
<1>4. Shape /\ RestInv /\ FoundInv /\ [Next]_vars => [Advances]_vars
  BY <1>3
<1> QED
  BY <1>1, <1>2, <1>4, PTL DEF Spec, Progress

=============================================================================
