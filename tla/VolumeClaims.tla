----------------------------- MODULE VolumeClaims -----------------------------
(***************************************************************************)
(* The persistent volume claims of the ZooKeeper servers and of the        *)
(* snapshots, and the annotations that the custom resource asks for on     *)
(* them.  A claim is created once; afterwards only its annotations follow  *)
(* the spec, by comparing the spec with what the status says was applied   *)
(* last (createPersistentVolumeClaim, updatePersistentVolumeClaim,         *)
(* updateStatus).  ZooKeeper and the backup daemon share the claim of the  *)
(* snapshots.  Users change the annotations and the number of servers      *)
(* while cycles run, calls fail, the operator restarts.                    *)
(*                                                                         *)
(* Data abstraction.  Annotations map a key to the number of the user      *)
(* update that wrote its value, 0 when the key is absent.  The annotations *)
(* that Kubernetes adds when it binds a claim are one flag.                *)
(***************************************************************************)
EXTENDS Naturals

CONSTANTS
    Keys,             \* the annotation keys users may set
    MaxServers,       \* bound on the number of servers
    ReplicaChoices,   \* the numbers of servers users choose from
    StorageTypes,     \* the types of snapshot storage an installation chooses from
    VolumeChoices,    \* the numbers of volumes listed for the servers, 0: by class
    AllowRevert,      \* may a user write back earlier annotations?
    MaxEdits,         \* bound on the updates of the custom resource
    MaxFaults         \* bound on failed calls and operator restarts

ASSUME ServersAssumption == /\ MaxServers \in Nat \ {0}
                            /\ ReplicaChoices \subseteq 1..MaxServers
                            /\ ReplicaChoices # {}
ASSUME StorageAssumption ==
           /\ StorageTypes \subseteq {"", "standalone", "storage_class", "predefined_claim"}
           /\ VolumeChoices \subseteq Nat
ASSUME BoundsAssumption == /\ AllowRevert \in BOOLEAN
                           /\ MaxEdits \in Nat
                           /\ MaxFaults \in Nat

Snapshots == 0
ServerClaim == 1..MaxServers
Claim == {Snapshots} \cup ServerClaim
NoAnnotations == [k \in Keys |-> 0]

VARIABLES
    \* the API server
    annotations,      \* spec.global.pvc.metadata.annotations
    replicas,         \* spec.zooKeeper.replicas
    storage,          \* the type of the snapshot storage, for both services
    volumes,          \* the length of spec.zooKeeper.storage.volumes
    edits,            \* number of updates of the spec (metadata.generation)
    applied,          \* status.pvcStatus.annotations
    exists,           \* the claims that exist
    claims,           \* claims[c]: the annotations of claim c
    bound,            \* the claims that Kubernetes has bound and annotated
    \* the operator: the queue, ResourceHashes, the running call
    queued,
    hashes,           \* what each recorded hash stands for, a set of at most one
    pc, server,       \* the next step, the server it works on
    inst,             \* the instance fetched at the start
    \* history and bounds
    missed,           \* claims of servers that were away when annotations changed
    cut,              \* a cycle for a changed spec has been cut short
    undone,           \* a user went back to earlier annotations during a change
    faults

specVars == <<annotations, replicas, storage, volumes, edits>>
apiVars == <<specVars, applied, exists, claims, bound>>
callVars == <<pc, server, inst>>
vars == <<apiVars, queued, hashes, callVars, missed, cut, undone, faults>>

NoHashes == [global |-> {}, zooKeeper |-> {}, spec |-> {}]
NoInstance == [annotations |-> NoAnnotations, replicas |-> 0, applied |-> NoAnnotations,
               edits |-> 0, changed |-> FALSE]

Changing == inst.annotations # inst.applied

Returned == pc' = "idle" /\ server' = 1 /\ inst' = NoInstance

\* Mutant of Abort: the request is not queued again.
AbortAndForget ==
    /\ Returned
    /\ cut' = (cut \/ inst.changed)
    /\ UNCHANGED queued

\* The call ends with an error or a recovered panic, and is retried.
Abort ==
    /\ Returned
    /\ queued' = TRUE
    /\ cut' = (cut \/ inst.changed)

-----------------------------------------------------------------------------
(* The cycle.                                                              *)

\* Reconcile fetches the instance and enters ZooKeeper's Reconcile: the claims are
\* processed if the global section, which has the annotations, or the ZooKeeper
\* section changed.
Begin ==
    /\ pc = "idle"
    /\ queued
    /\ queued' = FALSE
    /\ inst' = [annotations |-> annotations, replicas |-> replicas, applied |-> applied,
                edits |-> edits, changed |-> hashes.spec # {<<annotations, replicas>>}]
    /\ pc' = IF hashes.global = {annotations} /\ hashes.zooKeeper = {replicas}
             THEN "backup" ELSE "snapshots"
    /\ UNCHANGED <<apiVars, hashes, server, missed, cut, undone, faults>>

\* The annotations of a claim that the operator defines.
NewPersistentVolumeClaim == inst.annotations

\* The volume of a server is looked up by its number: the list may be too short.
VolumeMissing == volumes > 0 /\ server > volumes

\* Mutant of WantedForSnapshots: a predefined claim is treated as the operator's own.
WantedEverywhere == NewPersistentVolumeClaim

\* processSnapshotsPersistentVolumeClaim: a predefined claim is wanted as it is found.
WantedForSnapshots == IF storage = "predefined_claim" THEN claims[Snapshots]
                      ELSE NewPersistentVolumeClaim

\* Mutant of Merged: annotations that left the spec stay.
MergedOnly(c, wanted) ==
    [k \in Keys |-> IF wanted[k] # 0 THEN wanted[k] ELSE claims[c][k]]

\* The wanted annotations are copied over those found, and the ones that were applied
\* last and are no longer wanted are deleted.
Merged(c, wanted) ==
    [k \in Keys |-> IF wanted[k] # 0 THEN wanted[k]
                    ELSE IF inst.applied[k] # 0 THEN 0 ELSE claims[c][k]]

updatePersistentVolumeClaim(c, wanted) ==
    claims' = IF wanted = inst.applied THEN claims
              ELSE [claims EXCEPT ![c] = Merged(c, wanted)]

\* The claim found has no annotations at all: copying into the nil map panics.
CopyPanics(c, wanted) ==
    /\ c \in exists
    /\ wanted # inst.applied
    /\ claims[c] = NoAnnotations /\ c \notin bound
    /\ wanted # NoAnnotations

\* The claim is created, or its annotations are brought up to date.
createPersistentVolumeClaim(c, wanted) ==
    \/ /\ c \notin exists
       /\ exists' = exists \cup {c}
       /\ claims' = [claims EXCEPT ![c] = wanted]
    \/ /\ c \in exists
       /\ ~CopyPanics(c, wanted)
       /\ updatePersistentVolumeClaim(c, wanted)
       /\ UNCHANGED exists

\* ZooKeeper's storage of snapshots, skipped when each server keeps its own.
ProcessSnapshots ==
    /\ pc = "snapshots"
    /\ IF storage \in {"", "standalone"} THEN UNCHANGED <<exists, claims>>
       ELSE createPersistentVolumeClaim(Snapshots, WantedForSnapshots)
    /\ pc' = "servers"
    /\ UNCHANGED <<specVars, applied, bound, queued, hashes, server, inst, missed,
                   cut, undone, faults>>

\* Mutant of AfterServer: one server too many.
AfterServerOffByOne ==
    IF server <= inst.replicas
    THEN server' = server + 1 /\ UNCHANGED pc
    ELSE server' = 1 /\ pc' = "status"

\* The loop over the servers.
AfterServer ==
    IF server < inst.replicas
    THEN server' = server + 1 /\ UNCHANGED pc
    ELSE server' = 1 /\ pc' = "status"

\* Mutant of ProcessServer: what is applied is reported with the first claim.
ProcessServerAndReport ==
    /\ pc = "servers"
    /\ ~VolumeMissing
    /\ createPersistentVolumeClaim(server, NewPersistentVolumeClaim)
    /\ applied' = inst.annotations
    /\ AfterServer
    /\ UNCHANGED <<specVars, bound, queued, hashes, inst, missed, cut, undone, faults>>

\* The claim of the next server (its other resources are not modelled here).
ProcessServer ==
    /\ pc = "servers"
    /\ ~VolumeMissing
    /\ createPersistentVolumeClaim(server, NewPersistentVolumeClaim)
    /\ AfterServer
    /\ UNCHANGED <<specVars, applied, bound, queued, hashes, inst, missed, cut, undone,
                   faults>>

\* The servers are reported, with a conflict if the custom resource was updated since the
\* instance was fetched; then ZooKeeper's hash is recorded.
updateZooKeeperStatus ==
    /\ pc = "status"
    /\ \/ /\ inst.edits = edits
          /\ hashes' = [hashes EXCEPT !.zooKeeper = {inst.replicas}]
          /\ pc' = "backup"
          /\ UNCHANGED <<queued, server, inst, cut>>
       \/ /\ inst.edits # edits
          /\ Abort
          /\ UNCHANGED hashes
    /\ UNCHANGED <<apiVars, missed, undone, faults>>

\* The backup daemon's storage is the claim of the snapshots by default; its gate
\* opens with the global section, and nothing else of it changes here.
ProcessBackup ==
    /\ pc = "backup"
    /\ IF storage = "" \/ hashes.global = {inst.annotations}
       THEN UNCHANGED <<exists, claims>>
       ELSE createPersistentVolumeClaim(Snapshots, WantedForSnapshots)
    /\ pc' = "publish"
    /\ UNCHANGED <<specVars, applied, bound, queued, hashes, server, inst, missed,
                   cut, undone, faults>>

\* Monitoring and the backup daemon, if their gates are open, report their pods in the same
\* way; the edit came before one of these updates.
StatusConflict ==
    /\ pc \in {"backup", "publish"}
    /\ hashes.global # {inst.annotations}
    /\ inst.edits # edits
    /\ Abort
    /\ UNCHANGED <<apiVars, hashes, missed, undone, faults>>

\* A panic in either place; it is recovered and the request is queued again.
Panic ==
    /\ \/ /\ pc = "snapshots"
          /\ storage \notin {"", "standalone"}
          /\ CopyPanics(Snapshots, WantedForSnapshots)
       \/ /\ pc = "servers"
          /\ VolumeMissing \/ CopyPanics(server, NewPersistentVolumeClaim)
       \/ /\ pc = "backup"
          /\ storage # "" /\ hashes.global # {inst.annotations}
          /\ CopyPanics(Snapshots, WantedForSnapshots)
    /\ Abort
    /\ UNCHANGED <<apiVars, hashes, missed, undone, faults>>

\* The services are done: the annotations are reported as applied, if they changed,
\* with a conflict if the custom resource was updated since the instance was fetched.
updateStatus ==
    /\ pc = "publish"
    /\ \/ /\ ~Changing
          /\ pc' = "finish"
          /\ UNCHANGED <<applied, inst, server, missed, cut, queued>>
       \/ /\ Changing
          /\ inst.edits = edits
          /\ applied' = inst.annotations
          /\ inst' = [inst EXCEPT !.applied = inst.annotations]
          /\ missed' = missed \cup {c \in exists \cap ServerClaim : c > inst.replicas}
          /\ pc' = "finish"
          /\ UNCHANGED <<server, cut, queued>>
       \/ /\ Changing
          /\ inst.edits # edits
          /\ Abort
          /\ UNCHANGED <<applied, missed>>
    /\ UNCHANGED <<specVars, exists, claims, bound, hashes, undone, faults>>

\* Mutant of Finish: the update of the status has made the instance out of date.
FinishOutdated ==
    /\ pc = "finish"
    /\ \/ /\ ~inst.changed
          /\ hashes' = [hashes EXCEPT !.global = {inst.annotations},
                                      !.spec = {<<inst.annotations, inst.replicas>>}]
          /\ Returned
          /\ UNCHANGED <<queued, cut>>
       \/ inst.changed /\ Abort /\ UNCHANGED hashes
    /\ UNCHANGED <<apiVars, missed, undone, faults>>

\* If the spec changed its conditions are updated, with the same conflict; then the
\* hashes are recorded.
Finish ==
    /\ pc = "finish"
    /\ \/ /\ inst.changed => inst.edits = edits
          /\ hashes' = [hashes EXCEPT !.global = {inst.annotations},
                                      !.spec = {<<inst.annotations, inst.replicas>>}]
          /\ Returned
          /\ UNCHANGED <<queued, cut>>
       \/ /\ inst.changed
          /\ inst.edits # edits
          /\ Abort
          /\ UNCHANGED hashes
    /\ UNCHANGED <<apiVars, missed, undone, faults>>

\* A call fails.  If it took effect all the same, the step that makes it is followed
\* by this one.
CallFails ==
    /\ pc # "idle"
    /\ faults < MaxFaults
    /\ faults' = faults + 1
    /\ Abort
    /\ UNCHANGED <<apiVars, hashes, missed, undone>>

Restart ==
    /\ faults < MaxFaults
    /\ faults' = faults + 1
    /\ Abort
    /\ hashes' = NoHashes
    /\ UNCHANGED <<apiVars, missed, undone>>

-----------------------------------------------------------------------------
(* The environment.                                                        *)

\* A user sets or removes an annotation, restores earlier annotations, or changes the
\* number of servers.
Edit ==
    /\ edits < MaxEdits
    /\ edits' = edits + 1
    /\ \/ /\ \E k \in Keys, v \in {0, edits + 1} :
                annotations' = [annotations EXCEPT ![k] = v]
          /\ UNCHANGED replicas
       \/ /\ AllowRevert
          /\ annotations' \in {applied} \cup hashes.global
          /\ UNCHANGED replicas
       \/ /\ replicas' \in ReplicaChoices
          /\ UNCHANGED annotations
    /\ queued' = TRUE
    /\ undone' = \/ undone
                 \/ /\ annotations # applied \/ hashes.global # {annotations}
                    /\ annotations' # annotations
                    /\ annotations' \in {applied} \cup hashes.global
    /\ UNCHANGED <<storage, volumes, applied, exists, claims, bound, hashes, callVars,
                   missed, cut, faults>>

\* Kubernetes binds a claim and annotates it.
Bind(c) ==
    /\ c \in exists \ bound
    /\ bound' = bound \cup {c}
    /\ UNCHANGED <<specVars, applied, exists, claims, queued, hashes, callVars,
                   missed, cut, undone, faults>>

Init ==
    /\ annotations = NoAnnotations
    /\ replicas \in ReplicaChoices
    /\ edits = 1
    /\ applied = NoAnnotations
    /\ storage \in StorageTypes
    /\ volumes \in VolumeChoices
    /\ exists = IF storage = "predefined_claim" THEN {Snapshots} ELSE {}
    /\ claims = [c \in Claim |-> IF c \in exists THEN [k \in Keys |-> 1] ELSE NoAnnotations]
    /\ bound = {}
    /\ queued = TRUE
    /\ hashes = NoHashes
    /\ pc = "idle"
    /\ server = 1
    /\ inst = NoInstance
    /\ missed = {}
    /\ cut = FALSE
    /\ undone = FALSE
    /\ faults = 0

OperatorStep == \/ Begin \/ ProcessSnapshots \/ ProcessServer \/ updateZooKeeperStatus
                \/ ProcessBackup \/ StatusConflict \/ Panic \/ updateStatus \/ Finish

Next == \/ OperatorStep
        \/ CallFails \/ Restart \/ Edit
        \/ \E c \in Claim : Bind(c)

\* The queue is served; nothing is assumed of the binding of claims.
Spec == Init /\ [][Next]_vars /\ WF_vars(OperatorStep)

-----------------------------------------------------------------------------
(* Properties.                                                             *)

Annotations == [Keys -> Nat]
Hashes == [global : SUBSET Annotations, zooKeeper : SUBSET ReplicaChoices,
           spec : SUBSET (Annotations \X ReplicaChoices)]
Instance == [annotations : Annotations, replicas : Nat, applied : Annotations,
             edits : Nat, changed : BOOLEAN]

\* Types: every variable stays in its domain; the server loop of Reconcile works on
\* servers of the instance.
TypeOK ==
    /\ annotations \in Annotations /\ replicas \in ReplicaChoices /\ edits \in Nat
    /\ applied \in Annotations /\ exists \subseteq Claim /\ bound \subseteq exists
    /\ claims \in [Claim -> Annotations] /\ queued \in BOOLEAN
    /\ storage \in StorageTypes /\ volumes \in VolumeChoices
    /\ hashes \in Hashes
    /\ pc \in {"idle", "snapshots", "servers", "status", "backup", "publish", "finish"}
    /\ inst \in Instance
    /\ pc # "idle" => inst.replicas \in ReplicaChoices
    /\ IF pc = "servers" THEN server \in 1..inst.replicas ELSE server = 1
    /\ missed \subseteq ServerClaim /\ {cut, undone} \subseteq BOOLEAN
    /\ faults \in Nat

AtRest == pc = "idle" /\ ~queued

\* The claims that a cycle processes, without those a change passed by.
Followers == ((1..replicas) \cup (IF storage \in {"", "predefined_claim"} THEN {}
                                 ELSE {Snapshots}))
             \ missed

\* At rest, if no cycle was cut short, every claim has exactly the annotations of the
\* spec: new ones were added, changed ones replaced and removed ones deleted.
ClaimsFollowSpec ==
    AtRest /\ ~cut => \A c \in Followers : c \in exists /\ claims[c] = annotations

\* At rest, however many cycles were cut short, every claim has the annotations of
\* the spec, be it among others; unless users went back to earlier annotations, which
\* the status or a recorded hash still stands for, before a cycle completed a change.
RetriesComplete ==
    AtRest /\ ~undone => \A c \in Followers, k \in Keys :
                            annotations[k] # 0 => claims[c][k] = annotations[k]

\* The operator never changes the annotations of a claim that an administrator
\* provided (predefined_claim), although it sends it through the same update.
PredefinedKept ==
    [][storage = "predefined_claim" => claims'[Snapshots] = claims[Snapshots]]_vars

\* What the operator cannot get past: a claim without any annotations, on which the
\* update panics until it is bound; a list of volumes too short for the servers.
Stuck == \/ \E c \in exists : claims[c] = NoAnnotations /\ c \notin bound
         \/ volumes > 0 /\ replicas > volumes

\* How far a call is.
Stage == IF pc = "idle" THEN 6
         ELSE IF pc = "finish" THEN 5
         ELSE IF pc = "publish" THEN 4
         ELSE IF pc = "backup" THEN 3
         ELSE IF pc = "status" THEN 2
         ELSE IF pc = "servers" THEN 1 ELSE 0

\* The call takes the request from the queue, or comes closer to its end, or is stuck.
CallAdvances ==
    \/ queued /\ ~queued'
    \/ UNCHANGED queued /\ (Stage < Stage' \/ (UNCHANGED Stage /\ server < server'))
    \/ pc' = "idle" /\ Stuck

Advances ==
    \/ <<edits, faults>>' # <<edits, faults>>
    \/ exists \subseteq exists' /\ exists' # exists
    \/ UNCHANGED exists /\ bound \subseteq bound' /\ bound' # bound
    \/ UNCHANGED <<exists, bound>> /\ CallAdvances

\* The operator does not keep itself busy.  Except for users' updates and faults,
\* every step creates or binds a claim, or takes the request from the queue, or brings
\* the call closer to its end; a call puts its own request back only when stuck, never
\* for a conflict with its own updates.
Progress == [][Advances]_vars

\* Eventually the status reports the annotations of the spec for good, or the operator
\* is stuck.
Settles == <>[]((AtRest /\ applied = annotations) \/ Stuck)
=============================================================================
