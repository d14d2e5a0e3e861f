-------------------------- MODULE VolumeClaimsProofs --------------------------
(***************************************************************************)
(* Proofs about VolumeClaims, for every set of keys, number of servers,    *)
(* type of storage and bound: types, that claims follow the spec           *)
(* (ClaimsFollowSpec, RetriesComplete), that a predefined claim is left    *)
(* alone, and that the operator does not keep itself busy.                 *)
(***************************************************************************)
EXTENDS VolumeClaims, TLAPS

(* The inductive invariant.                                                *)

\* The claims whose annotations a cycle brings up to date.
Kept == {c \in exists \ missed : ~(c = Snapshots /\ storage = "predefined_claim")}

\* The claim is one that the running call has been through.
Handled(c) ==
    \/ /\ pc = "servers"
       /\ c \in 1..(server - 1) \/ (c = Snapshots /\ storage # "standalone")
    \/ /\ pc \in {"status", "backup"}
       /\ c \in 1..inst.replicas \/ (c = Snapshots /\ storage # "standalone")
    \/ /\ pc \in {"publish", "finish"}
       /\ c \in 1..inst.replicas \/ c = Snapshots

Covers(c, wanted) == \A k \in Keys : wanted[k] # 0 => claims[c][k] = wanted[k]

\* The running call works on the spec of its start, which is the current one unless
\* another request is queued; what is recorded is what the last full cycle worked on.
CallInv ==
    /\ pc = "idle" => inst = NoInstance
    /\ pc # "idle" => /\ inst.applied = applied
                      /\ inst.edits <= edits
                      /\ inst.edits = edits => /\ inst.annotations = annotations
                                               /\ inst.replicas = replicas
                      /\ ~queued => inst.edits = edits
                      /\ ~inst.changed => hashes.spec = {<<inst.annotations, inst.replicas>>}
    /\ pc = "finish" => inst.annotations = applied
    /\ \A p \in hashes.spec : hashes.spec = {p} /\ hashes.global = {p[1]}
    /\ AtRest => /\ hashes.spec = {<<annotations, replicas>>}
                 /\ hashes.zooKeeper = {replicas}
                 /\ applied = annotations

\* Recorded hashes, and the progress of the call, vouch for the existence of claims.
ExistInv ==
    /\ storage = "" => Snapshots \notin exists
    /\ \A r \in hashes.zooKeeper : /\ hashes.zooKeeper = {r}
                                   /\ 1..r \subseteq exists
                                   /\ storage \notin {"", "standalone"} => Snapshots \in exists
    /\ hashes.global # {} /\ storage # "" => Snapshots \in exists
    /\ pc = "servers" => /\ 1..(server - 1) \subseteq exists
                         /\ storage \notin {"", "standalone"} => Snapshots \in exists
    /\ pc = "status" => /\ 1..inst.replicas \subseteq exists
                        /\ storage \notin {"", "standalone"} => Snapshots \in exists
    /\ pc \in {"backup", "publish", "finish"} => hashes.zooKeeper = {inst.replicas}
    /\ pc \in {"publish", "finish"} /\ storage # "" => Snapshots \in exists

\* Until a cycle is cut short, a claim has the annotations of the running call if it
\* has been handled, and those that were applied last otherwise.
FollowInv ==
    ~cut => /\ (pc = "finish" /\ inst.changed) \/ \A a \in hashes.global : a = applied
            /\ \A c \in Kept : claims[c] = IF Handled(c) THEN inst.annotations ELSE applied

\* Unless users go back to earlier annotations, those that are reported as applied, or
\* recorded, are on the claims, and the call puts its own there.
CoverInv ==
    ~undone =>
       /\ annotations \in hashes.global => annotations = applied
       /\ annotations = applied => \A c \in Kept : Covers(c, annotations)
       /\ pc # "idle" =>
             /\ inst.annotations # applied => annotations # applied
             /\ inst.annotations \in hashes.global => inst.annotations = applied
             /\ inst.annotations = applied => \A c \in Kept : Covers(c, inst.annotations)
             /\ \A c \in Kept : Handled(c) => Covers(c, inst.annotations)

ClaimsInv == CallInv /\ ExistInv /\ FollowInv /\ CoverInv

-----------------------------------------------------------------------------
(* Facts about the operators.                                              *)

LEMMA ConstantFacts ==
    /\ NoAnnotations \in Annotations
    /\ NoHashes \in Hashes /\ NoInstance \in Instance
    /\ NoHashes.global = {} /\ NoHashes.zooKeeper = {} /\ NoHashes.spec = {}
    /\ NoInstance.changed = FALSE
<1>1. NoAnnotations \in Annotations
  BY DEF NoAnnotations, Annotations
<1> QED
  BY <1>1 DEF NoHashes, Hashes, NoInstance, Instance

LEMMA ClaimFacts ==
    /\ Snapshots \in Claim /\ ServerClaim \subseteq Claim /\ Snapshots \notin ServerClaim
    /\ \A r \in ReplicaChoices : r \in Nat /\ r >= 1 /\ 1..r \subseteq ServerClaim
BY ServersAssumption DEF Snapshots, Claim, ServerClaim

\* What Begin fetches.
LEMMA FetchFacts ==
    ASSUME NEW a \in Annotations, NEW r \in ReplicaChoices, NEW p \in Annotations,
           NEW e \in Nat, NEW b \in BOOLEAN, NEW i,
           i = [annotations |-> a, replicas |-> r, applied |-> p, edits |-> e, changed |-> b]
    PROVE  /\ i \in Instance
           /\ i.annotations = a /\ i.replicas = r /\ i.applied = p
           /\ i.edits = e /\ i.changed = b
BY ClaimFacts DEF Instance

\* What updateStatus notes in the instance.
LEMMA PublishFacts ==
    ASSUME NEW i \in Instance, NEW a \in Annotations, NEW j, j = [i EXCEPT !.applied = a]
    PROVE  /\ j \in Instance
           /\ j.annotations = i.annotations /\ j.replicas = i.replicas /\ j.applied = a
           /\ j.edits = i.edits /\ j.changed = i.changed
BY DEF Instance

\* What updateZooKeeperStatus records.
LEMMA RecordServersFacts ==
    ASSUME NEW h \in Hashes, NEW r \in ReplicaChoices, NEW z, z = [h EXCEPT !.zooKeeper = {r}]
    PROVE  z \in Hashes /\ z.zooKeeper = {r} /\ z.global = h.global /\ z.spec = h.spec
BY DEF Hashes

\* What Finish records.
Recorded(h, a, r) == [h EXCEPT !.global = {a}, !.spec = {<<a, r>>}]

LEMMA RecordFacts ==
    ASSUME NEW h \in Hashes, NEW a \in Annotations, NEW r \in ReplicaChoices
    PROVE  /\ Recorded(h, a, r) \in Hashes
           /\ Recorded(h, a, r).zooKeeper = h.zooKeeper
           /\ Recorded(h, a, r).global = {a}
           /\ Recorded(h, a, r).spec = {<<a, r>>}
<1> DEFINE g == [h EXCEPT !.global = {a}]
           e == [g EXCEPT !.spec = {<<a, r>>}]
<1>1. g \in Hashes /\ g.zooKeeper = h.zooKeeper /\ g.global = {a}
  BY DEF Hashes
<1>2. e \in Hashes /\ e.zooKeeper = h.zooKeeper /\ e.global = {a} /\ e.spec = {<<a, r>>}
  <2> HIDE DEF g
  <2> QED
    BY <1>1 DEF Hashes
<1>3. Recorded(h, a, r) = e
  BY Zenon DEF Recorded
<1> HIDE DEF e
<1> QED
  BY <1>2, <1>3

\* Merging yields annotations with every wanted one; it yields exactly the wanted ones
\* if the claim has those that were applied last, or the wanted ones already.
LEMMA MergedFacts ==
    ASSUME NEW c, claims[c] \in Annotations, inst.applied \in Annotations,
           NEW wanted \in Annotations
    PROVE  /\ Merged(c, wanted) \in Annotations
           /\ \A k \in Keys : wanted[k] # 0 => Merged(c, wanted)[k] = wanted[k]
           /\ claims[c] \in {inst.applied, wanted} => Merged(c, wanted) = wanted
<1>1. Merged(c, wanted) \in Annotations
  BY DEF Merged, Annotations
<1>2. \A k \in Keys : wanted[k] # 0 => Merged(c, wanted)[k] = wanted[k]
  BY DEF Merged
<1>3. ASSUME claims[c] \in {inst.applied, wanted}
      PROVE  Merged(c, wanted) = wanted
  <2>1. \A k \in Keys : Merged(c, wanted)[k] = wanted[k]
    BY <1>3 DEF Merged, Annotations
  <2> QED
    BY <1>1, <2>1 DEF Annotations
<1> QED
  BY <1>1, <1>2, <1>3

\* What createPersistentVolumeClaim does to the claim, and that it spares the others.
LEMMA CreateFacts ==
    ASSUME TypeOK, NEW c \in Claim, NEW wanted \in Annotations,
           createPersistentVolumeClaim(c, wanted)
    PROVE  /\ exists' = exists \cup {c}
           /\ claims' \in [Claim -> Annotations]
           /\ \A d \in Claim \ {c} : claims'[d] = claims[d]
           /\ c \notin exists => claims'[c] = wanted
           /\ claims[c] \in {inst.applied, wanted} => claims'[c] = wanted
           /\ wanted # inst.applied => Covers(c, wanted)'
           /\ Covers(c, wanted) => Covers(c, wanted)'
<1>1. /\ claims \in [Claim -> Annotations] /\ claims[c] \in Annotations
      /\ inst.applied \in Annotations
  BY DEF TypeOK, Instance
<1>2. CASE c \notin exists
  <2>1. exists' = exists \cup {c} /\ claims' = [claims EXCEPT ![c] = wanted]
    BY <1>2 DEF createPersistentVolumeClaim
  <2> QED
    BY <1>1, <1>2, <2>1 DEF Covers
<1>3. CASE c \in exists /\ wanted = inst.applied
  <2>1. exists' = exists \cup {c} /\ claims' = claims
    BY <1>3 DEF createPersistentVolumeClaim, updatePersistentVolumeClaim
  <2> QED
    BY <1>1, <1>3, <2>1 DEF Covers
<1>4. CASE c \in exists /\ wanted # inst.applied
  <2>1. exists' = exists \cup {c} /\ claims' = [claims EXCEPT ![c] = Merged(c, wanted)]
    BY <1>4 DEF createPersistentVolumeClaim, updatePersistentVolumeClaim
  <2>2. claims'[c] = Merged(c, wanted) /\ \A d \in Claim \ {c} : claims'[d] = claims[d]
    BY <1>1, <2>1
  <2>3. claims' \in [Claim -> Annotations]
    BY <1>1, <2>1, MergedFacts
  <2> QED
    BY <1>1, <1>4, <2>1, <2>2, <2>3, MergedFacts DEF Covers
<1> QED
  BY <1>2, <1>3, <1>4

LEMMA WantedFacts ==
    ASSUME TypeOK
    PROVE  NewPersistentVolumeClaim \in Annotations /\ WantedForSnapshots \in Annotations
BY ClaimFacts DEF TypeOK, NewPersistentVolumeClaim, WantedForSnapshots, Instance

\* A step that handles a claim, or leaves the claims alone.
Handles(c, wanted) ==
    \/ UNCHANGED <<exists, claims>>
    \/ createPersistentVolumeClaim(c, wanted)

-----------------------------------------------------------------------------
(* Types.                                                                  *)

LEMMA AbortType ==
    ASSUME TypeOK, Abort, UNCHANGED <<apiVars, missed, undone>>,
           hashes' \in {hashes, NoHashes}, faults' \in Nat
    PROVE  TypeOK'
<1>1. /\ pc' = "idle" /\ server' = 1 /\ inst' = NoInstance /\ queued' = TRUE
      /\ cut' \in BOOLEAN
  BY DEF Abort, Returned, TypeOK, Instance
<1>2. hashes' \in Hashes /\ inst' \in Instance
  BY <1>1, ConstantFacts DEF TypeOK
<1> QED
  BY <1>1, <1>2 DEF TypeOK, apiVars, specVars

LEMMA BeginType ==
    ASSUME TypeOK, Begin
    PROVE  TypeOK'
<1> DEFINE b == hashes.spec # {<<annotations, replicas>>}
<1>1. /\ inst' \in Instance /\ inst'.replicas = replicas
      /\ pc' \in {"backup", "snapshots"} /\ server' = 1
  <2>1. b \in BOOLEAN
    OBVIOUS
  <2>2. inst' = [annotations |-> annotations, replicas |-> replicas, applied |-> applied,
                 edits |-> edits, changed |-> b]
    BY DEF Begin
  <2>3. pc' \in {"backup", "snapshots"} /\ server' = 1
    BY DEF Begin, TypeOK
  <2> HIDE DEF b
  <2> QED
    BY <2>1, <2>2, <2>3, FetchFacts DEF TypeOK
<1> QED
  BY <1>1, Zenon DEF Begin, TypeOK, apiVars, specVars

LEMMA HandlesType ==
    ASSUME TypeOK, NEW c \in Claim, NEW wanted \in Annotations, Handles(c, wanted)
    PROVE  /\ exists' \subseteq Claim /\ exists \subseteq exists'
           /\ claims' \in [Claim -> Annotations]
BY CreateFacts DEF Handles, TypeOK

LEMMA SnapshotsType ==
    ASSUME TypeOK, ProcessSnapshots \/ ProcessBackup
    PROVE  TypeOK'
<1>1. Handles(Snapshots, WantedForSnapshots)
  BY DEF Handles, ProcessSnapshots, ProcessBackup
<1>2. /\ exists' \subseteq Claim /\ exists \subseteq exists'
      /\ claims' \in [Claim -> Annotations]
  BY <1>1, HandlesType, WantedFacts, ClaimFacts, Zenon
<1>3. CASE ProcessSnapshots
  <2>1. inst.replicas \in ReplicaChoices
    BY <1>3, Zenon DEF ProcessSnapshots, TypeOK
  <2>2. 1 \in 1..inst.replicas
    BY <2>1, ClaimFacts
  <2> QED
    BY <1>2, <1>3, <2>2 DEF ProcessSnapshots, TypeOK, specVars
<1>4. CASE ProcessBackup
  BY <1>2, <1>4 DEF ProcessBackup, TypeOK, specVars
<1> QED
  BY <1>3, <1>4, Zenon

LEMMA ServerFacts ==
    ASSUME TypeOK, pc = "servers"
    PROVE  /\ inst.replicas \in ReplicaChoices /\ inst.replicas \in Nat
           /\ server \in 1..inst.replicas /\ server \in Nat /\ server >= 1
           /\ server \in Claim /\ server # Snapshots
BY ClaimFacts DEF TypeOK, Snapshots, ServerClaim

LEMMA ServerType ==
    ASSUME TypeOK, ProcessServer
    PROVE  TypeOK'
<1>1. Handles(server, NewPersistentVolumeClaim) /\ pc = "servers"
  BY DEF Handles, ProcessServer
<1>2. /\ exists' \subseteq Claim /\ exists \subseteq exists'
      /\ claims' \in [Claim -> Annotations]
  BY <1>1, HandlesType, WantedFacts, ServerFacts, Zenon
<1>3. CASE server < inst.replicas
  <2>1. server' = server + 1 /\ UNCHANGED <<pc, inst>>
    BY <1>3 DEF ProcessServer, AfterServer
  <2>2. server' \in 1..inst'.replicas
    BY <1>1, <1>3, <2>1, ServerFacts
  <2> QED
    BY <1>1, <1>2, <2>1, <2>2 DEF ProcessServer, TypeOK, specVars
<1>4. CASE ~(server < inst.replicas)
  <2>1. server' = 1 /\ pc' = "status" /\ inst' = inst
    BY <1>4 DEF ProcessServer, AfterServer
  <2> QED
    BY <1>1, <1>2, <2>1 DEF ProcessServer, TypeOK, specVars
<1> QED
  BY <1>3, <1>4

LEMMA ZooKeeperStatusType ==
    ASSUME TypeOK, updateZooKeeperStatus
    PROVE  TypeOK'
<1>1. CASE Abort /\ UNCHANGED hashes
  BY <1>1, AbortType DEF updateZooKeeperStatus, TypeOK
<1>2. CASE /\ hashes' = [hashes EXCEPT !.zooKeeper = {inst.replicas}]
           /\ pc' = "backup"
           /\ UNCHANGED <<queued, server, inst, cut>>
  <2>1. inst.replicas \in ReplicaChoices /\ server = 1
    BY DEF updateZooKeeperStatus, TypeOK
  <2>2. hashes' \in Hashes
    BY <1>2, <2>1, RecordServersFacts DEF TypeOK
  <2> QED
    BY <1>2, <2>1, <2>2 DEF updateZooKeeperStatus, TypeOK, apiVars, specVars
<1> QED
  BY <1>1, <1>2, Zenon DEF updateZooKeeperStatus

LEMMA UpdateStatusType ==
    ASSUME TypeOK, updateStatus
    PROVE  TypeOK'
<1>1. CASE ~Changing
  BY <1>1 DEF updateStatus, TypeOK, specVars
<1>2. CASE Changing /\ inst.edits = edits
  <2>1. inst.annotations \in Annotations
    BY DEF TypeOK, Instance
  <2>2. /\ applied' = inst.annotations /\ pc = "publish" /\ pc' = "finish"
        /\ inst' = [inst EXCEPT !.applied = inst.annotations]
        /\ missed' = missed \cup {c \in exists \cap ServerClaim : c > inst.replicas}
    BY <1>2 DEF updateStatus
  <2>3. inst' \in Instance /\ inst'.replicas = inst.replicas
    BY <2>1, <2>2, PublishFacts DEF TypeOK
  <2>4. missed' \subseteq ServerClaim
    BY <2>2 DEF TypeOK
  <2> QED
    BY <1>2, <2>1, <2>2, <2>3, <2>4, Zenon DEF updateStatus, TypeOK, specVars
<1>3. CASE Changing /\ inst.edits # edits
  BY <1>3, AbortType DEF updateStatus, apiVars, specVars, TypeOK
<1> QED
  BY <1>1, <1>2, <1>3

LEMMA FinishType ==
    ASSUME TypeOK, Finish
    PROVE  TypeOK'
<1>1. CASE Abort /\ UNCHANGED hashes
  BY <1>1, AbortType DEF Finish, TypeOK
<1>2. CASE /\ hashes' = [hashes EXCEPT !.global = {inst.annotations},
                                       !.spec = {<<inst.annotations, inst.replicas>>}]
           /\ Returned
           /\ UNCHANGED <<queued, cut>>
  <2>1. inst.annotations \in Annotations /\ inst.replicas \in ReplicaChoices
    BY DEF Finish, TypeOK, Instance
  <2>2. hashes' = Recorded(hashes, inst.annotations, inst.replicas)
    BY <1>2, Zenon DEF Recorded
  <2>3. hashes' \in Hashes
    BY <2>1, <2>2, RecordFacts, Zenon DEF TypeOK
  <2>4. pc' = "idle" /\ server' = 1 /\ inst' \in Instance
    BY <1>2, ConstantFacts DEF Returned
  <2> QED
    BY <1>2, <2>4, <2>3 DEF Finish, TypeOK, apiVars, specVars
<1> QED
  BY <1>1, <1>2 DEF Finish

LEMMA EditType ==
    ASSUME TypeOK, Edit
    PROVE  TypeOK'
<1>1. annotations' \in Annotations
  <2>1. CASE \E k \in Keys, v \in {0, edits + 1} :
                annotations' = [annotations EXCEPT ![k] = v]
    BY <2>1 DEF TypeOK, Annotations
  <2>2. CASE annotations' \in {applied} \cup hashes.global
    BY <2>2, Zenon DEF TypeOK, Hashes
  <2> QED
    BY <2>1, <2>2 DEF Edit, TypeOK
<1>2. replicas' \in ReplicaChoices /\ edits' \in Nat /\ undone' \in BOOLEAN
  BY DEF Edit, TypeOK
<1> QED
  BY <1>1, <1>2 DEF Edit, TypeOK, callVars

LEMMA InitType == Init => TypeOK
<1> SUFFICES ASSUME Init PROVE TypeOK
  OBVIOUS
<1>1. claims \in [Claim -> Annotations] /\ exists \subseteq Claim
  BY ClaimFacts DEF Init, Annotations, NoAnnotations
<1> QED
  BY <1>1, ConstantFacts, Zenon DEF Init, TypeOK

LEMMA StepType ==
    ASSUME TypeOK, [Next]_vars
    PROVE  TypeOK'
<1>1. CASE Panic \/ StatusConflict
  BY <1>1, AbortType DEF Panic, StatusConflict, TypeOK
<1>2. CASE CallFails \/ Restart
  BY <1>2, AbortType DEF CallFails, Restart, TypeOK
<1>3. CASE \E c \in Claim : Bind(c)
  BY <1>3, Zenon DEF Bind, TypeOK, specVars, callVars
<1>4. CASE UNCHANGED vars
  BY <1>4 DEF vars, apiVars, specVars, callVars, TypeOK
<1> QED
  BY <1>1, <1>2, <1>3, <1>4, BeginType, SnapshotsType, ServerType, ZooKeeperStatusType,
     UpdateStatusType, FinishType, EditType, Zenon
  DEF Next, OperatorStep

\* The state of the claims model keeps its type; the loop over the servers stays
\* within the servers of the instance.
THEOREM TypeCorrect == Spec => []TypeOK
BY InitType, StepType, PTL DEF Spec

-----------------------------------------------------------------------------
(* A call that is cut short.                                               *)

\* A call for an unchanged spec works on the annotations that were applied last.
LEMMA UnchangedFacts ==
    ASSUME ClaimsInv, pc # "idle", ~inst.changed, ~cut
    PROVE  inst.annotations = applied /\ hashes.global = {inst.annotations}
<1>1. hashes.spec = {<<inst.annotations, inst.replicas>>}
  BY DEF ClaimsInv, CallInv
<1>2. hashes.global = {inst.annotations}
  BY <1>1 DEF ClaimsInv, CallInv
<1>3. \A a \in hashes.global : a = applied
  BY DEF ClaimsInv, FollowInv
<1> QED
  BY <1>2, <1>3

LEMMA AbortInv ==
    ASSUME TypeOK, ClaimsInv, Abort, UNCHANGED <<apiVars, missed, undone>>,
           hashes' \in {hashes, NoHashes}
    PROVE  ClaimsInv'
<1>1. /\ pc' = "idle" /\ inst' = NoInstance /\ queued' = TRUE
      /\ cut' = (cut \/ inst.changed)
      /\ UNCHANGED <<annotations, replicas, storage, edits, applied, exists, claims>>
      /\ Kept' = Kept /\ \A c : ~Handled(c)'
  BY DEF Abort, Returned, apiVars, specVars, Kept, Handled
<1>2. /\ hashes'.global \in {hashes.global, {}}
      /\ hashes'.zooKeeper \in {hashes.zooKeeper, {}}
      /\ \/ hashes'.spec = {}
         \/ hashes'.spec = hashes.spec /\ hashes'.global = hashes.global
  BY ConstantFacts, Zenon
<1>3. CallInv'
  BY <1>1, <1>2, Zenon DEF ClaimsInv, CallInv, AtRest
<1>4. ExistInv'
  BY <1>1, <1>2 DEF ClaimsInv, ExistInv
<1>5. FollowInv'
  <2> SUFFICES ASSUME ~cut'
               PROVE  /\ \A a \in hashes'.global : a = applied
                      /\ \A c \in Kept : claims[c] = applied
    BY <1>1 DEF FollowInv
  <2>1. ~cut /\ ~inst.changed
    BY <1>1, Zenon
  <2>2. \A a \in hashes'.global : a = applied
    BY <1>2, <2>1 DEF ClaimsInv, FollowInv
  <2>3. CASE pc = "idle"
    BY <2>1, <2>2, <2>3 DEF ClaimsInv, FollowInv, Handled
  <2>4. CASE pc # "idle"
    BY <2>1, <2>2, <2>4, UnchangedFacts DEF ClaimsInv, FollowInv
  <2> QED
    BY <2>3, <2>4, Zenon
<1>6. CoverInv'
  <2>1. \A c : Covers(c, annotations)' <=> Covers(c, annotations)
    BY <1>1 DEF Covers
  <2> QED
    BY <1>1, <1>2, <2>1 DEF ClaimsInv, CoverInv
<1> QED
  BY <1>3, <1>4, <1>5, <1>6 DEF ClaimsInv

-----------------------------------------------------------------------------
(* The steps of a cycle.                                                   *)

LEMMA BeginInv ==
    ASSUME TypeOK, ClaimsInv, Begin
    PROVE  ClaimsInv'
<1> DEFINE closed == hashes.global = {annotations} /\ hashes.zooKeeper = {replicas}
           b == hashes.spec # {<<annotations, replicas>>}
<1>1. /\ UNCHANGED <<annotations, replicas, storage, edits, applied, exists, claims, hashes,
                     missed, cut, undone>>
      /\ Kept' = Kept
      /\ pc = "idle" /\ pc' = IF closed THEN "backup" ELSE "snapshots"
  BY DEF Begin, apiVars, specVars, Kept
<1>2. /\ inst'.annotations = annotations /\ inst'.replicas = replicas
      /\ inst'.applied = applied /\ inst'.edits = edits /\ inst'.changed = b
  <2>1. inst' = [annotations |-> annotations, replicas |-> replicas, applied |-> applied,
                 edits |-> edits, changed |-> b]
    BY DEF Begin
  <2>2. b \in BOOLEAN
    BY Zenon
  <2> HIDE DEF b
  <2> QED
    BY <2>1, <2>2, FetchFacts, Zenon DEF TypeOK
<1>3. CallInv'
  BY <1>1, <1>2 DEF ClaimsInv, CallInv, AtRest, TypeOK
<1>4. ExistInv'
  BY <1>1, <1>2 DEF ClaimsInv, ExistInv
<1>5. closed => (~cut \/ ~undone => annotations = applied)
  BY <1>1 DEF ClaimsInv, FollowInv, CoverInv
<1>6. \A c : Handled(c)' => closed
  BY <1>1 DEF Handled
<1>7. FollowInv'
  <2> SUFFICES ASSUME ~cut
               PROVE  /\ \A a \in hashes.global : a = applied
                      /\ \A c \in Kept : claims[c] = IF Handled(c)' THEN annotations
                                                     ELSE applied
    BY <1>1, <1>2, Zenon DEF FollowInv
  <2>1. /\ \A a \in hashes.global : a = applied
        /\ \A c \in Kept : claims[c] = applied
    BY <1>1, Zenon DEF ClaimsInv, FollowInv, Handled
  <2> HIDE DEF closed
  <2> QED
    BY <1>5, <1>6, <2>1, Zenon
<1>8. CoverInv'
  <2> SUFFICES ASSUME ~undone
               PROVE  CoverInv'
    BY <1>1, Zenon DEF CoverInv
  <2>1. /\ annotations \in hashes.global => annotations = applied
        /\ annotations = applied => \A c \in Kept : Covers(c, annotations)
    BY Zenon DEF ClaimsInv, CoverInv
  <2>2. \A c : /\ Covers(c, annotations)' <=> Covers(c, annotations)
               /\ Covers(c, inst.annotations)' <=> Covers(c, annotations)
    BY <1>1, <1>2, Zenon DEF Covers
  <2> HIDE DEF closed
  <2> QED
    BY <1>1, <1>2, <1>5, <1>6, <2>1, <2>2, Zenon DEF CoverInv
<1> QED
  BY <1>3, <1>4, <1>7, <1>8 DEF ClaimsInv

\* A step that handles a claim of the operator.
LEMMA HandleStep ==
    ASSUME TypeOK, ClaimsInv, NEW c \in Claim, pc \notin {"idle", "finish"},
           pc' \notin {"idle", "finish"},
           ~(c = Snapshots /\ storage = "predefined_claim"),
           createPersistentVolumeClaim(c, inst.annotations),
           UNCHANGED <<annotations, storage, applied, inst, missed, cut, undone>>,
           hashes'.global = hashes.global,
           Handled(c)', \A d \in Claim \ {c} : Handled(d)' <=> Handled(d)
    PROVE  FollowInv' /\ CoverInv'
<1>1. inst.annotations \in Annotations /\ inst.applied = applied /\ exists \subseteq Claim
  BY Zenon DEF TypeOK, Instance, ClaimsInv, CallInv
<1>2. /\ exists' = exists \cup {c}
      /\ \A d \in Claim \ {c} : claims'[d] = claims[d]
      /\ c \notin exists => claims'[c] = inst.annotations
      /\ claims[c] \in {applied, inst.annotations} => claims'[c] = inst.annotations
      /\ inst.annotations # applied => Covers(c, inst.annotations)'
      /\ Covers(c, inst.annotations) => Covers(c, inst.annotations)'
  BY <1>1, CreateFacts, Zenon
<1>3. /\ Kept' \subseteq Claim /\ \A d \in Kept' : d = c \/ (d \in Kept /\ d # c)
      /\ c \in Kept' => c \in Kept \/ c \notin exists
  BY <1>1, <1>2, Zenon DEF Kept
<1>4. FollowInv'
  <2> SUFFICES ASSUME ~cut
               PROVE  /\ \A a \in hashes.global : a = applied
                      /\ \A d \in Kept' : claims'[d] = IF Handled(d)' THEN inst.annotations
                                                       ELSE applied
    BY Zenon DEF FollowInv
  <2>1. /\ \A a \in hashes.global : a = applied
        /\ \A d \in Kept : claims[d] = IF Handled(d) THEN inst.annotations ELSE applied
    BY Zenon DEF ClaimsInv, FollowInv
  <2> QED
    BY <1>2, <1>3, <2>1, Zenon
<1>5. CoverInv'
  <2> SUFFICES ASSUME ~undone
               PROVE  CoverInv'
    BY Zenon DEF CoverInv
  <2>1. /\ annotations \in hashes.global => annotations = applied
        /\ annotations = applied => \A d \in Kept : Covers(d, annotations)
        /\ inst.annotations # applied => annotations # applied
        /\ inst.annotations \in hashes.global => inst.annotations = applied
        /\ inst.annotations = applied => \A d \in Kept : Covers(d, inst.annotations)
        /\ \A d \in Kept : Handled(d) => Covers(d, inst.annotations)
    BY Zenon DEF ClaimsInv, CoverInv
  <2>2. \A d \in Claim \ {c} :
           /\ Covers(d, annotations)' <=> Covers(d, annotations)
           /\ Covers(d, inst.annotations)' <=> Covers(d, inst.annotations)
    BY <1>2 DEF Covers
  <2>3. c \in Kept' => Covers(c, inst.annotations)'
    BY <1>2, <1>3, <2>1, Zenon DEF Covers
  <2>4. annotations = applied => inst.annotations = annotations
    BY <2>1, Zenon
  <2>5. annotations = applied => \A d \in Kept' : Covers(d, annotations)'
    BY <1>3, <2>1, <2>2, <2>3, <2>4 DEF Covers
  <2>6. inst.annotations = applied => \A d \in Kept' : Covers(d, inst.annotations)'
    BY <1>3, <2>1, <2>2, <2>3, Zenon
  <2>7. \A d \in Kept' : Handled(d)' => Covers(d, inst.annotations)'
    BY <1>3, <2>1, <2>2, <2>3, Zenon
  <2> QED
    BY <2>1, <2>5, <2>6, <2>7, Zenon DEF CoverInv
<1> QED
  BY <1>4, <1>5, Zenon

\* A step that passes claims by: none of its own, or the annotations are in place.
LEMMA SkipStep ==
    ASSUME TypeOK, ClaimsInv, pc \notin {"idle", "finish"}, pc' \notin {"idle", "finish"},
           UNCHANGED <<annotations, storage, applied, inst, missed, cut, undone>>,
           hashes'.global = hashes.global,
           Kept' = Kept, \A d \in Kept : claims'[d] = claims[d],
           \A d \in Kept : \/ Handled(d)' <=> Handled(d)
                           \/ ~cut \/ ~undone => inst.annotations = applied
    PROVE  FollowInv' /\ CoverInv'
<1>1. FollowInv'
  <2> SUFFICES ASSUME ~cut
               PROVE  /\ \A a \in hashes.global : a = applied
                      /\ \A d \in Kept : claims'[d] = IF Handled(d)' THEN inst.annotations
                                                      ELSE applied
    BY Zenon DEF FollowInv
  <2> QED
    BY Zenon DEF ClaimsInv, FollowInv
<1>2. CoverInv'
  <2> SUFFICES ASSUME ~undone
               PROVE  CoverInv'
    BY Zenon DEF CoverInv
  <2>1. \A d \in Kept : /\ Covers(d, annotations)' <=> Covers(d, annotations)
                        /\ Covers(d, inst.annotations)' <=> Covers(d, inst.annotations)
    BY Zenon DEF Covers
  <2> QED
    BY <2>1, Zenon DEF ClaimsInv, CoverInv
<1> QED
  BY <1>1, <1>2, Zenon

\* The update that a predefined claim is sent through changes nothing.
LEMMA PredefinedFacts ==
    ASSUME TypeOK, storage = "predefined_claim",
           createPersistentVolumeClaim(Snapshots, WantedForSnapshots)
    PROVE  /\ \A c \in Claim : claims'[c] = claims[c]
           /\ exists' = exists \cup {Snapshots}
<1>1. WantedForSnapshots = claims[Snapshots] /\ WantedForSnapshots \in Annotations
  BY WantedFacts DEF WantedForSnapshots
<1> QED
  BY <1>1, ClaimFacts, CreateFacts

LEMMA SnapshotsInv ==
    ASSUME TypeOK, ClaimsInv, ProcessSnapshots
    PROVE  ClaimsInv'
<1>1. /\ pc = "snapshots" /\ pc' = "servers" /\ server = 1 /\ server' = 1
      /\ UNCHANGED <<annotations, replicas, storage, edits, applied, queued, hashes, inst,
                     missed, cut, undone>>
      /\ exists \subseteq exists'
  <2>1. Handles(Snapshots, WantedForSnapshots)
    BY DEF Handles, ProcessSnapshots
  <2> QED
    BY <2>1, HandlesType, WantedFacts, ClaimFacts DEF ProcessSnapshots, specVars, TypeOK
<1>2. \A c : /\ ~Handled(c)
             /\ Handled(c)' <=> c = Snapshots /\ storage # "standalone"
  BY <1>1 DEF Handled
<1>3. CallInv'
  BY <1>1 DEF ClaimsInv, CallInv, AtRest
<1>4. 1..(server' - 1) = {}
  BY <1>1
<1>5. CASE storage \in {"", "standalone"}
  <2>1. UNCHANGED <<exists, claims>> /\ Kept' = Kept
    BY <1>1, <1>5 DEF ProcessSnapshots, Kept
  <2>2. ExistInv'
    BY <1>1, <1>5, <1>4, <2>1 DEF ClaimsInv, ExistInv
  <2>3. \A c \in Kept : Handled(c)' <=> Handled(c)
    BY <1>2, <1>5 DEF Kept, ClaimsInv, ExistInv
  <2> QED
    BY <1>1, <1>3, <2>1, <2>2, <2>3, SkipStep, Zenon DEF ClaimsInv
<1>6. CASE storage \notin {"", "standalone"}
  <2>1. createPersistentVolumeClaim(Snapshots, WantedForSnapshots)
    BY <1>6 DEF ProcessSnapshots
  <2>2. exists' = exists \cup {Snapshots}
    BY <2>1, CreateFacts, WantedFacts, ClaimFacts, Zenon
  <2>3. ExistInv'
    BY <1>1, <1>6, <1>4, <2>2 DEF ClaimsInv, ExistInv
  <2>4. CASE storage = "predefined_claim"
    <3>1. Kept' = Kept /\ \A c \in Kept : claims'[c] = claims[c] /\ c # Snapshots
      BY <1>1, <2>1, <2>4, PredefinedFacts, Zenon DEF Kept, TypeOK
    <3> QED
      BY <1>1, <1>2, <1>3, <2>3, <3>1, SkipStep, Zenon DEF ClaimsInv
  <2>5. CASE storage # "predefined_claim"
    <3>1. createPersistentVolumeClaim(Snapshots, inst.annotations)
      BY <2>1, <2>5, Zenon DEF WantedForSnapshots, NewPersistentVolumeClaim
    <3> QED
      BY <1>1, <1>2, <1>3, <1>6, <2>3, <2>5, <3>1, ClaimFacts, HandleStep DEF ClaimsInv
  <2> QED
    BY <2>4, <2>5
<1> QED
  BY <1>5, <1>6

LEMMA ServerInv ==
    ASSUME TypeOK, ClaimsInv, ProcessServer
    PROVE  ClaimsInv'
<1>1. /\ pc = "servers" /\ pc' \in {"servers", "status"}
      /\ UNCHANGED <<annotations, replicas, storage, edits, applied, queued, hashes, inst,
                     missed, cut, undone>>
      /\ createPersistentVolumeClaim(server, inst.annotations)
  BY Zenon DEF ProcessServer, AfterServer, specVars, NewPersistentVolumeClaim
<1>2. exists' = exists \cup {server}
  BY <1>1, CreateFacts, WantedFacts, ServerFacts, Zenon DEF NewPersistentVolumeClaim
<1>3. \/ server < inst.replicas /\ pc' = "servers" /\ server' = server + 1
      \/ server = inst.replicas /\ pc' = "status" /\ server' = 1
  <2>1. CASE server < inst.replicas
    BY <1>1, <2>1 DEF ProcessServer, AfterServer
  <2>2. CASE ~(server < inst.replicas)
    <3>1. pc' = "status" /\ server' = 1
      BY <2>2, Zenon DEF ProcessServer, AfterServer
    <3>2. server = inst.replicas
      BY <1>1, <2>2, ServerFacts
    <3> QED
      BY <3>1, <3>2
  <2> QED
    BY <2>1, <2>2
<1>4. CallInv'
  BY <1>1, <1>3, Zenon DEF ClaimsInv, CallInv, AtRest
<1>5. /\ inst.replicas \in Nat /\ server \in 1..inst.replicas
      /\ server \in Claim /\ server # Snapshots
  BY <1>1, ServerFacts, Zenon
<1>6. /\ \A x : x \in 1..server <=> x = server \/ x \in 1..(server - 1)
      /\ (server + 1) - 1 = server /\ Snapshots \notin 1..inst.replicas
  BY <1>1, ServerFacts DEF Snapshots
<1>7. 1..server \subseteq exists' /\ exists \subseteq exists'
  BY <1>1, <1>2, <1>6 DEF ClaimsInv, ExistInv
<1> SUFFICES ASSUME NEW c \in Claim, c = server
             PROVE  ClaimsInv'
  BY <1>5, Zenon
<1>8. CASE server < inst.replicas
  <2>1. pc' = "servers" /\ server' - 1 = server
    BY <1>3, <1>6, <1>8, <1>5
  <2>2. ExistInv'
    BY <1>1, <1>2, <1>7, <2>1, <1>5 DEF ClaimsInv, ExistInv
  <2>3. Handled(c)' /\ \A d \in Claim \ {c} : Handled(d)' <=> Handled(d)
    BY <1>1, <1>6, <1>5, <2>1, Zenon DEF Handled
  <2> QED
    BY <1>1, <1>3, <1>4, <2>1, <2>2, <2>3, <1>5, HandleStep, Zenon DEF ClaimsInv
<1>9. CASE server = inst.replicas
  <2>1. pc' = "status"
    BY <1>3, <1>9, <1>5
  <2>2. ExistInv'
    BY <1>1, <1>2, <1>3, <1>7, <1>9, <2>1, <1>5 DEF ClaimsInv, ExistInv
  <2>3. Handled(c)' /\ \A d \in Claim \ {c} : Handled(d)' <=> Handled(d)
    BY <1>1, <1>6, <1>9, <1>5, <2>1, Zenon DEF Handled
  <2> QED
    BY <1>1, <1>3, <1>4, <2>1, <2>2, <2>3, <1>5, HandleStep, Zenon DEF ClaimsInv
<1> QED
  BY <1>3, <1>8, <1>9

LEMMA ZooKeeperStatusInv ==
    ASSUME TypeOK, ClaimsInv, updateZooKeeperStatus
    PROVE  ClaimsInv'
<1>1. CASE Abort /\ UNCHANGED hashes
  BY <1>1, AbortInv, Zenon DEF updateZooKeeperStatus
<1>2. CASE /\ hashes' = [hashes EXCEPT !.zooKeeper = {inst.replicas}]
           /\ pc' = "backup"
           /\ UNCHANGED <<queued, server, inst, cut>>
  <2>1. /\ pc = "status" /\ pc' = "backup"
        /\ UNCHANGED <<annotations, replicas, storage, edits, applied, exists, claims, queued,
                       inst, missed, cut, undone>>
    BY <1>2, Zenon DEF updateZooKeeperStatus, apiVars, specVars
  <2>2. /\ hashes'.global = hashes.global /\ hashes'.spec = hashes.spec
        /\ hashes'.zooKeeper = {inst.replicas}
    <3>1. hashes \in Hashes /\ inst.replicas \in ReplicaChoices
      BY <2>1 DEF TypeOK
    <3> QED
      BY <1>2, <3>1, RecordServersFacts
  <2>3. Kept' = Kept /\ \A c : Handled(c)' <=> Handled(c)
    BY <2>1, Zenon DEF Kept, Handled
  <2>4. CallInv'
    BY <2>1, <2>2, Zenon DEF ClaimsInv, CallInv, AtRest
  <2>5. ExistInv'
    BY <2>1, <2>2 DEF ClaimsInv, ExistInv
  <2> QED
    BY <2>1, <2>2, <2>3, <2>4, <2>5, SkipStep, Zenon DEF ClaimsInv
<1> QED
  BY <1>1, <1>2, Zenon DEF updateZooKeeperStatus

LEMMA BackupInv ==
    ASSUME TypeOK, ClaimsInv, ProcessBackup
    PROVE  ClaimsInv'
<1>1. /\ pc = "backup" /\ pc' = "publish"
      /\ UNCHANGED <<annotations, replicas, storage, edits, applied, queued, hashes, inst,
                     missed, cut, undone>>
      /\ exists \subseteq exists'
  <2>1. Handles(Snapshots, WantedForSnapshots)
    BY DEF Handles, ProcessBackup
  <2> QED
    BY <2>1, HandlesType, WantedFacts, ClaimFacts DEF ProcessBackup, specVars
<1>2. /\ Handled(Snapshots)'
      /\ \A c : c # Snapshots \/ storage # "standalone" => (Handled(c)' <=> Handled(c))
  BY <1>1, Zenon DEF Handled
<1>3. CallInv'
  BY <1>1, Zenon DEF ClaimsInv, CallInv, AtRest
<1>4. CASE storage = "" \/ hashes.global = {inst.annotations}
  <2>1. UNCHANGED <<exists, claims>> /\ Kept' = Kept
    BY <1>1, <1>4 DEF ProcessBackup, Kept
  <2>2. ExistInv'
    BY <1>1, <1>4, <2>1 DEF ClaimsInv, ExistInv
  <2>3. hashes.global = {inst.annotations} =>
           (~cut \/ ~undone => inst.annotations = applied)
    BY <1>1, Zenon DEF ClaimsInv, FollowInv, CoverInv
  <2> QED
    BY <1>1, <1>2, <1>3, <1>4, <2>1, <2>2, <2>3, SkipStep DEF ClaimsInv
<1>5. CASE ~(storage = "" \/ hashes.global = {inst.annotations})
  <2>1. createPersistentVolumeClaim(Snapshots, WantedForSnapshots) /\ storage # ""
    BY <1>5 DEF ProcessBackup
  <2>2. exists' = exists \cup {Snapshots}
    BY <2>1, CreateFacts, WantedFacts, ClaimFacts
  <2>3. ExistInv'
    BY <1>1, <2>1, <2>2 DEF ClaimsInv, ExistInv
  <2>4. CASE storage = "predefined_claim"
    <3>1. Kept' = Kept /\ \A c \in Kept : claims'[c] = claims[c] /\ c # Snapshots
      BY <1>1, <2>1, <2>4, PredefinedFacts, Zenon DEF Kept, TypeOK
    <3> QED
      BY <1>1, <1>2, <1>3, <2>3, <3>1, SkipStep, Zenon DEF ClaimsInv
  <2>5. CASE storage # "predefined_claim"
    <3>1. createPersistentVolumeClaim(Snapshots, inst.annotations)
      BY <2>1, <2>5 DEF WantedForSnapshots, NewPersistentVolumeClaim
    <3> QED
      BY <1>1, <1>2, <1>3, <2>3, <2>5, <3>1, ClaimFacts, HandleStep, Zenon DEF ClaimsInv
  <2> QED
    BY <2>4, <2>5
<1> QED
  BY <1>4, <1>5

LEMMA UpdateStatusInv ==
    ASSUME TypeOK, ClaimsInv, updateStatus
    PROVE  ClaimsInv'
<1>1. /\ pc = "publish"
      /\ UNCHANGED <<annotations, replicas, storage, edits, exists, claims, hashes, undone>>
      /\ inst.applied = applied
  BY DEF updateStatus, specVars, ClaimsInv, CallInv
<1>2. CASE ~Changing
  <2>1. /\ pc' = "finish" /\ UNCHANGED <<applied, inst, missed, cut, queued>>
        /\ inst.annotations = applied
    BY <1>1, <1>2, Zenon DEF updateStatus, Changing
  <2>2. Kept' = Kept /\ \A c : Handled(c)' <=> Handled(c)
    BY <1>1, <2>1, Zenon DEF Kept, Handled
  <2>3. CallInv' /\ ExistInv'
    BY <1>1, <2>1 DEF ClaimsInv, CallInv, ExistInv, AtRest
  <2>4. FollowInv'
    BY <1>1, <2>1, <2>2, Zenon DEF ClaimsInv, FollowInv
  <2>5. CoverInv'
    BY <1>1, <2>1, <2>2, Zenon DEF ClaimsInv, CoverInv, Covers
  <2> QED
    BY <2>3, <2>4, <2>5 DEF ClaimsInv
<1>3. CASE Changing /\ inst.edits = edits
  <2>1. /\ pc' = "finish" /\ UNCHANGED <<cut, queued>>
        /\ applied' = inst.annotations
        /\ inst.annotations = annotations /\ inst.annotations # applied
        /\ missed' = missed \cup {c \in exists \cap ServerClaim : c > inst.replicas}
    BY <1>1, <1>3 DEF updateStatus, Changing, ClaimsInv, CallInv
  <2>2. /\ inst'.annotations = annotations /\ inst'.applied = annotations
        /\ inst'.replicas = inst.replicas /\ inst'.edits = inst.edits
        /\ inst'.changed = inst.changed
    <3>1. inst' = [inst EXCEPT !.applied = inst.annotations]
      BY <1>1, <1>3, Zenon DEF updateStatus
    <3>2. inst \in Instance /\ inst.annotations \in Annotations
      BY Zenon DEF TypeOK, Instance
    <3> QED
      BY <2>1, <3>1, <3>2, PublishFacts
  <2>3. \A c \in Kept' : c \in Kept /\ Handled(c)
    <3>1. inst.replicas \in Nat /\ exists \subseteq {Snapshots} \cup ServerClaim
      BY <1>1, ClaimFacts, Zenon DEF TypeOK, Claim
    <3>2. \A c \in ServerClaim : c \in Nat /\ c >= 1
      BY ServersAssumption DEF ServerClaim
    <3> QED
      BY <1>1, <2>1, <3>1, <3>2 DEF Kept, Handled
  <2>4. CallInv' /\ ExistInv'
    BY <1>1, <2>1, <2>2 DEF ClaimsInv, CallInv, ExistInv, AtRest
  <2>5. FollowInv'
    <3>1. ~cut => inst.changed
      BY <1>1, <2>1, UnchangedFacts, Zenon DEF TypeOK, Instance
    <3> QED
      BY <1>1, <2>1, <2>2, <2>3, <3>1, Zenon DEF ClaimsInv, FollowInv
  <2>6. CoverInv'
    <3>1. ~undone => \A c \in Kept' : Covers(c, annotations)
      BY <1>1, <2>1, <2>3, Zenon DEF ClaimsInv, CoverInv
    <3>2. \A c : /\ Covers(c, annotations)' <=> Covers(c, annotations)
                 /\ Covers(c, inst.annotations)' <=> Covers(c, annotations)
      BY <1>1, <2>2 DEF Covers
    <3> QED
      BY <1>1, <2>1, <2>2, <3>1, <3>2, Zenon DEF CoverInv
  <2> QED
    BY <2>4, <2>5, <2>6 DEF ClaimsInv
<1>4. CASE Changing /\ inst.edits # edits
  BY <1>4, AbortInv DEF updateStatus, apiVars, specVars
<1> QED
  BY <1>2, <1>3, <1>4

LEMMA FinishInv ==
    ASSUME TypeOK, ClaimsInv, Finish
    PROVE  ClaimsInv'
<1>1. CASE Abort /\ UNCHANGED hashes
  BY <1>1, AbortInv, Zenon DEF Finish
<1>2. CASE /\ hashes' = [hashes EXCEPT !.global = {inst.annotations},
                                       !.spec = {<<inst.annotations, inst.replicas>>}]
           /\ Returned
           /\ UNCHANGED <<queued, cut>>
  <2>1. /\ pc = "finish" /\ pc' = "idle" /\ inst' = NoInstance
        /\ UNCHANGED <<annotations, replicas, storage, edits, applied, queued, exists, claims,
                       missed, cut, undone>>
        /\ inst.annotations = applied /\ hashes.zooKeeper = {inst.replicas}
    BY <1>2 DEF Finish, Returned, apiVars, specVars, ClaimsInv, CallInv, ExistInv
  <2>2. /\ hashes'.zooKeeper = {inst.replicas} /\ hashes'.global = {applied}
        /\ hashes'.spec = {<<applied, inst.replicas>>}
    <3>1. /\ hashes \in Hashes /\ inst.annotations \in Annotations
          /\ inst.replicas \in ReplicaChoices
      BY <2>1 DEF TypeOK, Instance
    <3>2. hashes' = Recorded(hashes, inst.annotations, inst.replicas)
      BY <1>2, Zenon DEF Recorded
    <3> QED
      BY <2>1, <3>1, <3>2, RecordFacts
  <2>3. Kept' = Kept /\ \A c : ~Handled(c)'
    BY <2>1, Zenon DEF Kept, Handled
  <2>4. CallInv'
    <3>1. ~queued => inst.edits = edits
      BY <2>1, Zenon DEF ClaimsInv, CallInv
    <3>2. ~queued => inst.annotations = annotations /\ inst.replicas = replicas
      BY <2>1, <3>1, Zenon DEF ClaimsInv, CallInv
    <3>3. \A p \in hashes'.spec : hashes'.spec = {p} /\ hashes'.global = {p[1]}
      BY <2>2
    <3>4. AtRest' => /\ hashes'.spec = {<<annotations', replicas'>>}
                     /\ hashes'.zooKeeper = {replicas'}
                     /\ applied' = annotations'
      BY <2>1, <2>2, <3>2, Zenon DEF AtRest
    <3> QED
      BY <2>1, <3>3, <3>4, Zenon DEF CallInv
  <2>5. ExistInv'
    BY <2>1, <2>2 DEF ClaimsInv, ExistInv
  <2>6. FollowInv'
    BY <2>1, <2>2, <2>3, Zenon DEF ClaimsInv, FollowInv
  <2>7. CoverInv'
    BY <2>1, <2>2, <2>3, Zenon DEF ClaimsInv, CoverInv, Covers
  <2> QED
    BY <2>4, <2>5, <2>6, <2>7 DEF ClaimsInv
<1> QED
  BY <1>1, <1>2 DEF Finish

-----------------------------------------------------------------------------
(* The environment, and the theorems.                                      *)

LEMMA EditInv ==
    ASSUME TypeOK, ClaimsInv, Edit
    PROVE  ClaimsInv'
<1>1. /\ edits' = edits + 1 /\ edits \in Nat /\ inst.edits \in Nat /\ queued' = TRUE
      /\ UNCHANGED <<storage, applied, exists, claims, hashes, pc, server, inst, missed, cut>>
  BY Zenon DEF Edit, callVars, TypeOK, Instance
<1>2. Kept' = Kept /\ \A c : Handled(c)' <=> Handled(c)
  BY <1>1, Zenon DEF Kept, Handled
<1>3. CallInv'
  BY <1>1 DEF ClaimsInv, CallInv, AtRest
<1>4. ExistInv' /\ FollowInv'
  BY <1>1, <1>2 DEF ClaimsInv, ExistInv, FollowInv
<1>5. ASSUME ~undone'
      PROVE  /\ ~undone
             /\ annotations' = annotations \/ annotations' \notin {applied} \cup hashes.global
  <2>1. ~undone /\ ~( /\ annotations # applied \/ hashes.global # {annotations}
                      /\ annotations' # annotations
                      /\ annotations' \in {applied} \cup hashes.global )
    BY <1>5, Zenon DEF Edit
  <2> QED
    BY <2>1
<1>6. CoverInv'
  BY <1>1, <1>2, <1>5 DEF ClaimsInv, CoverInv, Covers
<1> QED
  BY <1>3, <1>4, <1>6, Zenon DEF ClaimsInv

LEMMA FrameInv ==
    ASSUME ClaimsInv,
           UNCHANGED <<specVars, applied, exists, claims, queued, hashes, callVars,
                       missed, cut, undone>>
    PROVE  ClaimsInv'
<1>1. UNCHANGED <<annotations, replicas, storage, edits, applied, exists, claims, queued,
                  hashes, pc, server, inst, missed, cut, undone>>
  BY Zenon DEF specVars, callVars
<1>2. Kept' = Kept /\ \A c : Handled(c)' <=> Handled(c)
  BY <1>1, Zenon DEF Kept, Handled
<1>3. CallInv'
  BY <1>1 DEF ClaimsInv, CallInv, AtRest
<1>4. ExistInv'
  BY <1>1 DEF ClaimsInv, ExistInv
<1>5. FollowInv'
  BY <1>1, <1>2 DEF ClaimsInv, FollowInv
<1>6. CoverInv'
  BY <1>1, <1>2 DEF ClaimsInv, CoverInv, Covers
<1> QED
  BY <1>3, <1>4, <1>5, <1>6, Zenon DEF ClaimsInv

LEMMA InitInv ==
    ASSUME Init
    PROVE  ClaimsInv
<1>1. /\ annotations = NoAnnotations /\ applied = NoAnnotations /\ queued = TRUE /\ pc = "idle"
      /\ inst = NoInstance /\ hashes = NoHashes
      /\ exists = IF storage = "predefined_claim" THEN {Snapshots} ELSE {}
  BY Zenon DEF Init
<1>2. hashes.global = {} /\ hashes.zooKeeper = {} /\ hashes.spec = {} /\ Kept = {}
  BY <1>1, ConstantFacts, Zenon DEF Kept
<1> QED
  BY <1>1, <1>2 DEF ClaimsInv, CallInv, ExistInv, FollowInv, CoverInv, AtRest

LEMMA StepInv ==
    ASSUME TypeOK, ClaimsInv, [Next]_vars
    PROVE  ClaimsInv'
<1>1. CASE Panic \/ StatusConflict
  BY <1>1, AbortInv DEF Panic, StatusConflict
<1>2. CASE CallFails \/ Restart
  BY <1>2, AbortInv, Zenon DEF CallFails, Restart
<1>3. CASE \E c \in Claim : Bind(c)
  BY <1>3, FrameInv, Zenon DEF Bind
<1>4. CASE UNCHANGED vars
  BY <1>4, FrameInv DEF vars, apiVars
<1> QED
  BY <1>1, <1>2, <1>3, <1>4, BeginInv, SnapshotsInv, ServerInv, ZooKeeperStatusInv,
     BackupInv, UpdateStatusInv, FinishInv, EditInv, Zenon
  DEF Next, OperatorStep

\* In every reachable state the types and the inductive invariant hold: what status and
\* hashes record is what is on the claims, as far as the running call has not been
\* through them.
THEOREM ClaimsInvariant == Spec => [](TypeOK /\ ClaimsInv)
BY InitType, InitInv, StepType, StepInv, PTL DEF Spec

\* At rest a server's claim, or the operator's claim for snapshots, exists, counts among
\* those kept, and what is reported as applied is the spec.
LEMMA AtRestFacts ==
    ASSUME TypeOK, ClaimsInv, AtRest, NEW c \in Followers
    PROVE  c \in Kept /\ ~Handled(c) /\ applied = annotations
<1>1. /\ pc = "idle" /\ applied = annotations
      /\ hashes.zooKeeper = {replicas} /\ hashes.spec = {<<annotations, replicas>>}
  BY Zenon DEF AtRest, ClaimsInv, CallInv
<1>2. hashes.global # {}
  BY <1>1 DEF ClaimsInv, CallInv
<1>3. c \in 1..replicas \/ (c = Snapshots /\ storage \notin {"", "predefined_claim"})
  BY DEF Followers
<1>4. c \in exists
  BY <1>1, <1>2, <1>3 DEF ClaimsInv, ExistInv
<1>5. ~(c = Snapshots /\ storage = "predefined_claim")
  BY <1>3, ClaimFacts DEF TypeOK, Snapshots
<1> QED
  BY <1>1, <1>4, <1>5 DEF Kept, Handled, Followers

\* Whatever the storage, the edits and the failures: when the queue is empty and no cycle
\* for a changed spec was cut short, createPersistentVolumeClaim has left every claim with
\* exactly the annotations of the spec.
THEOREM ClaimsFollow == Spec => []ClaimsFollowSpec
<1>1. ASSUME TypeOK, ClaimsInv PROVE ClaimsFollowSpec
  BY <1>1, AtRestFacts, Zenon DEF ClaimsFollowSpec, ClaimsInv, FollowInv, Kept
<1> QED
  BY <1>1, ClaimsInvariant, PTL

\* Retried cycles complete a change: however many were cut short, at rest the claims have
\* the annotations of the spec, unless users went back to earlier ones meanwhile.
THEOREM RetriesCompleteChange == Spec => []RetriesComplete
<1>1. ASSUME TypeOK, ClaimsInv PROVE RetriesComplete
  BY <1>1, AtRestFacts DEF RetriesComplete, ClaimsInv, CoverInv, Covers
<1> QED
  BY <1>1, ClaimsInvariant, PTL

\* No step, whatever the storage, changes the annotations of a predefined claim: the
\* update that it is sent through wants what it finds.
THEOREM PredefinedUntouched == Spec => PredefinedKept
<1>1. ASSUME TypeOK, [Next]_vars, storage = "predefined_claim"
      PROVE  claims'[Snapshots] = claims[Snapshots]
  <2>1. CASE ProcessSnapshots \/ ProcessBackup
    BY <1>1, <2>1, PredefinedFacts, ClaimFacts, Zenon DEF ProcessSnapshots, ProcessBackup
  <2>2. CASE ProcessServer
    <3>1. pc = "servers" /\ createPersistentVolumeClaim(server, NewPersistentVolumeClaim)
      BY <2>2 DEF ProcessServer
    <3> QED
      BY <1>1, <3>1, CreateFacts, WantedFacts, ServerFacts, ClaimFacts, Zenon
  <2>3. CASE UNCHANGED claims
    BY <2>3, Zenon
  <2>4. \/ ProcessSnapshots \/ ProcessBackup \/ ProcessServer \/ UNCHANGED claims
    BY <1>1, Zenon DEF Next, OperatorStep, Begin, updateZooKeeperStatus, StatusConflict, Panic,
       updateStatus, Finish, CallFails, Restart, Edit, Bind, vars, apiVars
  <2> QED
    BY <2>1, <2>2, <2>3, <2>4, Zenon
<1>2. TypeOK /\ [Next]_vars =>
         [storage = "predefined_claim" => claims'[Snapshots] = claims[Snapshots]]_vars
  BY <1>1
<1> QED
  BY <1>2, TypeCorrect, PTL DEF Spec, PredefinedKept

-----------------------------------------------------------------------------
(* The operator does not keep itself busy.                                 *)

LEMMA StageFacts ==
    ASSUME TypeOK
    PROVE  /\ pc = "snapshots" => Stage = 0
           /\ pc = "servers" => Stage = 1
           /\ pc = "status" => Stage = 2
           /\ pc = "backup" => Stage = 3
           /\ pc = "publish" => Stage = 4
           /\ pc = "finish" => Stage = 5
           /\ pc # "idle" => Stage < 6
BY DEF TypeOK, Stage

LEMMA StageNextFacts ==
    /\ pc' = "servers" => Stage' = 1
    /\ pc' = "status" => Stage' = 2
    /\ pc' = "backup" => Stage' = 3
    /\ pc' = "publish" => Stage' = 4
    /\ pc' = "finish" => Stage' = 5
    /\ pc' = "idle" => Stage' = 6
BY DEF Stage

\* A call that returns while a newer request is queued has come to its end.
LEMMA EndAdvances ==
    ASSUME TypeOK, pc # "idle", pc' = "idle", queued' = queued
    PROVE  CallAdvances
<1>1. Stage < 6 /\ Stage' = 6
  BY StageFacts, StageNextFacts
<1> QED
  BY <1>1 DEF CallAdvances

LEMMA AbortAdvances ==
    ASSUME TypeOK, pc # "idle", Abort, queued \/ Stuck
    PROVE  CallAdvances
<1>1. pc' = "idle" /\ queued' = TRUE
  BY DEF Abort, Returned
<1>2. CASE Stuck
  BY <1>1, <1>2 DEF CallAdvances
<1>3. CASE queued
  <2>1. queued' = queued
    BY <1>1, <1>3 DEF TypeOK
  <2> QED
    BY <1>1, <2>1, EndAdvances
<1> QED
  BY <1>2, <1>3

\* A panic, unless a newer request is queued, is one of the two that Stuck describes.
LEMMA PanicStuck ==
    ASSUME TypeOK, ClaimsInv, Panic, ~queued
    PROVE  Stuck
<1>1. pc # "idle"
  BY DEF Panic
<1>2. inst.replicas = replicas
  BY <1>1 DEF ClaimsInv, CallInv
<1>3. CASE \E c, wanted : CopyPanics(c, wanted)
  BY <1>3, Zenon DEF CopyPanics, Stuck
<1>4. CASE pc = "servers" /\ VolumeMissing
  <2>1. volumes \in Nat /\ replicas \in Nat
    BY ClaimFacts, StorageAssumption DEF TypeOK
  <2>2. server <= replicas /\ server \in Nat
    BY <1>2, <1>4, ServerFacts
  <2> QED
    BY <1>4, <2>1, <2>2 DEF VolumeMissing, Stuck
<1> QED
  BY <1>3, <1>4, Zenon DEF Panic

LEMMA CallProgress ==
    ASSUME TypeOK, ClaimsInv, OperatorStep
    PROVE  (exists \subseteq exists') /\ UNCHANGED bound /\ CallAdvances
<1>1. CASE Begin
  <2>1. queued /\ ~queued'
    BY <1>1 DEF Begin
  <2> QED
    BY <1>1, <2>1, Zenon DEF Begin, apiVars, CallAdvances
<1>2. CASE ProcessSnapshots \/ ProcessBackup
  <2>1. exists \subseteq exists'
    <3>1. Handles(Snapshots, WantedForSnapshots)
      BY <1>2 DEF Handles, ProcessSnapshots, ProcessBackup
    <3> QED
      BY <3>1, HandlesType, WantedFacts, ClaimFacts, Zenon
  <2>2. UNCHANGED <<bound, queued>>
    BY <1>2, Zenon DEF ProcessSnapshots, ProcessBackup
  <2>3. \/ pc = "snapshots" /\ pc' = "servers"
        \/ pc = "backup" /\ pc' = "publish"
    BY <1>2, Zenon DEF ProcessSnapshots, ProcessBackup
  <2>4. Stage < Stage'
    BY <2>3, StageFacts, StageNextFacts
  <2> QED
    BY <2>1, <2>2, <2>4, Zenon DEF CallAdvances
<1>3. CASE ProcessServer
  <2>1. exists \subseteq exists'
    <3>1. Handles(server, NewPersistentVolumeClaim) /\ pc = "servers"
      BY <1>3 DEF Handles, ProcessServer
    <3> QED
      BY <3>1, HandlesType, WantedFacts, ServerFacts, Zenon
  <2>2. UNCHANGED <<bound, queued>> /\ pc = "servers" /\ AfterServer
    BY <1>3, Zenon DEF ProcessServer
  <2>3. CASE server < inst.replicas
    <3>1. server' = server + 1 /\ pc' = pc
      BY <2>2, <2>3 DEF AfterServer
    <3>2. server < server'
      BY <2>2, <3>1, ServerFacts
    <3>3. UNCHANGED Stage
      BY <3>1, Zenon DEF Stage
    <3> QED
      BY <2>1, <2>2, <3>2, <3>3, Zenon DEF CallAdvances
  <2>4. CASE ~(server < inst.replicas)
    <3>1. pc' = "status"
      BY <2>2, <2>4 DEF AfterServer
    <3>2. Stage < Stage'
      BY <2>2, <3>1, StageFacts, StageNextFacts
    <3> QED
      BY <2>1, <2>2, <3>2, Zenon DEF CallAdvances
  <2> QED
    BY <2>3, <2>4, Zenon
<1>4. CASE Panic
  <2>1. pc # "idle" /\ Abort /\ UNCHANGED <<exists, bound>>
    BY <1>4 DEF Panic, apiVars
  <2>2. queued \/ Stuck
    BY <1>4, PanicStuck, Zenon
  <2> QED
    BY <2>1, <2>2, AbortAdvances, Zenon
<1>5. CASE updateStatus
  <2>1. pc = "publish" /\ UNCHANGED <<exists, bound>>
    BY <1>5, Zenon DEF updateStatus
  <2>2. CASE pc' = "finish" /\ UNCHANGED queued
    <3>1. Stage < Stage'
      BY <2>1, <2>2, StageFacts, StageNextFacts
    <3> QED
      BY <2>1, <2>2, <3>1, Zenon DEF CallAdvances
  <2>3. CASE Abort /\ inst.edits # edits
    <3>1. queued
      BY <2>1, <2>3, Zenon DEF ClaimsInv, CallInv
    <3> QED
      BY <2>1, <2>3, <3>1, AbortAdvances
  <2> QED
    BY <1>5, <2>2, <2>3, Zenon DEF updateStatus
<1>6. CASE Finish
  <2>1. pc = "finish" /\ UNCHANGED <<exists, bound>>
    BY <1>6, Zenon DEF Finish, apiVars
  <2>2. CASE Returned /\ UNCHANGED queued
    BY <2>1, <2>2, EndAdvances DEF Returned
  <2>3. CASE Abort /\ inst.edits # edits
    <3>1. queued
      BY <2>1, <2>3, Zenon DEF ClaimsInv, CallInv
    <3> QED
      BY <2>1, <2>3, <3>1, AbortAdvances
  <2> QED
    BY <1>6, <2>2, <2>3, Zenon DEF Finish
<1>7. CASE updateZooKeeperStatus
  <2>1. pc = "status" /\ UNCHANGED <<exists, bound>>
    BY <1>7, Zenon DEF updateZooKeeperStatus, apiVars
  <2>2. CASE pc' = "backup" /\ UNCHANGED queued
    <3>1. Stage < Stage'
      BY <2>1, <2>2, StageFacts, StageNextFacts
    <3> QED
      BY <2>1, <2>2, <3>1, Zenon DEF CallAdvances
  <2>3. CASE Abort /\ inst.edits # edits
    <3>1. queued
      BY <2>1, <2>3, Zenon DEF ClaimsInv, CallInv
    <3> QED
      BY <2>1, <2>3, <3>1, AbortAdvances
  <2> QED
    BY <1>7, <2>2, <2>3, Zenon DEF updateZooKeeperStatus
<1>8. CASE StatusConflict
  <2>1. pc # "idle" /\ Abort /\ inst.edits # edits /\ UNCHANGED <<exists, bound>>
    BY <1>8 DEF StatusConflict, apiVars
  <2>2. queued
    BY <2>1, Zenon DEF ClaimsInv, CallInv
  <2> QED
    BY <2>1, <2>2, AbortAdvances, Zenon
<1> QED
  BY <1>1, <1>2, <1>3, <1>4, <1>5, <1>6, <1>7, <1>8, Zenon DEF OperatorStep

\* Whatever the storage, the edits and the failures: between two updates by users or
\* faults the operator takes only finitely many steps, one call for each request, unless
\* a claim without annotations is not bound or a volume is missing; no call of Reconcile
\* fails because of the operator's own updates of the claims and of the status.
THEOREM OperatorProgresses == Spec => Progress
<1>1. ASSUME TypeOK, ClaimsInv, Next PROVE Advances
  <2>1. CASE OperatorStep
    BY <1>1, <2>1, CallProgress, Zenon DEF Advances
  <2>2. CASE CallFails \/ Restart
    <3>1. faults' = faults + 1 /\ faults \in Nat
      BY <1>1, <2>2 DEF CallFails, Restart, TypeOK
    <3>2. faults' # faults
      BY <3>1
    <3> QED
      BY <3>2 DEF Advances
  <2>3. CASE Edit
    <3>1. edits' = edits + 1 /\ edits \in Nat
      BY <1>1, <2>3 DEF Edit, TypeOK
    <3>2. edits' # edits
      BY <3>1
    <3> QED
      BY <3>2 DEF Advances
  <2>4. CASE \E c \in Claim : Bind(c)
    BY <2>4, Zenon DEF Bind, Advances
  <2> QED
    BY <1>1, <2>1, <2>2, <2>3, <2>4, Zenon DEF Next
<1>2. TypeOK /\ ClaimsInv /\ [Next]_vars => [Advances]_vars
  BY <1>1
<1> QED
  BY <1>2, ClaimsInvariant, PTL DEF Spec, Progress
=============================================================================
