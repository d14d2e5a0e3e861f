------------------------- MODULE ReconcileCycleProofs -------------------------
(***************************************************************************)
(* Proofs about ReconcileCycle, for every number of servers and every      *)
(* bound: type correctness; when users never write back an earlier content *)
(* of a section, that the operator's hashes never make it skip a service   *)
(* that has not been applied; that no outcome contradicts a condition;     *)
(* that the operator comes to rest only with every restart annotation up   *)
(* to date and every request in the secrets processed; and that it does    *)
(* not keep itself busy.                                                   *)
(***************************************************************************)
EXTENDS ReconcileCycle, TLAPS

(* Facts about the constants of the model.                                 *)

\* The four services in the order of buildReconcilers; the first three have
\* Deployments.
LEMMA OrderFacts ==
    /\ Len(Order) = 4
    /\ Order[1] = "zooKeeper" /\ Order[2] = "monitoring"
    /\ Order[3] = "backupDaemon" /\ Order[4] = "integrationTests"
    /\ \A k \in 1..3 : Order[k] \in Managed
    /\ \A k \in 1..4 : Order[k] \in Component
BY DEF Order, Managed, Component

\* Every service with Deployments reads at least one secret, and only secrets.
LEMMA WatchSeqFacts ==
    ASSUME NEW c \in Managed, NEW sp \in [Section -> Nat]
    PROVE  /\ Len(WatchSeq(c, sp)) \in Nat \ {0}
           /\ \A j \in 1..Len(WatchSeq(c, sp)) : WatchSeq(c, sp)[j] \in Secret
<1>1. CASE c = "zooKeeper"
  BY <1>1 DEF WatchSeq, ZooKeeperSecrets, Secret
<1>2. CASE c = "monitoring" /\ sp["backupDaemon"] # 0
  BY <1>2 DEF WatchSeq, MonitoringSecrets, Secret
<1>3. CASE c = "monitoring" /\ ~(sp["backupDaemon"] # 0)
  BY <1>3 DEF WatchSeq, MonitoringSecrets, Secret
<1>4. CASE c = "backupDaemon"
  BY <1>4 DEF WatchSeq, BackupDaemonSecrets, Secret
<1> QED
  BY <1>1, <1>2, <1>3, <1>4 DEF Managed

\* A service has at least one Deployment and no more than there are servers.
LEMMA UnitsFacts ==
    \A c : Units(c) \in 1..Servers
BY ServersAssumption DEF Units

-----------------------------------------------------------------------------
(* Type correctness.                                                       *)

\* The versions written into annotations and into ResourceVersions are versions.
LEMMA AnnotatedType ==
    ASSUME NEW c, NEW old \in [Secret -> Nat], seen \in [Secret -> Nat]
    PROVE  Annotated(c, old) \in [Secret -> Nat]
BY DEF Annotated

\* What a provider builds a template from are sections of the instance.
LEMMA DesiredType ==
    ASSUME NEW c, instSpec \in [Section -> Nat]
    PROVE  Desired(c) \in [Section -> Nat]
BY DEF Desired

\* The values of the conditions a status update writes.
LEMMA ConditionsType ==
    ASSUME NEW STATE base, base \in [Reason -> ConditionType], NEW STATE r,
           NEW STATE t, t \in ConditionType
    PROVE  [base EXCEPT ![r] = t] \in [Reason -> ConditionType]
BY Zenon

\* A secret stays a secret when it gets an owner, is emptied or is edited.
LEMMA SecretUpdateType ==
    ASSUME NEW STATE o, o \in SecretObject, NEW STATE n, n \in Nat, NEW STATE b, b \in BOOLEAN
    PROVE  /\ [o EXCEPT !.rv = n, !.owned = b] \in SecretObject
           /\ [o EXCEPT !.rv = n, !.pending = b] \in SecretObject
BY Zenon DEF SecretObject

\* The local variables of a call that is over are well typed.
LEMMA ReturnType ==
    ASSUME Return
    PROVE  InstType' /\ PositionType' /\ SeenType'
<1>1. InstType' /\ SeenType'
  BY Zenon DEF Return, NoSections, NoVersions, InstType, SeenType
<1>2. PositionType'
  BY OrderFacts DEF Return, PositionType, Step
<1> QED
  BY <1>1, <1>2

\* A status update, accepted or lost, leaves well-typed variables.
LEMMA FailedStatusType ==
    ASSUME conditions \in [Reason -> ConditionType], statusLag \in BOOLEAN,
           NEW STATE base, base \in [Reason -> ConditionType], writeFailedStatus(base)
    PROVE  conditions' \in [Reason -> ConditionType] /\ statusLag' \in BOOLEAN
BY ConditionsType DEF writeFailedStatus, StatusUpdate, ConditionType

\* A call that returns an error leaves well-typed variables.
LEMMA ReturnErrorType ==
    ASSUME TypeOK, ReturnError,
           conditions' \in [Reason -> ConditionType], statusLag' \in BOOLEAN,
           UNCHANGED <<spec, edits, secrets, template, restart, memoryVars>>, BoundType'
    PROVE  TypeOK'
<1>1. ApiType'
  BY DEF TypeOK, ApiType
<1>2. CacheType'
  BY DEF TypeOK, CacheType, ReturnError
<1>3. MemoryType'
  BY DEF TypeOK, MemoryType, memoryVars
<1> QED
  BY <1>1, <1>2, <1>3, ReturnType DEF TypeOK, ReturnError

\* An aborted call leaves well-typed variables: what it may change is the status,
\* the queue and its own local variables.
LEMMA AbortType ==
    ASSUME TypeOK, NEW STATE base, base \in [Reason -> ConditionType], Abort(base),
           UNCHANGED <<spec, edits, secrets, template, restart, memoryVars>>, BoundType'
    PROVE  TypeOK'
<1>1. conditions' \in [Reason -> ConditionType] /\ statusLag' \in BOOLEAN
  BY FailedStatusType DEF TypeOK, ApiType, CacheType, Abort
<1> QED
  BY <1>1, ReturnErrorType DEF Abort

\* The initial state is well typed.
LEMMA InitType == Init => TypeOK
<1> SUFFICES ASSUME Init PROVE TypeOK
  OBVIOUS
<1>1. /\ NoSections \in [Section -> Nat] /\ NoVersions \in [Secret -> Nat]
      /\ NoConditions \in [Reason -> ConditionType]
      /\ NewSecret \in SecretObject
  BY FlagsAssumption DEF NoSections, NoVersions, NoConditions, ConditionType, NewSecret,
                         SecretObject
<1>2. ApiType
  BY <1>1 DEF Init, ApiType
<1>3. CacheType
  BY <1>1, <1>2, Zenon DEF Init, CacheType, ApiType
<1>4. MemoryType /\ InstType /\ SeenType /\ BoundType
  BY <1>1, Zenon DEF Init, MemoryType, InstType, SeenType, BoundType
<1>5. PositionType
  BY OrderFacts DEF Init, PositionType, Step
<1> QED
  BY <1>2, <1>3, <1>4, <1>5 DEF TypeOK

\* Every step of the operator's call keeps the variables well typed.
LEMMA OperatorType ==
    ASSUME TypeOK, OperatorStep
    PROVE  TypeOK'
<1>a. Len(Order) = 4
  BY OrderFacts
<1>b. pc \in {"watch", "gate", "vault", "deploy", "status", "annotate"} =>
         Current \in Managed /\ Units(Current) \in 1..Servers
  BY OrderFacts, UnitsFacts DEF TypeOK, PositionType, Current
<1>c. instSpec \in [Section -> Nat]
  BY DEF TypeOK, InstType
<1>1. CASE Begin
  <2>1. ApiType' /\ CacheType'
    BY <1>1 DEF Begin, TypeOK, ApiType, CacheType, StartConditions, NoConditions,
                ConditionType
  <2>2. InstType'
    BY <1>1 DEF Begin, TypeOK, CacheType, InstType
  <2>3. PositionType'
    BY <1>1 DEF Begin, TypeOK, PositionType, Step
  <2> QED
    BY <1>1, <2>1, <2>2, <2>3 DEF Begin, TypeOK, memoryVars, MemoryType, SeenType,
                                  boundVars, BoundType
<1>2. CASE NextService
  <2>1. /\ pc' \in {"publish", "watch", "service"} /\ comp' \in 1..5
        /\ pc' = "watch" => comp' \in 1..3 /\ comp' = comp
    BY <1>2, <1>a, OrderFacts DEF NextService, TypeOK, PositionType, Current, Managed
  <2>2. pc' = "watch" => 1 <= Len(WatchSeq(Current', instSpec'))
    BY <1>2, <1>c, <2>1, WatchSeqFacts, OrderFacts DEF NextService, Current, instVars
  <2>3. PositionType'
    BY <1>2, <1>a, <2>1, <2>2 DEF NextService, TypeOK, PositionType, Step
  <2> QED
    BY <1>2, <2>3, Zenon DEF NextService, TypeOK, apiVars, ApiType, cacheVars, CacheType,
                      memoryVars, MemoryType, instVars, InstType, SeenType, boundVars,
                      BoundType
<1>3. CASE watchSecret
  <2> DEFINE s == WatchSeq(Current, instSpec)[idx]
  <2>1. Current \in Managed /\ idx \in 1..Len(WatchSeq(Current, instSpec)) /\ s \in Secret
    BY <1>3, <1>b, <1>c, WatchSeqFacts DEF watchSecret, TypeOK, PositionType
  <2>2. cachedSecrets[s] \in SecretObject
    BY <2>1 DEF TypeOK, CacheType
  <2> DEFINE updated == IF s \in ReadOnly \/ cachedSecrets[s].owned
                        THEN cachedSecrets[s]
                        ELSE [cachedSecrets[s] EXCEPT !.rv = @ + 1, !.owned = TRUE]
  <2> DEFINE next == cachedSecrets[s].rv + 1
  <2>n. next \in Nat
    BY <2>2 DEF SecretObject
  <2>m. updated = IF s \in ReadOnly \/ cachedSecrets[s].owned
                  THEN cachedSecrets[s]
                  ELSE [cachedSecrets[s] EXCEPT !.rv = next, !.owned = TRUE]
    BY Zenon
  <2>3. updated \in SecretObject
    <3> HIDE DEF next, updated, s
    <3> QED
      BY <2>2, <2>n, <2>m, SecretUpdateType, Zenon
  <2> HIDE DEF updated
  <2>4. /\ secrets' = IF s \in ReadOnly THEN secrets
                      ELSE [secrets EXCEPT ![s] = updated]
        /\ seen' = [seen EXCEPT ![s] = updated.rv]
        /\ mustClean' = IF idx = 1 THEN cachedSecrets[s].pending ELSE mustClean
    BY <1>3 DEF watchSecret, updated
  <2>5. updated.rv \in Nat /\ cachedSecrets[s].pending \in BOOLEAN
    BY <2>2, <2>3 DEF SecretObject
  <2> HIDE DEF s
  <2>6. secrets' \in [Secret -> SecretObject]
    BY <2>3, <2>4, Zenon DEF TypeOK, ApiType
  <2>7. ApiType'
    BY <1>3, <2>6 DEF watchSecret, TypeOK, ApiType
  <2>8. SeenType'
    BY <2>4, <2>5, Zenon DEF TypeOK, SeenType
  <2>9. PositionType'
    BY <1>3, <1>b, <2>1 DEF watchSecret, TypeOK, PositionType, Step, Current, instVars
  <2> QED
    BY <1>3, <2>7, <2>8, <2>9, Zenon DEF watchSecret, TypeOK, cacheVars, CacheType, memoryVars,
                                  MemoryType, instVars, InstType, boundVars, BoundType
<1>4. CASE watchSecretConflict
  BY <1>4, AbortType, Zenon DEF watchSecretConflict, TypeOK, ApiType, boundVars, BoundType
<1>5. CASE Skip \/ Enter
  <2>1. PositionType'
    BY <1>5, <1>b DEF Skip, Enter, TypeOK, PositionType, Step, Current
  <2> QED
    BY <1>5, <2>1, Zenon DEF Skip, Enter, TypeOK, apiVars, ApiType, cacheVars, CacheType,
                      memoryVars, MemoryType, instVars, InstType, SeenType, boundVars,
                      BoundType
<1>6. CASE processVaultSecrets
  <2> DEFINE s == WatchSeq(Current, instSpec)[1]
             cleaned == secrets[s].rv + 1
  <2>1. s \in Secret
    BY <1>6, <1>b, <1>c, WatchSeqFacts DEF processVaultSecrets
  <2>2. secrets[s] \in SecretObject
    BY <2>1 DEF TypeOK, ApiType
  <2>3. cleaned \in Nat
    BY <2>2 DEF SecretObject
  <2>4. \/ /\ secrets' = [secrets EXCEPT ![s].rv = cleaned, ![s].pending = FALSE]
           /\ seen' = [seen EXCEPT ![s] = cleaned]
           /\ resourceVersions' = [resourceVersions EXCEPT ![s] = cleaned]
        \/ UNCHANGED <<secrets, seen, resourceVersions>>
    BY <1>6 DEF processVaultSecrets
  <2> HIDE DEF s, cleaned
  <2>5. secrets' \in [Secret -> SecretObject]
    <3>1. [secrets[s] EXCEPT !.rv = cleaned, !.pending = FALSE] \in SecretObject
      BY <2>2, <2>3, SecretUpdateType, Zenon
    <3>2. \/ secrets' = [secrets EXCEPT ![s] =
                            [secrets[s] EXCEPT !.rv = cleaned, !.pending = FALSE]]
          \/ secrets' = secrets
      BY <2>1, <2>4, Zenon DEF TypeOK, ApiType, SecretObject
    <3> QED
      BY <3>1, <3>2, Zenon DEF TypeOK, ApiType
  <2>6. seen' \in [Secret -> Nat] /\ resourceVersions' \in [Secret -> Nat]
    BY <2>3, <2>4 DEF TypeOK, SeenType, MemoryType
  <2>7. ApiType'
    BY <1>6, <2>5 DEF processVaultSecrets, TypeOK, ApiType
  <2>8. MemoryType' /\ SeenType'
    BY <1>6, <2>6, Zenon DEF processVaultSecrets, TypeOK, MemoryType, SeenType
  <2>9. PositionType'
    BY <1>6, <1>b DEF processVaultSecrets, TypeOK, PositionType, Step, Current
  <2> QED
    BY <1>6, <2>7, <2>8, <2>9, Zenon DEF processVaultSecrets, TypeOK, cacheVars, CacheType,
                                  instVars, InstType, boundVars, BoundType
<1>7. CASE processVaultSecretsConflict
  BY <1>7, AbortType DEF processVaultSecretsConflict, TypeOK, ApiType, boundVars, BoundType
<1>8. CASE Deploy
  <2>1. Desired(Current) \in [Section -> Nat]
    BY <1>c, DesiredType
  <2>2. Annotated(Current, NoVersions) \in [Secret -> Nat]
    BY AnnotatedType, Zenon DEF TypeOK, SeenType, NoVersions
  <2>3. ApiType'
    BY <1>8, <1>b, <2>1, <2>2, Zenon DEF Deploy, TypeOK, ApiType, PositionType
  <2>4. PositionType'
    BY <1>8, <1>b DEF Deploy, TypeOK, PositionType, Step, Current
  <2> QED
    BY <1>8, <2>3, <2>4 DEF Deploy, TypeOK, cacheVars, CacheType, memoryVars, MemoryType,
                            instVars, InstType, SeenType, boundVars, BoundType
<1>9. CASE UpdateServiceStatus
  <2>1. ApiType' /\ CacheType'
    BY <1>9 DEF UpdateServiceStatus, StatusUpdate, TypeOK, ApiType, CacheType
  <2>2. PositionType'
    BY <1>9, <1>b DEF UpdateServiceStatus, TypeOK, PositionType, Step, Current
  <2> QED
    BY <1>9, <2>1, <2>2 DEF UpdateServiceStatus, TypeOK, memoryVars, MemoryType, instVars,
                            InstType, SeenType, boundVars, BoundType
<1>10. CASE Annotate
  <2>1. restart[Current][idx] \in [Secret -> Nat]
    <3>1. Current \in Managed /\ idx \in 1..Servers
      <4>1. pc = "annotate"
        BY <1>10 DEF Annotate
      <4> QED
        BY <4>1, <1>b, ServersAssumption DEF TypeOK, PositionType
    <3>2. restart[Current] \in [1..Servers -> [Secret -> Nat]]
      BY <3>1 DEF TypeOK, ApiType
    <3> QED
      BY <3>1, <3>2, Zenon
  <2>2. /\ Annotated(Current, restart[Current][idx]) \in [Secret -> Nat]
        /\ Annotated(Current, resourceVersions) \in [Secret -> Nat]
    BY <2>1, AnnotatedType DEF TypeOK, SeenType, MemoryType
  <2>3. ApiType'
    BY <1>10, <1>b, <2>2, Zenon DEF Annotate, TypeOK, ApiType, PositionType
  <2>4. resourceVersions' \in [Secret -> Nat] /\ SeenType'
    <3>1. CASE idx = Units(Current)
      <4>1. /\ resourceVersions' = Annotated(Current, resourceVersions)
            /\ seen' = NoVersions /\ mustClean' = FALSE
        BY <1>10, <3>1 DEF Annotate
      <4> QED
        BY <2>2, <4>1, Zenon DEF SeenType, NoVersions
    <3>2. CASE idx # Units(Current)
      BY <1>10, <3>2 DEF Annotate, TypeOK, MemoryType, SeenType
    <3> QED
      BY <3>1, <3>2
  <2>m. instSpec[Current] \in Nat
    BY <1>10, <1>b, <1>c DEF Annotate, Managed, Section, Component
  <2>n. resourceHashes' \in [Section -> Nat] /\ specHash' \in [Section -> Nat]
    BY <1>10, <2>m, Zenon DEF Annotate, TypeOK, MemoryType
  <2>5. PositionType'
    BY <1>10, <1>a, <1>b DEF Annotate, TypeOK, PositionType, Step, Current
  <2> QED
    BY <1>10, <2>3, <2>4, <2>5, <2>n DEF Annotate, TypeOK, cacheVars, CacheType, instVars,
                                   MemoryType, InstType, boundVars, BoundType
<1>11. CASE \E written \in BOOLEAN : Publish(written)
  <2> PICK written \in BOOLEAN : Publish(written)
    BY <1>11, Zenon
  <2>1. conditions' \in [Reason -> ConditionType] /\ statusLag' \in BOOLEAN
    BY ConditionsType DEF Publish, StatusUpdate, TypeOK, ApiType, CacheType, ConditionType
  <2>2. ApiType' /\ CacheType'
    BY <2>1, Zenon DEF Publish, TypeOK, ApiType, CacheType
  <2>3. PositionType'
    <3>1. pc' \in {"wait", "finish"} /\ comp' = 1 /\ pc = "publish" /\ idx' = idx
      BY Zenon DEF Publish
    <3> QED
      BY <1>a, <3>1 DEF TypeOK, PositionType, Step
  <2> QED
    BY <2>2, <2>3 DEF Publish, TypeOK, memoryVars, MemoryType, instVars, InstType,
                      SeenType, boundVars, BoundType
<1>w. CASE AwaitReadiness
  <2>1. conditions' \in [Reason -> ConditionType] /\ statusLag' \in BOOLEAN
    BY <1>w, ConditionsType DEF AwaitReadiness, StatusUpdate, TypeOK, ApiType, CacheType,
                                ConditionType
  <2>2. ApiType' /\ CacheType'
    BY <1>w, <2>1 DEF AwaitReadiness, TypeOK, ApiType, CacheType
  <2>3. PositionType'
    <3>1. pc = "wait" /\ pc' = "probe" /\ comp' = comp /\ idx' = idx
      BY <1>w DEF AwaitReadiness
    <3> QED
      BY <1>a, <3>1 DEF TypeOK, PositionType, Step
  <2> QED
    BY <1>w, <2>2, <2>3 DEF AwaitReadiness, TypeOK, memoryVars, MemoryType, instVars,
                            InstType, SeenType, boundVars, BoundType
<1>12. CASE ProbeService
  <2>1. conditions' \in [Reason -> ConditionType] /\ statusLag' \in BOOLEAN
    BY <1>12, ConditionsType, ZenonT(30) DEF ProbeService, StatusUpdate, TypeOK, ApiType, CacheType,
                                 ConditionType
  <2>2. ApiType' /\ CacheType'
    BY <1>12, <2>1 DEF ProbeService, TypeOK, ApiType, CacheType
  <2>3. PositionType'
    <3>1. /\ pc = "probe" /\ pc' \in {"probe", "verdict", "finish"} /\ idx' = idx
          /\ \/ comp' = comp /\ (pc' = "verdict" => ~(comp > Len(Order)))
             \/ comp' = comp + 1 /\ ~(comp > Len(Order)) /\ pc' = "probe"
      BY <1>12 DEF ProbeService
    <3> QED
      BY <1>a, <3>1 DEF TypeOK, PositionType, Step
  <2> QED
    BY <1>12, <2>2, <2>3 DEF ProbeService, TypeOK, memoryVars, MemoryType, instVars,
                             InstType, SeenType, boundVars, BoundType
<1>13. CASE \E ready \in BOOLEAN : ServiceVerdict(ready)
  <2> PICK ready \in BOOLEAN : ServiceVerdict(ready)
    BY <1>13
  <2>1. conditions' \in [Reason -> ConditionType] /\ statusLag' \in BOOLEAN
    BY ConditionsType DEF ServiceVerdict, Verdict, StatusUpdate, TypeOK, ApiType,
                          ConditionType
  <2>2. ApiType' /\ CacheType'
    BY <2>1, Zenon DEF ServiceVerdict, TypeOK, ApiType, CacheType
  <2>3. PositionType'
    BY <1>a DEF ServiceVerdict, TypeOK, PositionType, Step
  <2> QED
    BY <2>2, <2>3 DEF ServiceVerdict, TypeOK, memoryVars, MemoryType, instVars, InstType,
                      SeenType, boundVars, BoundType
<1>14. CASE Finish
  <2>1. conditions' \in [Reason -> ConditionType] /\ statusLag' \in BOOLEAN
    BY <1>14, ConditionsType, ZenonT(30) DEF Finish, StatusUpdate, TypeOK, ApiType, CacheType,
                                 ConditionType
  <2>2. ApiType' /\ CacheType'
    BY <1>14, <2>1 DEF Finish, TypeOK, ApiType, CacheType
  <2>3. instSpec["global"] \in Nat
    BY <1>c DEF Section
  <2>4. MemoryType'
    BY <1>14, <1>c, <2>3, Zenon DEF Finish, TypeOK, MemoryType
  <2> QED
    BY <1>14, <2>2, <2>4, ReturnType, Zenon DEF Finish, TypeOK, boundVars, BoundType
<1>15. CASE StatusConflict
  <2>1. conditions \in [Reason -> ConditionType] /\ statusLag \in BOOLEAN /\ BoundType'
    BY <1>15 DEF StatusConflict, TypeOK, ApiType, CacheType, boundVars, BoundType
  <2>2. CASE Abort(conditions)
    BY <1>15, <2>1, <2>2, AbortType DEF StatusConflict
  <2>3. CASE ReturnError /\ UNCHANGED <<conditions, statusLag>>
    BY <1>15, <2>1, <2>3, ReturnErrorType DEF StatusConflict
  <2> QED
    BY <1>15, <2>2, <2>3 DEF StatusConflict
<1> QED
  BY <1>1, <1>2, <1>3, <1>4, <1>5, <1>6, <1>7, <1>8, <1>9, <1>10, <1>11, <1>w, <1>12, <1>13,
     <1>14, <1>15 DEF OperatorStep

\* Every step keeps the variables well typed.
LEMMA NextType == TypeOK /\ [Next]_vars => TypeOK'
<1> SUFFICES ASSUME TypeOK, [Next]_vars PROVE TypeOK'
  OBVIOUS
<1>1. CASE OperatorStep
  BY <1>1, OperatorType
<1>2. CASE CallFails
  <2>0. failures' = failures + 1 /\ UNCHANGED <<secretEdits, crashes>>
    BY <1>2 DEF CallFails
  <2>1. conditions \in [Reason -> ConditionType] /\ statusLag \in BOOLEAN /\ BoundType'
    BY <2>0 DEF TypeOK, ApiType, CacheType, BoundType
  <2>2. ASSUME NEW STATE t, t \in ConditionType, Abort([conditions EXCEPT ![Current] = t])
        PROVE  TypeOK'
    <3>1. [conditions EXCEPT ![Current] = t] \in [Reason -> ConditionType]
      BY <2>1, <2>2, Zenon
    <3> QED
      BY <1>2, <2>1, <2>2, <3>1, AbortType DEF CallFails
  <2>3. CASE Abort(conditions)
    BY <1>2, <2>1, <2>3, AbortType DEF CallFails
  <2>4. CASE ReturnError /\ UNCHANGED <<conditions, statusLag>>
    BY <1>2, <2>1, <2>4, ReturnErrorType DEF CallFails
  <2>5. "In progress" \in ConditionType /\ \A ready \in BOOLEAN : Verdict(ready) \in ConditionType
    BY DEF ConditionType, Verdict
  <2> QED
    BY <1>2, <2>2, <2>3, <2>4, <2>5 DEF CallFails
<1>3. CASE \E x \in EditableSections : EditSpec(x)
  <2> PICK x \in EditableSections : EditSpec(x)
    BY <1>3
  <2>1. spec' \in [Section -> Nat] /\ edits' \in Nat
    <3>1. edits \in Nat /\ edits' = edits + 1 /\ spec \in [Section -> Nat]
      BY DEF EditSpec, TypeOK, ApiType
    <3>2. NewContents(x) \subseteq Nat
      BY <3>1 DEF NewContents
    <3>3. PICK v \in NewContents(x) : spec' = [spec EXCEPT ![x] = v]
      BY Zenon DEF EditSpec
    <3>4. v \in Nat
      BY <3>2
    <3>5. spec' \in [Section -> Nat]
      BY <3>1, <3>3, <3>4, Zenon
    <3> QED
      BY <3>1, <3>5
  <2>2. ApiType'
    BY <2>1 DEF EditSpec, TypeOK, ApiType
  <2>3. PositionType'
    BY DEF EditSpec, callVars, instVars, TypeOK, PositionType, Current
  <2> QED
    BY <2>2, <2>3 DEF EditSpec, TypeOK, cacheVars, CacheType, memoryVars, MemoryType,
                      callVars, instVars, InstType, SeenType, boundVars, BoundType
<1>4. CASE \E s \in EditableSecrets : EditSecret(s)
  <2> PICK s \in EditableSecrets : EditSecret(s)
    BY <1>4
  <2>1. PICK request \in BOOLEAN :
           secrets' = [secrets EXCEPT ![s].rv = @ + 1, ![s].pending = @ \/ request]
    BY Zenon DEF EditSecret
  <2> DEFINE next == secrets[s].rv + 1
             pending == secrets[s].pending \/ request
  <2>2. s \in Secret /\ secrets \in [Secret -> SecretObject] /\ secrets[s] \in SecretObject
    BY EditableAssumption DEF TypeOK, ApiType
  <2>3. next \in Nat /\ pending \in BOOLEAN
    BY <2>2 DEF SecretObject
  <2>4. secrets' = [secrets EXCEPT ![s] = [secrets[s] EXCEPT !.rv = next, !.pending = pending]]
    BY <2>1, <2>2, Zenon DEF SecretObject
  <2> HIDE DEF next, pending
  <2>5. [secrets[s] EXCEPT !.rv = next, !.pending = pending] \in SecretObject
    BY <2>2, <2>3, SecretUpdateType, Zenon
  <2>6. secrets' \in [Secret -> SecretObject]
    BY <2>2, <2>4, <2>5
  <2>7. ApiType'
    BY <2>6 DEF EditSecret, TypeOK, ApiType
  <2>8. PositionType'
    BY DEF EditSecret, callVars, instVars, TypeOK, PositionType, Current
  <2>9. BoundType'
    BY DEF EditSecret, TypeOK, BoundType
  <2> QED
    BY <2>7, <2>8, <2>9 DEF EditSecret, TypeOK, cacheVars, CacheType, memoryVars, MemoryType,
                            callVars, instVars, InstType, SeenType
<1>5. CASE DeliverCustomResource
  <2>1. CacheType'
    BY <1>5, Zenon DEF DeliverCustomResource, TypeOK, CacheType, ApiType
  <2>2. PositionType'
    BY <1>5 DEF DeliverCustomResource, callVars, instVars, TypeOK, PositionType, Current
  <2> QED
    BY <1>5, <2>1, <2>2, Zenon DEF DeliverCustomResource, TypeOK, apiVars, ApiType, memoryVars,
                            MemoryType, callVars, instVars, InstType, SeenType, boundVars,
                            BoundType
<1>6. CASE \E s \in Secret : DeliverSecret(s)
  <2> PICK s \in Secret : DeliverSecret(s)
    BY <1>6
  <2>1. CacheType'
    <3>1. secrets[s] \in SecretObject
      BY DEF TypeOK, ApiType
    <3>2. cachedSecrets' \in [Secret -> SecretObject] /\ queued' \in BOOLEAN
      BY <3>1 DEF DeliverSecret, TypeOK, CacheType, SecretObject
    <3> QED
      BY <3>2 DEF DeliverSecret, TypeOK, CacheType
  <2>2. PositionType'
    BY DEF DeliverSecret, callVars, instVars, TypeOK, PositionType, Current
  <2> QED
    BY <2>1, <2>2 DEF DeliverSecret, TypeOK, apiVars, ApiType, memoryVars, MemoryType,
                      callVars, instVars, InstType, SeenType, boundVars, BoundType
<1>7. CASE Restart
  <2>1. ApiType' /\ CacheType' /\ MemoryType'
    BY <1>7, Zenon DEF Restart, TypeOK, apiVars, ApiType, CacheType, MemoryType, NoSections,
                NoVersions
  <2>2. BoundType'
    BY <1>7 DEF Restart, TypeOK, BoundType
  <2> QED
    BY <1>7, <2>1, <2>2, ReturnType DEF Restart, TypeOK
<1>8. CASE UNCHANGED vars
  <2>1. PositionType'
    BY <1>8 DEF vars, callVars, instVars, TypeOK, PositionType, Current
  <2> QED
    BY <1>8, <2>1 DEF vars, TypeOK, apiVars, ApiType, cacheVars, CacheType, memoryVars,
                      MemoryType, callVars, instVars, InstType, SeenType, boundVars,
                      BoundType
<1> QED
  BY <1>1, <1>2, <1>3, <1>4, <1>5, <1>6, <1>7, <1>8 DEF Next

\* Type correctness: for every number of servers and every bound, a call of Reconcile
\* is always at a service, a secret or a Deployment that exists.
THEOREM TypeCorrect == Spec => []TypeOK
BY InitType, NextType, PTL DEF Spec

-----------------------------------------------------------------------------
(* Stamps: what the hash of a section says about a later spec.             *)

\* Hashes H and templates T make skipping sound for the spec sp.
Vouched(H, T, sp) ==
    \A c \in Managed :
        /\ sp[c] # 0
        /\ H[c] = sp[c]
        /\ H["global"] = sp["global"]
        => \A i \in 1..Units(c) : T[c][i][c] = sp[c] /\ T[c][i]["global"] = sp["global"]

\* A spec follows itself.
LEMMA FollowsItself ==
    ASSUME NEW sp \in [Section -> Nat], NEW e \in Nat, \A x \in Section : sp[x] <= e
    PROVE  Follows(sp, e, sp, e)
BY DEF Follows

\* Following is transitive.
LEMMA FollowsTransitive ==
    ASSUME NEW sp1 \in [Section -> Nat], NEW e1 \in Nat,
           NEW sp2 \in [Section -> Nat], NEW e2 \in Nat,
           NEW sp3 \in [Section -> Nat], NEW e3 \in Nat,
           Follows(sp1, e1, sp2, e2), Follows(sp2, e2, sp3, e3)
    PROVE  Follows(sp1, e1, sp3, e3)
<1>1. e1 <= e3 /\ (e1 = e3 => sp1 = sp3)
  BY DEF Follows
<1>2. ASSUME NEW x \in Section
      PROVE  sp1[x] <= e1 /\ (sp3[x] = sp1[x] \/ sp3[x] = 0 \/ sp3[x] > e1)
  <2>1. sp1[x] \in Nat /\ sp2[x] \in Nat /\ sp3[x] \in Nat
    BY <1>2
  <2> QED
    BY <1>2, <2>1 DEF Follows
<1> QED
  BY <1>1, <1>2 DEF Follows

\* A hash that is not newer than a spec and equals a section of a later spec is the
\* hash of that section in both.
LEMMA StampUnchanged ==
    ASSUME NEW sp1 \in [Section -> Nat], NEW e1 \in Nat,
           NEW sp2 \in [Section -> Nat], NEW e2 \in Nat,
           Follows(sp1, e1, sp2, e2), NEW x \in Section, sp2[x] # 0, sp2[x] <= e1
    PROVE  sp1[x] = sp2[x]
BY DEF Follows

\* If skipping is sound for a spec and no hash is newer than it, skipping is sound
\* for every spec that follows: a service whose hashes still match has not changed.
LEMMA VouchedLater ==
    ASSUME NEW sp1 \in [Section -> Nat], NEW e1 \in Nat,
           NEW sp2 \in [Section -> Nat], NEW e2 \in Nat,
           Follows(sp1, e1, sp2, e2), sp2["global"] # 0,
           NEW H \in [Section -> Nat], NEW T,
           \A x \in Section : H[x] <= e1, Vouched(H, T, sp1)
    PROVE  Vouched(H, T, sp2)
<1> SUFFICES ASSUME NEW c \in Managed, sp2[c] # 0, H[c] = sp2[c],
                    H["global"] = sp2["global"]
             PROVE  \A i \in 1..Units(c) :
                       T[c][i][c] = sp2[c] /\ T[c][i]["global"] = sp2["global"]
  BY Zenon DEF Vouched
<1>1. c \in Section /\ "global" \in Section
  BY Zenon DEF Section, Component
<1>2. sp1[c] = sp2[c] /\ sp1["global"] = sp2["global"]
  BY <1>1, StampUnchanged, ZenonT(30)
<1> QED
  BY <1>2 DEF Vouched

\* GateSoundFor, GateSound and Applied in terms of Vouched.
LEMMA GateSoundForVouched ==
    /\ \A sp : GateSoundFor(sp) <=> Vouched(resourceHashes, template, sp)
    /\ GateSoundFor(instSpec)' <=> Vouched(resourceHashes', template', instSpec')
    /\ GateSoundFor(cachedSpec)' <=> Vouched(resourceHashes', template', cachedSpec')
    /\ GateSound <=> Vouched(resourceHashes, template, spec)
BY Zenon DEF GateSoundFor, GateSound, Vouched, Applied, BuiltFrom

-----------------------------------------------------------------------------
(* The inductive invariant.                                                *)

\* What a call has established about the services it has passed.
PassedApplied ==
    \A c \in Managed : Passed(c) /\ instSpec[c] # 0 =>
       resourceHashes[c] = instSpec[c] /\ Applied(c, instSpec)

\* The invariant holds when the operator is first started.
LEMMA InitVouch == Init => HashesVouch
<1> SUFFICES ASSUME Init PROVE HashesVouch
  OBVIOUS
<1>1. spec \in [Section -> Nat] /\ edits = 1 /\ cachedSpec = spec /\ cachedEdits = 1
  BY Zenon DEF Init
<1>2. \A x \in Section : spec[x] <= edits
  BY DEF Init
<1>3. spec["global"] # 0
  BY EditableAssumption DEF Init, Section
<1>4. Follows(cachedSpec, cachedEdits, spec, edits)
  BY <1>1, <1>2, FollowsItself, Zenon
<1>5. (\A x \in Section : resourceHashes[x] <= cachedEdits) /\ GateSoundFor(cachedSpec)
  BY <1>1 DEF Init, NoSections, GateSoundFor, Managed, Section, Component
<1>6. CallInv /\ ServiceInv /\ QueueInv
  BY Zenon DEF Init, CallInv, ServiceInv, QueueInv
<1> QED
  BY <1>1, <1>2, <1>3, <1>4, <1>5, <1>6, Zenon DEF HashesVouch, RestInv

\* A step inside a call keeps the invariant if it keeps what holds of the call: the
\* cached spec follows the instance, so skipping stays sound for it as well.
LEMMA WithinCall ==
    ASSUME TypeOK, TypeOK', HashesVouch, pc # "idle", pc' # "idle",
           UNCHANGED <<spec, edits, cachedSpec, cachedEdits, queued, instSpec, instEdits>>,
           \A x \in Section : resourceHashes'[x] <= instEdits,
           GateSoundFor(instSpec)', PassedApplied', ServiceInv'
    PROVE  HashesVouch'
<1>1. /\ instSpec \in [Section -> Nat] /\ instEdits \in Nat
      /\ cachedSpec \in [Section -> Nat] /\ cachedEdits \in Nat
      /\ resourceHashes' \in [Section -> Nat]
  BY Zenon DEF TypeOK, InstType, CacheType, MemoryType
<1>2. Follows(instSpec, instEdits, cachedSpec, cachedEdits) /\ cachedSpec["global"] # 0
  BY Zenon DEF HashesVouch, CallInv, RestInv
<1>3. Vouched(resourceHashes', template', cachedSpec)
  <2>1. Vouched(resourceHashes', template', instSpec)
    BY GateSoundForVouched, Zenon
  <2> QED
    BY <1>1, <1>2, <2>1, VouchedLater, Zenon
<1>4. \A x \in Section : resourceHashes'[x] <= cachedEdits
  <2>1. instEdits <= cachedEdits
    BY <1>2, Zenon DEF Follows
  <2> QED
    BY <1>1, <2>1
<1>5. RestInv'
  <2>1. GateSoundFor(cachedSpec)'
    BY <1>3, GateSoundForVouched, Zenon
  <2> QED
    BY <1>4, <2>1, Zenon DEF HashesVouch, RestInv, Follows
<1>6. CallInv'
  BY Zenon DEF HashesVouch, CallInv, PassedApplied, Follows
<1>7. QueueInv'
  BY Zenon DEF HashesVouch, QueueInv
<1> QED
  BY <1>5, <1>6, <1>7, Zenon DEF HashesVouch

\* A step inside a call that touches neither the hashes nor the Deployments keeps the
\* invariant if it passes no further service and the position stays right.
LEMMA QuietStep ==
    ASSUME TypeOK, TypeOK', HashesVouch, pc # "idle", pc' # "idle",
           UNCHANGED <<spec, edits, cachedSpec, cachedEdits, queued, instSpec, instEdits,
                       resourceHashes, template>>,
           \A c \in Managed : Passed(c)' => Passed(c) \/ instSpec[c] = 0,
           ServiceInv'
    PROVE  HashesVouch'
<1>1. \A x \in Section : resourceHashes'[x] <= instEdits
  BY Zenon DEF HashesVouch, CallInv
<1>2. GateSoundFor(instSpec)'
  BY GateSoundForVouched, Zenon DEF HashesVouch, CallInv
<1>3. PassedApplied'
  BY Zenon DEF HashesVouch, CallInv, PassedApplied, Applied, BuiltFrom
<1> QED
  BY <1>1, <1>2, <1>3, WithinCall, Zenon

\* A call that gives up leaves the hashes and the Deployments as they are and its
\* request in the queue.
LEMMA ErrorKeepsVouch ==
    ASSUME HashesVouch, ReturnError, UNCHANGED <<spec, edits, template, resourceHashes>>
    PROVE  HashesVouch'
<1>1. /\ pc' = "idle" /\ comp' = 1 /\ queued' = TRUE
      /\ UNCHANGED <<cachedSpec, cachedEdits>>
  BY Zenon DEF ReturnError, Return
<1>2. RestInv'
  <2>1. GateSoundFor(cachedSpec)'
    BY <1>1, GateSoundForVouched, Zenon DEF HashesVouch, RestInv
  <2> QED
    BY <1>1, <2>1, Zenon DEF HashesVouch, RestInv, Follows
<1> QED
  BY <1>1, <1>2, Zenon DEF HashesVouch, CallInv, ServiceInv, QueueInv

\* Taking a request keeps the invariant: the instance is the cached spec.
LEMMA BeginVouch ==
    ASSUME TypeOK, TypeOK', HashesVouch, Begin
    PROVE  HashesVouch'
<1>1. /\ pc' = "service" /\ comp' = comp /\ pc = "idle"
      /\ instSpec' = cachedSpec /\ instEdits' = cachedEdits
      /\ UNCHANGED <<spec, edits, cachedSpec, cachedEdits, resourceHashes, template>>
  BY Zenon DEF Begin, memoryVars
<1>2. comp' = 1 /\ \A c \in Managed : ~Passed(c)'
  <2>1. comp' = 1
    BY <1>1, Zenon DEF HashesVouch, ServiceInv
  <2> QED
    BY <1>1, <2>1 DEF Passed
<1>3. GateSoundFor(cachedSpec)' /\ GateSoundFor(instSpec)'
  BY <1>1, GateSoundForVouched, Zenon DEF HashesVouch, RestInv
<1>4. RestInv'
  BY <1>1, <1>3, Zenon DEF HashesVouch, RestInv, Follows
<1>5. CallInv'
  <2>1. Follows(cachedSpec, cachedEdits, cachedSpec, cachedEdits)
    BY FollowsItself, Zenon DEF TypeOK, CacheType, HashesVouch, RestInv, Follows
  <2> QED
    BY <1>1, <1>2, <1>3, <2>1, Zenon DEF HashesVouch, RestInv, CallInv, Follows
<1>6. ServiceInv' /\ QueueInv'
  BY <1>1, Zenon DEF ServiceInv, QueueInv
<1> QED
  BY <1>4, <1>5, <1>6, Zenon DEF HashesVouch

\* Moving to the next service keeps the invariant: only services that are not in the
\* spec are passed without work.
LEMMA NextServiceVouch ==
    ASSUME TypeOK, TypeOK', HashesVouch, NextService
    PROVE  HashesVouch'
<1>1. /\ pc = "service" /\ pc' \in {"publish", "watch", "service"}
      /\ UNCHANGED <<spec, edits, cachedSpec, cachedEdits, queued, instSpec, instEdits,
                     resourceHashes, template>>
  BY Zenon DEF NextService, apiVars, cacheVars, memoryVars, instVars
<1>2. comp \in 1..5 /\ Len(Order) = 4
  BY OrderFacts DEF TypeOK, PositionType
<1>3. ASSUME NEW c \in Managed, Passed(c)'
      PROVE  Passed(c) \/ instSpec[c] = 0
  <2>1. CASE comp > Len(Order)
    <3>1. c \in {Order[1], Order[2], Order[3]}
      BY OrderFacts, Zenon DEF Managed
    <3> QED
      BY <1>2, <2>1, <3>1 DEF Passed
  <2>2. CASE ~(comp > Len(Order)) /\ Current \in Managed /\ instSpec[Current] # 0
    BY <1>1, <1>3, <2>2, Zenon DEF Passed, NextService
  <2>3. CASE ~(comp > Len(Order)) /\ ~(Current \in Managed /\ instSpec[Current] # 0)
    <3>1. pc' = "service" /\ comp' = comp + 1
      BY <2>3, Zenon DEF NextService
    <3>2. PICK j \in 1..3 : j < comp + 1 /\ Order[j] = c
      BY <1>3, <3>1, Zenon DEF Passed
    <3> QED
      BY <1>2, <2>3, <3>2 DEF Passed, Current
  <2> QED
    BY <2>1, <2>2, <2>3, Zenon
<1>4. ServiceInv'
  <2>1. pc' = "watch" => instSpec'[Current'] # 0
    BY <1>1, Zenon DEF NextService, Current
  <2> QED
    BY <1>1, <2>1, Zenon DEF ServiceInv
<1> QED
  BY <1>1, <1>3, <1>4, QuietStep, Zenon

\* Reading the secrets, deciding, and emptying a secret keep the invariant.  When a
\* service is skipped its Deployments are those of the instance.
LEMMA GateVouch ==
    ASSUME TypeOK, TypeOK', HashesVouch,
           watchSecret \/ Skip \/ Enter \/ processVaultSecrets
    PROVE  HashesVouch'
<1>1. /\ pc \in {"watch", "gate", "vault"}
      /\ pc' \in {"watch", "gate", "vault", "deploy", "annotate"}
      /\ UNCHANGED <<spec, edits, cachedSpec, cachedEdits, queued, instSpec, instEdits,
                     resourceHashes, template, comp>>
  BY Zenon DEF watchSecret, Skip, Enter, processVaultSecrets, apiVars, cacheVars, memoryVars,
         instVars
<1>2. \A c \in Managed : Passed(c)' => Passed(c)
  BY <1>1, Zenon DEF Passed
<1>3. instSpec'[Current'] # 0
  BY <1>1 DEF HashesVouch, ServiceInv, Current
<1>4. pc' = "deploy" => idx' = 1
  <2>1. CASE watchSecret
    BY <2>1, Zenon DEF watchSecret
  <2>2. CASE Skip \/ Enter
    BY <2>2, Zenon DEF Skip, Enter, TypeOK, PositionType
  <2>3. CASE processVaultSecrets
    BY <2>3, Zenon DEF processVaultSecrets, TypeOK, PositionType
  <2> QED
    BY <2>1, <2>2, <2>3, Zenon
<1>5. pc' = "annotate" => Applied(Current, instSpec)'
  <2> SUFFICES ASSUME pc' = "annotate" PROVE Applied(Current, instSpec)'
    OBVIOUS
  <2>1. Skip
    BY Zenon DEF watchSecret, Enter, processVaultSecrets
  <2>2. Current \in Managed
    BY <2>1, OrderFacts, Zenon DEF Skip, TypeOK, PositionType, Current
  <2>3. /\ resourceHashes[Current] = instSpec[Current]
        /\ resourceHashes["global"] = instSpec["global"]
    BY <2>1, Zenon DEF Skip, GateOpen
  <2>4. Applied(Current, instSpec)
    BY <1>1, <2>2, <2>3, Zenon DEF HashesVouch, CallInv, GateSoundFor, ServiceInv
  <2> QED
    BY <1>1, <2>4 DEF Applied, BuiltFrom, Current
<1>6. ServiceInv'
  BY <1>1, <1>3, <1>4, <1>5 DEF ServiceInv, Applied
<1> QED
  BY <1>1, <1>2, <1>6, QuietStep, Zenon

\* Writing one Deployment keeps the invariant: it becomes one of the instance, and one
\* that was already built from the instance stays so.
LEMMA DeployVouch ==
    ASSUME TypeOK, TypeOK', HashesVouch, Deploy
    PROVE  HashesVouch'
<1>1. /\ pc = "deploy"
      /\ UNCHANGED <<spec, edits, cachedSpec, cachedEdits, queued, instSpec, instEdits,
                     resourceHashes, comp>>
      /\ template' = [template EXCEPT ![Current][idx] = Desired(Current)]
      /\ \/ idx = Units(Current) /\ pc' = "status"
         \/ idx # Units(Current) /\ pc' = "deploy" /\ idx' = idx + 1
  BY Zenon DEF Deploy, cacheVars, memoryVars, instVars
<1>2. Current \in Managed /\ Units(Current) \in 1..Servers
  BY <1>1, OrderFacts, UnitsFacts, Zenon DEF TypeOK, PositionType, Current
<1>3. idx \in 1..Servers /\ idx <= Units(Current)
  BY <1>1, <1>2, ServersAssumption DEF TypeOK, PositionType
<1>4. /\ Desired(Current)[Current] = instSpec[Current]
      /\ Desired(Current)["global"] = instSpec["global"]
  <2>1. Current \in Inputs(Current) /\ "global" \in Inputs(Current)
    BY <1>2, Zenon DEF Managed, Inputs, ServerInputs, MonitoringInputs, BackupDaemonInputs
  <2> QED
    BY <1>2, <2>1, Zenon DEF Desired, Section, Component
<1>5. template \in [Managed -> [1..Servers -> [Section -> Nat]]]
  BY Zenon DEF TypeOK, ApiType
<1>6. ASSUME NEW c \in Managed, NEW i \in 1..Servers
      PROVE  template'[c][i] = IF c = Current /\ i = idx THEN Desired(Current)
                                                         ELSE template[c][i]
  BY <1>1, <1>2, <1>3, <1>5, <1>6, Zenon
<1>7. ASSUME NEW c \in Managed, NEW i \in 1..Servers,
             BuiltFrom(c, i, instSpec) \/ (c = Current /\ i = idx)
      PROVE  BuiltFrom(c, i, instSpec)'
  BY <1>1, <1>4, <1>6, <1>7 DEF BuiltFrom
<1>8. ASSUME NEW c \in Managed, Applied(c, instSpec)
      PROVE  Applied(c, instSpec)'
  <2>1. 1..Units(c) \subseteq 1..Servers
    BY UnitsFacts, ServersAssumption
  <2> QED
    BY <1>7, <1>8, <2>1 DEF Applied
<1>9. \A x \in Section : resourceHashes'[x] <= instEdits
  BY <1>1 DEF HashesVouch, CallInv
<1>10. GateSoundFor(instSpec)'
  BY <1>1, <1>8 DEF HashesVouch, CallInv, GateSoundFor
<1>11. PassedApplied'
  <2>1. \A c \in Managed : Passed(c)' => Passed(c)
    BY <1>1 DEF Passed
  <2> QED
    BY <1>1, <1>8, <2>1 DEF HashesVouch, CallInv, PassedApplied
<1>12. ServiceInv'
  <2>1. Current' = Current /\ instSpec'[Current'] # 0
    BY <1>1, Zenon DEF HashesVouch, ServiceInv, Current
  <2>2. \A i \in 1..Servers : i <= idx => BuiltFrom(Current, i, instSpec)'
    <3> SUFFICES ASSUME NEW i \in 1..Servers, i <= idx
                 PROVE  BuiltFrom(Current, i, instSpec)'
      BY Zenon
    <3>1. CASE i = idx
      BY <1>1, <1>2, <1>4, <1>6, <2>1, <3>1, Zenon DEF BuiltFrom
    <3>2. CASE i # idx
      <4>1. i < idx
        BY <1>3, <3>2
      <4>2. BuiltFrom(Current, i, instSpec)
        BY <1>1, <4>1, Zenon DEF HashesVouch, ServiceInv
      <4> QED
        BY <1>1, <1>2, <1>6, <2>1, <3>2, <4>2, Zenon DEF BuiltFrom
    <3> QED
      BY <3>1, <3>2
  <2>3. pc' = "deploy" => \A i \in 1..Servers : i < idx' => BuiltFrom(Current, i, instSpec)'
    BY <1>1, <1>3, <2>2
  <2>4. pc' = "status" => Applied(Current, instSpec)'
    <3> SUFFICES ASSUME pc' = "status", NEW i \in 1..Units(Current')
                 PROVE  BuiltFrom(Current, i, instSpec)'
      BY Zenon DEF Applied
    <3>1. i \in 1..idx
      BY <1>1, <2>1, Zenon
    <3>2. i \in 1..Servers /\ i <= idx
      BY <1>3, <3>1, ServersAssumption
    <3> QED
      BY <2>2, <3>2, Zenon
  <2>5. pc' \in {"deploy", "status"}
    BY <1>1, Zenon
  <2> QED
    BY <2>1, <2>3, <2>4, <2>5, Zenon DEF ServiceInv
<1>13. pc # "idle" /\ pc' # "idle"
  BY <1>1, Zenon
<1> QED
  BY <1>1, <1>9, <1>10, <1>11, <1>12, <1>13, WithinCall, Zenon

\* The restart annotations, and the hash recorded after the last of them, keep the
\* invariant: every Deployment of the service is one of the instance by then.
LEMMA AnnotateVouch ==
    ASSUME TypeOK, TypeOK', HashesVouch, Annotate
    PROVE  HashesVouch'
<1>1. /\ pc = "annotate"
      /\ UNCHANGED <<spec, edits, cachedSpec, cachedEdits, queued, instSpec, instEdits,
                     template>>
      /\ \/ /\ resourceHashes' = [resourceHashes EXCEPT ![Current] = instSpec[Current]]
            /\ pc' = "service" /\ comp' = comp + 1
         \/ UNCHANGED <<resourceHashes, pc, comp>>
  BY Zenon DEF Annotate, cacheVars, instVars
<1>2. Current \in Managed /\ comp \in 1..3 /\ instSpec[Current] # 0 /\ Applied(Current, instSpec)
  BY <1>1, OrderFacts, Zenon DEF TypeOK, PositionType, Current, HashesVouch, ServiceInv
<1>3. CASE UNCHANGED <<resourceHashes, pc, comp>>
  <2>1. \A c \in Managed : Passed(c)' => Passed(c)
    BY <1>3, Zenon DEF Passed
  <2>2. ServiceInv'
    BY <1>1, <1>2, <1>3, Zenon DEF ServiceInv, Current, Applied, BuiltFrom
  <2> QED
    BY <1>1, <1>3, <2>1, <2>2, QuietStep, Zenon
<1>4. CASE /\ resourceHashes' = [resourceHashes EXCEPT ![Current] = instSpec[Current]]
           /\ pc' = "service" /\ comp' = comp + 1
  <2>1. /\ resourceHashes \in [Section -> Nat] /\ instSpec \in [Section -> Nat]
        /\ Managed \subseteq Section /\ "global" \in Section /\ "global" \notin Managed
    BY Zenon DEF TypeOK, MemoryType, InstType, Section, Component, Managed
  <2>2. \A x \in Section : resourceHashes'[x] = IF x = Current THEN instSpec[x]
                                                               ELSE resourceHashes[x]
    BY <1>4, <2>1, Zenon
  <2>3. \A x \in Section : resourceHashes'[x] <= instEdits
    BY <1>1, <2>2, Zenon DEF HashesVouch, CallInv, Follows
  <2>4. \A c \in Managed : Applied(c, instSpec) => Applied(c, instSpec)'
    BY <1>1, Zenon DEF Applied, BuiltFrom
  <2>5. GateSoundFor(instSpec)'
    <3> SUFFICES ASSUME NEW c \in Managed, instSpec[c] # 0, resourceHashes'[c] = instSpec[c],
                        resourceHashes'["global"] = instSpec["global"]
                 PROVE  Applied(c, instSpec)
      BY <1>1, <2>4, Zenon DEF GateSoundFor
    <3>1. CASE c = Current
      BY <1>2, <3>1, Zenon
    <3>2. CASE c # Current
      <4>1. /\ resourceHashes[c] = instSpec[c]
            /\ resourceHashes["global"] = instSpec["global"]
        BY <1>2, <2>1, <2>2, <3>2, Zenon
      <4> QED
        BY <1>1, <4>1, Zenon DEF HashesVouch, CallInv, GateSoundFor
    <3> QED
      BY <3>1, <3>2, Zenon
  <2>6. PassedApplied'
    <3> SUFFICES ASSUME NEW c \in Managed, Passed(c)', instSpec[c] # 0
                 PROVE  resourceHashes'[c] = instSpec[c] /\ Applied(c, instSpec)
      BY <1>1, <2>4, Zenon DEF PassedApplied
    <3>1. CASE c = Current
      BY <1>2, <2>1, <2>2, <3>1, Zenon
    <3>2. CASE c # Current
      <4>1. PICK j \in 1..3 : j < comp + 1 /\ Order[j] = c
        BY <1>4, Zenon DEF Passed
      <4>2. j < comp
        BY <1>2, <3>2, <4>1 DEF Current
      <4>3. Passed(c)
        BY <4>1, <4>2, Zenon DEF Passed
      <4> QED
        BY <1>1, <2>1, <2>2, <3>2, <4>3, Zenon DEF HashesVouch, CallInv
    <3> QED
      BY <3>1, <3>2, Zenon
  <2>7. ServiceInv'
    BY <1>4, Zenon DEF ServiceInv
  <2> QED
    BY <1>1, <1>4, <2>3, <2>5, <2>6, <2>7, WithinCall, Zenon
<1> QED
  BY <1>1, <1>3, <1>4, Zenon

\* The status updates of a call keep the invariant.
LEMMA StatusVouch ==
    ASSUME TypeOK, TypeOK', HashesVouch,
           \/ UpdateServiceStatus \/ AwaitReadiness \/ ProbeService
           \/ \E written \in BOOLEAN : Publish(written)
           \/ \E ready \in BOOLEAN : ServiceVerdict(ready)
    PROVE  HashesVouch'
<1>1. UNCHANGED <<spec, edits, cachedSpec, cachedEdits, queued, instSpec, instEdits,
                  resourceHashes, template>>
  BY Zenon DEF UpdateServiceStatus, AwaitReadiness, ProbeService, Publish, ServiceVerdict,
         memoryVars, instVars
<1>2. \/ pc = "status" /\ pc' = "annotate" /\ comp' = comp
      \/ /\ pc \in {"publish", "wait", "probe", "verdict"}
         /\ pc' \in {"wait", "probe", "verdict", "finish"}
  BY DEF UpdateServiceStatus, AwaitReadiness, ProbeService, Publish, ServiceVerdict
<1>3. \A c \in Managed : Passed(c)' => Passed(c)
  BY <1>2, Zenon DEF Passed
<1>4. ServiceInv'
  BY <1>1, <1>2, Zenon DEF HashesVouch, ServiceInv, Current, Applied, BuiltFrom
<1> QED
  BY <1>1, <1>2, <1>3, <1>4, QuietStep, Zenon

\* The end of a cycle keeps the invariant: every service of the instance is applied
\* and recorded when the hash of the global section is.
LEMMA FinishVouch ==
    ASSUME TypeOK, TypeOK', HashesVouch, Finish
    PROVE  HashesVouch'
<1>1. /\ pc = "finish" /\ pc' = "idle" /\ comp' = 1
      /\ resourceHashes' = [resourceHashes EXCEPT !["global"] = instSpec["global"]]
      /\ UNCHANGED <<spec, edits, cachedSpec, cachedEdits, queued, template>>
  BY Zenon DEF Finish, Return
<1>2. /\ instSpec \in [Section -> Nat] /\ instEdits \in Nat
      /\ cachedSpec \in [Section -> Nat] /\ cachedEdits \in Nat
      /\ resourceHashes \in [Section -> Nat] /\ resourceHashes' \in [Section -> Nat]
      /\ Managed \subseteq Section /\ "global" \in Section /\ "global" \notin Managed
  BY Zenon DEF TypeOK, InstType, CacheType, MemoryType, Managed, Section, Component
<1>3. /\ Follows(instSpec, instEdits, cachedSpec, cachedEdits)
      /\ \A x \in Section : resourceHashes[x] <= instEdits
      /\ \A c \in Managed : instSpec[c] # 0 =>
            resourceHashes[c] = instSpec[c] /\ Applied(c, instSpec)
  BY <1>1, Zenon DEF HashesVouch, CallInv, Passed
<1>4. \A x \in Section : resourceHashes'[x] = IF x = "global" THEN instSpec[x]
                                                              ELSE resourceHashes[x]
  BY <1>1, <1>2, Zenon
<1>5. \A x \in Section : resourceHashes'[x] <= instEdits
  BY <1>3, <1>4, Zenon DEF Follows
<1>6. Vouched(resourceHashes', template', instSpec)
  BY <1>1, <1>3, Zenon DEF Vouched, Applied, BuiltFrom
<1>7. Vouched(resourceHashes', template', cachedSpec)
  <2>1. cachedSpec["global"] # 0
    BY DEF HashesVouch, RestInv
  <2> QED
    BY <1>2, <1>3, <1>5, <1>6, <2>1, VouchedLater, Zenon
<1>8. RestInv'
  <2>1. GateSoundFor(cachedSpec)'
    BY <1>1, <1>7, GateSoundForVouched, Zenon
  <2>2. \A x \in Section : resourceHashes'[x] <= cachedEdits
    BY <1>2, <1>3, <1>5 DEF Follows
  <2> QED
    BY <1>1, <2>1, <2>2 DEF HashesVouch, RestInv, Follows
<1>9. QueueInv'
  <2> SUFFICES ASSUME ~queued
               PROVE  /\ resourceHashes'["global"] = cachedSpec["global"]
                      /\ \A c \in Managed : cachedSpec[c] # 0 =>
                            resourceHashes'[c] = cachedSpec[c]
    BY <1>1, Zenon DEF QueueInv
  <2>1. instSpec = cachedSpec
    BY <1>1, <1>3, Zenon DEF HashesVouch, QueueInv, Follows
  <2> QED
    BY <1>2, <1>3, <1>4, <2>1, Zenon
<1> QED
  BY <1>1, <1>8, <1>9, Zenon DEF HashesVouch, CallInv, ServiceInv

\* Every step of the operator keeps the invariant.
LEMMA OperatorVouch ==
    ASSUME TypeOK, TypeOK', HashesVouch, OperatorStep
    PROVE  HashesVouch'
<1>1. CASE watchSecretConflict \/ processVaultSecretsConflict \/ StatusConflict
  BY <1>1, ErrorKeepsVouch DEF watchSecretConflict, processVaultSecretsConflict,
                               StatusConflict, Abort, memoryVars
<1>2. CASE Begin
  BY <1>2, BeginVouch
<1>3. CASE NextService
  BY <1>3, NextServiceVouch
<1>4. CASE watchSecret \/ Skip \/ Enter \/ processVaultSecrets
  BY <1>4, GateVouch, Zenon
<1>5. CASE Deploy
  BY <1>5, DeployVouch
<1>6. CASE Annotate
  BY <1>6, AnnotateVouch
<1>7. CASE \/ UpdateServiceStatus \/ AwaitReadiness \/ ProbeService
           \/ \E written \in BOOLEAN : Publish(written)
           \/ \E ready \in BOOLEAN : ServiceVerdict(ready)
  BY <1>7, StatusVouch, Zenon
<1>8. CASE Finish
  BY <1>8, FinishVouch
<1> QED
  BY <1>1, <1>2, <1>3, <1>4, <1>5, <1>6, <1>7, <1>8, Zenon DEF OperatorStep

\* A user's update with contents never used before keeps the invariant: the new stamp
\* is later than everything the cache has shown.
LEMMA EditVouch ==
    ASSUME TypeOK, HashesVouch, ~AllowRevert, NEW x \in EditableSections, EditSpec(x)
    PROVE  HashesVouch'
<1>1. /\ edits' = edits + 1
      /\ UNCHANGED <<cachedSpec, cachedEdits, queued, resourceHashes, template, pc, comp,
                     idx, instSpec, instEdits>>
  BY Zenon DEF EditSpec, cacheVars, memoryVars, callVars, instVars
<1>2. PICK v \in {edits + 1, 0} : /\ spec' = [spec EXCEPT ![x] = v]
                                  /\ v # edits + 1 => x \in Component
  <2>1. PICK v \in NewContents(x) : spec' = [spec EXCEPT ![x] = v]
    BY Zenon DEF EditSpec
  <2>2. v \in {edits + 1, 0} /\ (v # edits + 1 => x \in Component)
    BY <2>1 DEF NewContents
  <2> QED
    BY <2>1, <2>2, Zenon
<1>3. /\ spec \in [Section -> Nat] /\ edits \in Nat
      /\ cachedSpec \in [Section -> Nat] /\ cachedEdits \in Nat
  BY DEF TypeOK, ApiType, CacheType
<1>4. \A y \in Section : spec'[y] = IF y = x THEN v ELSE spec[y]
  BY <1>2, <1>3, Zenon
<1>5. Follows(cachedSpec, cachedEdits, spec, edits) /\ \A y \in Section : spec[y] <= edits
  BY Zenon DEF HashesVouch, RestInv
<1>6. Follows(cachedSpec, cachedEdits, spec', edits')
  <2>1. cachedEdits < edits + 1
    BY <1>3, <1>5 DEF Follows
  <2> QED
    BY <1>1, <1>2, <1>3, <1>4, <1>5, <2>1 DEF Follows
<1>7. \A y \in Section : spec'[y] <= edits'
  BY <1>1, <1>2, <1>3, <1>4, <1>5
<1>8. spec'["global"] # 0
  <2>1. "global" \in Section /\ "global" \notin Component
    BY Zenon DEF Section, Component, Managed
  <2>2. spec["global"] # 0
    BY Zenon DEF HashesVouch, RestInv
  <2> QED
    BY <1>2, <1>3, <1>4, <2>1, <2>2
<1>9. RestInv'
  <2>1. GateSoundFor(cachedSpec)'
    BY <1>1, GateSoundForVouched, Zenon DEF HashesVouch, RestInv
  <2> QED
    BY <1>1, <1>6, <1>7, <1>8, <2>1, Zenon DEF HashesVouch, RestInv, Follows
<1>10. CallInv'
  <2>1. pc # "idle" => GateSoundFor(instSpec)'
    BY <1>1, GateSoundForVouched, Zenon DEF HashesVouch, CallInv
  <2> QED
    BY <1>1, <2>1, Zenon DEF HashesVouch, CallInv, Follows, Passed, Applied, BuiltFrom
<1> QED
  BY <1>1, <1>9, <1>10, Zenon DEF HashesVouch, ServiceInv, QueueInv, Current, Applied, BuiltFrom

\* The delivery of the custom resource keeps the invariant: what was sound for the
\* cached spec is sound for the spec that follows it.
LEMMA DeliverVouch ==
    ASSUME TypeOK, HashesVouch, DeliverCustomResource
    PROVE  HashesVouch'
<1>1. /\ cachedSpec' = spec /\ cachedEdits' = edits
      /\ queued' = (queued \/ cachedEdits # edits)
      /\ UNCHANGED <<spec, edits, resourceHashes, template, pc, comp, idx, instSpec,
                     instEdits>>
  BY Zenon DEF DeliverCustomResource, apiVars, memoryVars, callVars, instVars
<1>2. /\ spec \in [Section -> Nat] /\ edits \in Nat
      /\ cachedSpec \in [Section -> Nat] /\ cachedEdits \in Nat
      /\ instSpec \in [Section -> Nat] /\ instEdits \in Nat
      /\ resourceHashes \in [Section -> Nat]
  BY Zenon DEF TypeOK, ApiType, CacheType, InstType, MemoryType
<1>3. /\ Follows(cachedSpec, cachedEdits, spec, edits) /\ \A x \in Section : spec[x] <= edits
      /\ spec["global"] # 0 /\ \A x \in Section : resourceHashes[x] <= cachedEdits
      /\ Vouched(resourceHashes, template, cachedSpec)
  BY GateSoundForVouched, Zenon DEF HashesVouch, RestInv
<1>4. Vouched(resourceHashes, template, spec)
  BY <1>2, <1>3, VouchedLater, Zenon
<1>5. RestInv'
  <2>1. GateSoundFor(cachedSpec)'
    BY <1>1, <1>4, GateSoundForVouched, Zenon
  <2>2. Follows(spec, edits, spec, edits)
    BY <1>2, <1>3, FollowsItself, Zenon
  <2>3. \A x \in Section : resourceHashes[x] <= edits
    BY <1>2, <1>3 DEF Follows
  <2> QED
    BY <1>1, <1>3, <2>1, <2>2, <2>3, Zenon DEF RestInv, Follows
<1>6. CallInv'
  <2>1. pc # "idle" => GateSoundFor(instSpec)'
    BY <1>1, GateSoundForVouched, Zenon DEF HashesVouch, CallInv
  <2>2. pc # "idle" => Follows(instSpec, instEdits, spec, edits)
    BY <1>2, <1>3, FollowsTransitive, Zenon DEF HashesVouch, CallInv
  <2> QED
    BY <1>1, <2>1, <2>2, Zenon DEF HashesVouch, CallInv, Follows, Passed, Applied, BuiltFrom
<1>7. QueueInv'
  <2> SUFFICES ASSUME ~queued' PROVE QueueInv'
    BY DEF QueueInv
  <2>1. ~queued /\ cachedEdits = edits
    BY <1>1, Zenon
  <2>2. cachedSpec = spec
    BY <1>3, <2>1 DEF Follows
  <2> QED
    BY <1>1, <2>1, <2>2 DEF HashesVouch, QueueInv
<1> QED
  BY <1>1, <1>5, <1>6, <1>7, Zenon DEF HashesVouch, ServiceInv, Current, Applied, BuiltFrom

\* A restart keeps the invariant: the empty memory vouches for nothing.
LEMMA RestartVouch ==
    ASSUME TypeOK, HashesVouch, Restart
    PROVE  HashesVouch'
<1>1. /\ cachedSpec' = spec /\ cachedEdits' = edits /\ queued' = TRUE
      /\ resourceHashes' = NoSections /\ pc' = "idle" /\ comp' = 1
      /\ UNCHANGED <<spec, edits>>
  BY DEF Restart, Return, apiVars
<1>2. /\ spec \in [Section -> Nat] /\ edits \in Nat
      /\ \A x \in Section : spec[x] <= edits
      /\ spec["global"] # 0
  BY Zenon DEF TypeOK, ApiType, HashesVouch, RestInv
<1>3. Follows(spec, edits, spec, edits)
  BY <1>2, FollowsItself, Zenon
<1>4. \A x \in Section : resourceHashes'[x] = 0
  BY <1>1, Zenon DEF NoSections
<1>5. GateSoundFor(cachedSpec)'
  BY <1>4, Zenon DEF GateSoundFor, Section, Component
<1>6. RestInv'
  BY <1>1, <1>2, <1>3, <1>4, <1>5 DEF RestInv, Follows
<1> QED
  BY <1>1, <1>6 DEF HashesVouch, CallInv, ServiceInv, QueueInv

\* Steps that touch nothing the invariant speaks of, except that a request may come.
LEMMA UnrelatedVouch ==
    ASSUME HashesVouch, queued' \/ queued' = queued,
           UNCHANGED <<spec, edits, cachedSpec, cachedEdits, resourceHashes, template, pc,
                       comp, idx, instSpec, instEdits>>
    PROVE  HashesVouch'
<1>1. RestInv'
  <2>1. GateSoundFor(cachedSpec)'
    BY GateSoundForVouched, Zenon DEF HashesVouch, RestInv
  <2> QED
    BY <2>1, Zenon DEF HashesVouch, RestInv, Follows
<1>2. CallInv'
  <2>1. pc # "idle" => GateSoundFor(instSpec)'
    BY GateSoundForVouched, Zenon DEF HashesVouch, CallInv
  <2> QED
    BY <2>1, Zenon DEF HashesVouch, CallInv, Follows, Passed, Applied, BuiltFrom
<1>3. ServiceInv' /\ QueueInv'
  BY Zenon DEF HashesVouch, ServiceInv, QueueInv, Current, Applied, BuiltFrom
<1> QED
  BY <1>1, <1>2, <1>3, Zenon DEF HashesVouch

\* Every step keeps the invariant, if users never write back earlier contents.
LEMMA NextVouch ==
    ASSUME ~AllowRevert, TypeOK, TypeOK', HashesVouch, [Next]_vars
    PROVE  HashesVouch'
<1>1. CASE OperatorStep
  BY <1>1, OperatorVouch, Zenon
<1>2. CASE CallFails
  <2>1. ReturnError /\ UNCHANGED <<spec, edits, template, resourceHashes>>
    BY <1>2 DEF CallFails, Abort, memoryVars
  <2> QED
    BY <2>1, ErrorKeepsVouch, Zenon
<1>3. CASE \E x \in EditableSections : EditSpec(x)
  BY <1>3, EditVouch
<1>4. CASE DeliverCustomResource
  BY <1>4, DeliverVouch
<1>5. CASE Restart
  BY <1>5, RestartVouch, Zenon
<1>6. CASE (\E s \in EditableSecrets : EditSecret(s)) \/ UNCHANGED vars
  BY <1>6, UnrelatedVouch, Zenon DEF EditSecret, vars, apiVars, cacheVars, memoryVars, callVars,
                              instVars
<1>7. CASE \E s \in Secret : DeliverSecret(s)
  <2>1. queued \in BOOLEAN
    BY DEF TypeOK, CacheType
  <2>2. PICK s \in Secret : queued' = (queued \/ secrets[s].owned)
    BY <1>7 DEF DeliverSecret
  <2>3. queued' \/ queued' = queued
    BY <2>1, <2>2, Zenon
  <2> QED
    BY <1>7, <2>3, UnrelatedVouch DEF DeliverSecret, apiVars, memoryVars, callVars, instVars
<1> QED
  BY <1>1, <1>2, <1>3, <1>4, <1>5, <1>6, <1>7, Zenon DEF Next

-----------------------------------------------------------------------------
(* The theorems.                                                           *)

\* The hashes in the operator's memory vouch only for Deployments that were built
\* from the sections they are hashes of, for the cached spec and for the instance.
THEOREM VouchCorrect == ASSUME ~AllowRevert PROVE Spec => []HashesVouch
<1>1. TypeOK /\ TypeOK' /\ HashesVouch /\ [Next]_vars => HashesVouch'
  BY NextVouch
<1> QED
  BY <1>1, InitVouch, TypeCorrect, PTL DEF Spec

\* Skipping is sound: when the recorded hashes of a service and of the global section
\* are those of the current spec, all its Deployments were built from them.
THEOREM GateIsSound == ASSUME ~AllowRevert PROVE Spec => []GateSound
<1>1. TypeOK /\ HashesVouch => GateSound
  <2> SUFFICES ASSUME TypeOK, HashesVouch PROVE GateSound
    BY Zenon
  <2>1. /\ spec \in [Section -> Nat] /\ edits \in Nat
        /\ cachedSpec \in [Section -> Nat] /\ cachedEdits \in Nat
        /\ resourceHashes \in [Section -> Nat]
    BY Zenon DEF TypeOK, ApiType, CacheType, MemoryType
  <2>2. /\ Follows(cachedSpec, cachedEdits, spec, edits)
        /\ spec["global"] # 0 /\ \A x \in Section : resourceHashes[x] <= cachedEdits
        /\ Vouched(resourceHashes, template, cachedSpec)
    BY GateSoundForVouched DEF HashesVouch, RestInv
  <2> QED
    BY <2>1, <2>2, VouchedLater, GateSoundForVouched
<1> QED
  BY <1>1, VouchCorrect, TypeCorrect, PTL

\* An operator at rest has applied the current spec to every service in it.
THEOREM RestIsApplied == ASSUME ~AllowRevert PROVE Spec => []QuietApplied
<1>1. HashesVouch => QuietApplied
  <2> SUFFICES ASSUME HashesVouch, Quiet, NEW c \in Managed, spec[c] # 0
               PROVE  Applied(c, spec)
    BY Zenon DEF QuietApplied
  <2>1. spec = cachedSpec
    BY Zenon DEF Quiet, HashesVouch, RestInv, Follows
  <2>2. resourceHashes["global"] = spec["global"] /\ resourceHashes[c] = spec[c]
    BY <2>1, Zenon DEF Quiet, HashesVouch, QueueInv
  <2>3. GateSoundFor(spec)
    BY <2>1 DEF HashesVouch, RestInv
  <2> QED
    BY <2>2, <2>3, Zenon DEF GateSoundFor
<1> QED
  BY <1>1, VouchCorrect, PTL

\* What a step that reports "Successful" establishes.
ReportsApplied ==
    conditions'["service"] = "Successful" /\ conditions["service"] # "Successful"
       => \A c \in Managed : spec[c] # 0 => Applied(c, spec)

\* Only the end of a cycle reports "Successful".
LEMMA OnlyFinishReports ==
    ASSUME TypeOK, [Next]_vars,
           conditions'["service"] = "Successful", conditions["service"] # "Successful"
    PROVE  Finish /\ changed
<1>a. conditions \in [Reason -> ConditionType] /\ "service" \in Reason
  BY DEF TypeOK, ApiType, Reason
<1>b. "service" \notin Component
  BY Zenon DEF Component, Managed
<1>c. ASSUME NEW STATE base, base \in [Reason -> ConditionType], writeFailedStatus(base)
      PROVE  FALSE
  BY <1>a, <1>c, Zenon DEF writeFailedStatus, StatusUpdate
<1>d. comp \in 1..4 => Current \in Component
  BY OrderFacts DEF Current
<1>1. CASE UNCHANGED conditions
  BY <1>1, Zenon
<1>2. CASE Begin
  BY <1>2, <1>a DEF Begin, StartConditions, NoConditions
<1>3. CASE \E base \in [Reason -> ConditionType] : Abort(base)
  BY <1>3, <1>c, Zenon DEF Abort
<1>4. CASE AwaitReadiness \/ \E written \in BOOLEAN : Publish(written)
  BY <1>4, <1>a DEF AwaitReadiness, Publish, StatusUpdate
<1>5. CASE ProbeService \/ \E ready \in BOOLEAN : ServiceVerdict(ready)
  <2>1. UNCHANGED conditions \/ \E t : conditions' = [conditions EXCEPT ![Current] = t]
    BY <1>5 DEF ProbeService, ServiceVerdict, StatusUpdate
  <2>2. Current \in Component \/ UNCHANGED conditions
    <3>1. pc = "verdict" \/ ~(comp > Len(Order)) \/ UNCHANGED conditions
      BY <1>5 DEF ProbeService, ServiceVerdict
    <3>2. comp \in 1..4 \/ UNCHANGED conditions
      BY <3>1, OrderFacts DEF TypeOK, PositionType
    <3> QED
      BY <1>d, <3>2, Zenon
  <2> QED
    BY <1>a, <1>b, <2>1, <2>2, Zenon
<1>6. CASE Finish
  BY <1>6, Zenon DEF Finish
<1>7. CASE OperatorStep
  <2>1. \/ UNCHANGED conditions
        \/ Begin \/ Abort(conditions)
        \/ \E written \in BOOLEAN : Publish(written)
        \/ AwaitReadiness \/ ProbeService
        \/ \E ready \in BOOLEAN : ServiceVerdict(ready)
        \/ Finish
    BY <1>7, Zenon DEF OperatorStep, NextService, watchSecret, watchSecretConflict, Skip, Enter,
                processVaultSecrets, processVaultSecretsConflict, Deploy,
                UpdateServiceStatus, StatusUpdate, Annotate, StatusConflict, apiVars
  <2> QED
    BY <1>a, <1>1, <1>2, <1>3, <1>4, <1>5, <1>6, <2>1, Zenon
<1>8. CASE CallFails
  <2>1. \/ Abort(conditions) \/ UNCHANGED conditions
        \/ \E t \in ConditionType : Abort([conditions EXCEPT ![Current] = t])
    BY <1>8 DEF CallFails, Verdict, ConditionType
  <2>2. \A t \in ConditionType :
           [conditions EXCEPT ![Current] = t] \in [Reason -> ConditionType]
    BY <1>a, Zenon
  <2> QED
    BY <1>a, <1>1, <1>3, <2>1, <2>2, Zenon
<1>9. CASE ~OperatorStep /\ ~CallFails
  BY <1>1, <1>9, Zenon DEF Next, EditSpec, EditSecret, DeliverCustomResource, DeliverSecret,
                    Restart, vars, apiVars
<1> QED
  BY <1>7, <1>8, <1>9, Zenon

\* "Successful" is written only when every service of the spec that is current at that
\* moment has been applied: the update is accepted only if the instance is current.
THEOREM SuccessIsApplied == ASSUME ~AllowRevert PROVE Spec => SuccessfulMeansApplied
<1>1. TypeOK /\ HashesVouch /\ [Next]_vars => [ReportsApplied]_vars
  <2> SUFFICES ASSUME TypeOK, HashesVouch, [Next]_vars,
                      conditions'["service"] = "Successful",
                      conditions["service"] # "Successful",
                      NEW c \in Managed, spec[c] # 0
               PROVE  Applied(c, spec)
    BY DEF ReportsApplied
  <2>1. Finish /\ changed
    BY OnlyFinishReports
  <2>2. pc = "finish" /\ instEdits = edits
    BY <2>1 DEF Finish, StatusUpdate, Fresh
  <2>3. /\ Follows(instSpec, instEdits, cachedSpec, cachedEdits)
        /\ Follows(cachedSpec, cachedEdits, spec, edits)
    BY <2>2 DEF HashesVouch, CallInv, RestInv
  <2>4. instEdits \in Nat /\ cachedEdits \in Nat /\ edits \in Nat
    BY DEF TypeOK, InstType, CacheType, ApiType
  <2>5. instSpec = spec
    BY <2>2, <2>3, <2>4 DEF Follows
  <2> QED
    BY <2>2, <2>5 DEF HashesVouch, CallInv, Passed
<1> QED
  BY <1>1, VouchCorrect, TypeCorrect, PTL DEF Spec, SuccessfulMeansApplied, ReportsApplied

-----------------------------------------------------------------------------
(* The outcome and the conditions of the services.                         *)

\* A condition that is not in progress.
Settled == {"none", "Ready", "Failed"}

\* While a cycle with a new spec runs no success is reported, and only the service
\* whose pods are being awaited is in progress.
OutcomeInv ==
    /\ OutcomeConsistent
    /\ pc \in {"wait", "probe", "verdict"} => changed
    /\ pc # "idle" /\ changed =>
          /\ conditions["service"] # "Successful"
          /\ \A c \in Component :
                conditions[c] \in Settled \/ (pc = "verdict" /\ c = Current)

\* A call that ends without a success of its own keeps the invariant.
LEMMA ReturnOutcome ==
    ASSUME OutcomeInv, pc' = "idle",
           UNCHANGED conditions \/ conditions'["service"] = "Failed"
    PROVE  OutcomeInv'
BY Zenon DEF OutcomeInv, OutcomeConsistent

\* So does one that gives up with writeFailedStatus.
LEMMA AbortOutcome ==
    ASSUME OutcomeInv, NEW STATE base, base \in [Reason -> ConditionType], Abort(base)
    PROVE  OutcomeInv'
<1>1. UNCHANGED conditions \/ conditions'["service"] = "Failed"
  BY Zenon DEF Abort, writeFailedStatus, StatusUpdate, Reason
<1>2. pc' = "idle"
  BY Zenon DEF Abort, ReturnError, Return
<1> QED
  BY <1>1, <1>2, ReturnOutcome, Zenon

\* A step that writes no condition keeps the invariant as long as it stays within
\* the call and outside Status.
LEMMA SilentOutcome ==
    ASSUME OutcomeInv, UNCHANGED <<conditions, changed>>,
           pc \notin {"idle", "verdict"}, pc' \notin {"idle", "probe", "verdict"},
           pc' = "wait" => changed
    PROVE  OutcomeInv'
BY Zenon DEF OutcomeInv, OutcomeConsistent

\* The steps that write conditions keep the invariant.
LEMMA ConditionOutcome ==
    ASSUME TypeOK, OutcomeInv,
           \/ Begin \/ AwaitReadiness \/ ProbeService \/ Finish
           \/ \E ready \in BOOLEAN : ServiceVerdict(ready)
    PROVE  OutcomeInv'
<1>a. /\ conditions \in [Reason -> ConditionType]
      /\ "service" \in Reason /\ Component \subseteq Reason /\ "service" \notin Component
  BY DEF TypeOK, ApiType, Reason, Component, Managed
<1>1. CASE Begin
  <2>1. pc' = "service" /\ pc = "idle"
    BY <1>1, Zenon DEF Begin
  <2>2. CASE specHash # cachedSpec
    <3>1. conditions' = [NoConditions EXCEPT !["service"] = "In progress"]
      BY <1>1, <2>2 DEF Begin, StartConditions
    <3>2. /\ conditions'["service"] = "In progress"
          /\ \A c \in Component : conditions'[c] = "none"
      BY <1>a, <3>1 DEF NoConditions
    <3> QED
      BY <2>1, <3>2 DEF OutcomeInv, OutcomeConsistent, Settled
  <2>3. CASE specHash = cachedSpec
    <3>1. UNCHANGED conditions /\ ~changed'
      BY <1>1, <2>3, Zenon DEF Begin
    <3> QED
      BY <2>1, <3>1, Zenon DEF OutcomeInv, OutcomeConsistent
  <2> QED
    BY <2>2, <2>3, Zenon
<1>2. CASE AwaitReadiness
  <2>1. /\ pc = "wait" /\ pc' = "probe" /\ UNCHANGED changed
        /\ conditions' = [conditions EXCEPT !["service"] = "In progress"]
    BY <1>2 DEF AwaitReadiness, StatusUpdate, instVars
  <2>2. /\ conditions'["service"] = "In progress"
        /\ \A c \in Component : conditions'[c] = conditions[c]
    BY <1>a, <2>1, Zenon
  <2> QED
    BY <2>1, <2>2 DEF OutcomeInv, OutcomeConsistent
<1>3. CASE ProbeService
  <2>0. pc = "probe" /\ UNCHANGED changed /\ changed
    BY <1>3 DEF ProbeService, instVars, OutcomeInv
  <2>1. CASE UNCHANGED conditions /\ pc' \in {"probe", "finish"}
    BY <2>0, <2>1, Zenon DEF OutcomeInv, OutcomeConsistent
  <2>2. CASE /\ conditions' = [conditions EXCEPT ![Current] = "In progress"]
             /\ pc' = "verdict" /\ comp' = comp /\ ~(comp > Len(Order))
    <3>1. comp \in 1..5 /\ Len(Order) = 4
      BY OrderFacts DEF TypeOK, PositionType
    <3>2. ~(comp > Len(Order))
      BY <2>2
    <3>3. comp \in 1..4
      BY <3>1, <3>2
    <3>4. Current \in Component
      BY <3>3, OrderFacts, Zenon DEF Current
    <3>5. /\ conditions'["service"] = conditions["service"]
          /\ \A c \in Component : c # Current => conditions'[c] = conditions[c]
          /\ Current' = Current
      BY <1>a, <2>2, <3>4 DEF Current
    <3> QED
      BY <2>0, <2>2, <3>5 DEF OutcomeInv, OutcomeConsistent
  <2> QED
    BY <1>3, <2>1, <2>2, Zenon DEF ProbeService, StatusUpdate
<1>4. CASE \E ready \in BOOLEAN : ServiceVerdict(ready)
  <2> PICK ready \in BOOLEAN : ServiceVerdict(ready)
    BY <1>4, Zenon
  <2>1. /\ pc = "verdict" /\ pc' = "probe" /\ UNCHANGED changed /\ changed
        /\ conditions' = [conditions EXCEPT ![Current] = Verdict(ready)]
    BY Zenon DEF ServiceVerdict, StatusUpdate, instVars, OutcomeInv
  <2>2. Current \in Component
    BY <2>1, OrderFacts, Zenon DEF TypeOK, PositionType, Current
  <2>3. Verdict(ready) \in Settled
    BY Zenon DEF Verdict, Settled
  <2>4. /\ conditions'["service"] = conditions["service"]
        /\ \A c \in Component : conditions'[c] = IF c = Current THEN Verdict(ready)
                                                ELSE conditions[c]
    BY <1>a, <2>1, <2>2, Zenon
  <2> QED
    BY <2>1, <2>3, <2>4, Zenon DEF OutcomeInv, OutcomeConsistent
<1>5. CASE Finish
  <2>1. pc = "finish" /\ pc' = "idle"
    BY <1>5, Zenon DEF Finish, Return
  <2>2. CASE ~changed
    BY <1>5, <2>1, <2>2, ReturnOutcome, Zenon DEF Finish
  <2>3. CASE changed /\ hasFailedConditions
    BY <1>5, <1>a, <2>1, <2>3, ReturnOutcome, Zenon DEF Finish, StatusUpdate
  <2>4. CASE changed /\ ~hasFailedConditions
    <3>1. \A c \in Component : conditions[c] \in {"none", "Ready"}
      BY <1>a, <2>1, <2>4, Zenon DEF OutcomeInv, Settled, hasFailedConditions
    <3>2. \A c \in Component : conditions'[c] = conditions[c]
      BY <1>5, <1>a, <2>4, Zenon DEF Finish, StatusUpdate
    <3> QED
      BY <2>1, <3>1, <3>2, Zenon DEF OutcomeInv, OutcomeConsistent
  <2> QED
    BY <2>2, <2>3, <2>4, Zenon
<1> QED
  BY <1>1, <1>2, <1>3, <1>4, <1>5, Zenon

\* Every step keeps the invariant.
LEMMA NextOutcome == TypeOK /\ OutcomeInv /\ [Next]_vars => OutcomeInv'
<1> SUFFICES ASSUME TypeOK, OutcomeInv, [Next]_vars PROVE OutcomeInv'
  BY Zenon
<1>a. conditions \in [Reason -> ConditionType]
  BY DEF TypeOK, ApiType
<1>1. CASE \/ Begin \/ AwaitReadiness \/ ProbeService \/ Finish
           \/ \E ready \in BOOLEAN : ServiceVerdict(ready)
  BY <1>1, ConditionOutcome, Zenon
<1>2. CASE NextService \/ watchSecret \/ Skip \/ Enter \/ processVaultSecrets
  <2>1. /\ UNCHANGED <<conditions, changed>>
        /\ pc \in {"service", "watch", "gate", "vault"}
        /\ pc' \in {"publish", "watch", "service", "gate", "annotate", "vault", "deploy"}
    BY <1>2, Zenon DEF NextService, watchSecret, Skip, Enter, processVaultSecrets, apiVars, instVars
  <2> QED
    BY <2>1, SilentOutcome, Zenon
<1>3. CASE \/ Deploy \/ UpdateServiceStatus \/ Annotate
           \/ \E written \in BOOLEAN : Publish(written)
  <2>1. /\ UNCHANGED <<conditions, changed>>
        /\ pc \in {"deploy", "status", "annotate", "publish"}
        /\ pc' \in {"deploy", "status", "annotate", "service", "wait", "finish"}
        /\ pc' = "wait" => changed
    BY <1>3, Zenon DEF Deploy, UpdateServiceStatus, Annotate, Publish, StatusUpdate, instVars
  <2> QED
    BY <2>1, SilentOutcome, Zenon
<1>4. CASE \/ watchSecretConflict \/ processVaultSecretsConflict \/ StatusConflict
  <2>1. Abort(conditions) \/ (ReturnError /\ UNCHANGED conditions)
    BY <1>4, Zenon DEF watchSecretConflict, processVaultSecretsConflict, StatusConflict
  <2> QED
    BY <1>a, <2>1, AbortOutcome, ReturnOutcome, Zenon DEF ReturnError, Return
<1>5. CASE CallFails
  <2>1. \/ Abort(conditions) \/ (ReturnError /\ UNCHANGED conditions)
        \/ \E t \in ConditionType : Abort([conditions EXCEPT ![Current] = t])
    BY <1>5 DEF CallFails, Verdict, ConditionType
  <2>2. \A t \in ConditionType :
           [conditions EXCEPT ![Current] = t] \in [Reason -> ConditionType]
    BY <1>a, Zenon
  <2>3. CASE \E t \in ConditionType : Abort([conditions EXCEPT ![Current] = t])
    BY <2>2, <2>3, AbortOutcome
  <2> QED
    BY <1>a, <2>1, <2>3, AbortOutcome, ReturnOutcome, Zenon DEF ReturnError, Return
<1>6. CASE Restart
  BY <1>6, ReturnOutcome DEF Restart, Return, apiVars
<1>7. CASE \/ UNCHANGED vars
           \/ \E x \in EditableSections : EditSpec(x)
           \/ \E s \in EditableSecrets : EditSecret(s)
           \/ DeliverCustomResource \/ \E s \in Secret : DeliverSecret(s)
  <2>1. UNCHANGED <<conditions, changed, pc, comp>>
    BY <1>7, Zenon DEF EditSpec, EditSecret, DeliverCustomResource, DeliverSecret, vars, apiVars,
                callVars, instVars
  <2> QED
    BY <2>1 DEF OutcomeInv, OutcomeConsistent, Current
<1> QED
  BY <1>1, <1>2, <1>3, <1>4, <1>5, <1>6, <1>7, Zenon DEF Next, OperatorStep

\* No service is reported failed or in progress under a "Successful" outcome, for any
\* edits, reverts, conflicts, failures and restarts.
THEOREM OutcomeIsConsistent == Spec => []OutcomeConsistent
<1>1. Init => OutcomeInv
  BY DEF Init, OutcomeInv, OutcomeConsistent, NoConditions, Reason
<1>2. OutcomeInv => OutcomeConsistent
  BY DEF OutcomeInv
<1> QED
  BY <1>1, <1>2, NextOutcome, TypeCorrect, PTL DEF Spec

-----------------------------------------------------------------------------
(* The secrets and the versions that the operator knows of them.           *)

SecretOK(secret, cached, read, recorded) ==
    /\ secret.rv # 0 /\ cached.rv <= secret.rv
    /\ cached.rv = secret.rv => cached = secret
    /\ read <= secret.rv /\ recorded <= secret.rv

\* No version that the operator has seen is ahead of the API server, and a cached
\* secret of the current version is the current secret.
VersionInv ==
    \A s \in Secret : SecretOK(secrets[s], cachedSecrets[s], seen[s], resourceVersions[s])

\* A secret stays, or gets a new version and keeps its owner.
SecretMoves(s) ==
    \/ secrets'[s] = secrets[s]
    \/ /\ secrets'[s].rv = secrets[s].rv + 1
       /\ secrets[s].owned => secrets'[s].owned

\* The arithmetic of versions, for provers that do not calculate.
LEMMA VersionFacts ==
    /\ 1 # 0 /\ 0 <= 1 /\ 1 <= 1
    /\ \A m \in Nat : /\ 0 <= m /\ m <= m /\ m <= m + 1
                      /\ m + 1 \in Nat /\ m + 1 # 0 /\ m + 1 # m
    /\ \A m, n \in Nat : m <= n => m <= n + 1 /\ m # n + 1
OBVIOUS

LEMMA SecretTypes ==
    ASSUME TypeOK, NEW s \in Secret
    PROVE  /\ secrets[s].rv \in Nat /\ cachedSecrets[s].rv \in Nat
           /\ seen[s] \in Nat /\ resourceVersions[s] \in Nat
BY Zenon DEF TypeOK, ApiType, CacheType, SeenType, MemoryType, SecretObject

\* The service that the call works on, and the secret it reads.
LEMMA ServedFacts ==
    ASSUME TypeOK, pc \in {"watch", "gate", "vault", "deploy", "status", "annotate"}
    PROVE  /\ comp \in 1..3 /\ Current \in Managed /\ ~Passed(Current)
           /\ WatchSeq(Current, instSpec)[1] \in Secret
           /\ pc = "watch" => /\ idx \in 1..Len(WatchSeq(Current, instSpec))
                              /\ WatchSeq(Current, instSpec)[idx] \in Secret
<1>1. comp \in 1..3 /\ instSpec \in [Section -> Nat]
  BY Zenon DEF TypeOK, PositionType, InstType
<1>2. Current \in Managed
  BY <1>1, OrderFacts, Zenon DEF Current
<1>3. ~Passed(Current)
  <2> SUFFICES ASSUME NEW j \in 1..3, j < comp, Order[j] = Order[comp]
               PROVE  FALSE
    BY Zenon DEF Passed, Current
  <2> QED
    BY <1>1, OrderFacts
<1>4. /\ Len(WatchSeq(Current, instSpec)) \in Nat \ {0}
      /\ \A j \in 1..Len(WatchSeq(Current, instSpec)) : WatchSeq(Current, instSpec)[j] \in Secret
  BY <1>1, <1>2, WatchSeqFacts, Zenon
<1>5. 1 \in 1..Len(WatchSeq(Current, instSpec))
  BY <1>4
<1>6. pc = "watch" => idx \in 1..Len(WatchSeq(Current, instSpec))
  BY <1>4 DEF TypeOK, PositionType
<1> QED
  BY <1>1, <1>2, <1>3, <1>4, <1>5, <1>6, Zenon

\* What watchSecret does to the secret it is called for.
LEMMA WatchEffect ==
    ASSUME TypeOK, VersionInv, watchSecret, NEW s, s = WatchSeq(Current, instSpec)[idx]
    PROVE  /\ s \in Secret
           /\ \A u \in Secret \ {s} : secrets'[u] = secrets[u] /\ seen'[u] = seen[u]
           /\ SecretMoves(s) /\ seen'[s] <= secrets'[s].rv
           /\ s \notin ReadOnly => secrets'[s].owned /\ seen'[s] = secrets'[s].rv
           /\ secrets'[s].pending = secrets[s].pending
           /\ s \notin ReadOnly /\ idx = 1 => mustClean' = secrets[s].pending
<1> DEFINE found == cachedSecrets[s]
           owner == [found EXCEPT !.rv = @ + 1, !.owned = TRUE]
<1>1. s \in Secret /\ pc = "watch"
  BY ServedFacts, Zenon DEF watchSecret
<1>2. /\ secrets[s] \in SecretObject /\ found \in SecretObject /\ secrets[s].rv \in Nat
      /\ found.rv <= secrets[s].rv
      /\ found.rv = secrets[s].rv => found = secrets[s]
  BY <1>1, SecretTypes, Zenon DEF TypeOK, ApiType, CacheType, VersionInv, SecretOK
<1>3. idx = 1 => mustClean' = found.pending
  BY Zenon DEF watchSecret
<1>4. CASE s \in ReadOnly
  <2>1. UNCHANGED secrets /\ seen' = [seen EXCEPT ![s] = found.rv]
    BY <1>4, Zenon DEF watchSecret
  <2>2. seen'[s] = found.rv /\ \A u \in Secret \ {s} : seen'[u] = seen[u]
    BY <1>1, <2>1, Zenon DEF TypeOK, SeenType
  <2> QED
    BY <1>1, <1>2, <1>4, <2>1, <2>2, Zenon DEF SecretMoves
<1>5. CASE s \notin ReadOnly /\ found.owned
  <2>1. /\ found = secrets[s]
        /\ secrets' = [secrets EXCEPT ![s] = found]
        /\ seen' = [seen EXCEPT ![s] = found.rv]
    BY <1>2, <1>5, Zenon DEF watchSecret
  <2>2. /\ seen'[s] = found.rv /\ secrets'[s] = found
        /\ \A u \in Secret \ {s} : seen'[u] = seen[u] /\ secrets'[u] = secrets[u]
    BY <1>1, <2>1, Zenon DEF TypeOK, SeenType, ApiType
  <2> QED
    BY <1>1, <1>2, <1>3, <1>5, <2>1, <2>2, Zenon DEF SecretMoves
<1>6. CASE s \notin ReadOnly /\ ~found.owned
  <2>1. /\ found = secrets[s]
        /\ secrets' = [secrets EXCEPT ![s] = owner]
        /\ seen' = [seen EXCEPT ![s] = owner.rv]
    BY <1>2, <1>6, Zenon DEF watchSecret
  <2>2. owner.rv = found.rv + 1 /\ owner.owned /\ owner.pending = found.pending
    BY <1>2, Zenon DEF SecretObject
  <2>3. owner.rv <= owner.rv
    BY <1>2, <2>1, <2>2
  <2> HIDE DEF owner
  <2>4. /\ seen'[s] = owner.rv /\ secrets'[s] = owner
        /\ \A u \in Secret \ {s} : seen'[u] = seen[u] /\ secrets'[u] = secrets[u]
    BY <1>1, <2>1, Zenon DEF TypeOK, SeenType, ApiType
  <2> QED
    BY <1>1, <1>3, <1>6, <2>1, <2>2, <2>3, <2>4, Zenon DEF SecretMoves
<1> QED
  BY <1>4, <1>5, <1>6, Zenon

\* What processVaultSecrets does to the service's own secret.
LEMMA CleanEffect ==
    ASSUME TypeOK, processVaultSecrets, NEW s, s = WatchSeq(Current, instSpec)[1]
    PROVE  /\ s \in Secret
           /\ \A u \in Secret \ {s} : /\ secrets'[u] = secrets[u] /\ seen'[u] = seen[u]
                                      /\ resourceVersions'[u] = resourceVersions[u]
           /\ \/ ~mustClean /\ UNCHANGED <<secrets, seen, resourceVersions>>
              \/ /\ secrets'[s].rv = secrets[s].rv + 1 /\ ~secrets'[s].pending
                 /\ secrets'[s].owned = secrets[s].owned
                 /\ seen'[s] = secrets'[s].rv /\ resourceVersions'[s] = secrets'[s].rv
<1>1. s \in Secret /\ pc = "vault"
  BY ServedFacts, Zenon DEF processVaultSecrets
<1>2. CASE ~mustClean /\ UNCHANGED <<secrets, seen, resourceVersions>>
  BY <1>1, <1>2, Zenon
<1>3. CASE /\ secrets' = [secrets EXCEPT ![s].rv = secrets[s].rv + 1, ![s].pending = FALSE]
           /\ seen' = [seen EXCEPT ![s] = secrets[s].rv + 1]
           /\ resourceVersions' = [resourceVersions EXCEPT ![s] = secrets[s].rv + 1]
  <2>1. secrets[s] \in SecretObject
    BY <1>1, Zenon DEF TypeOK, ApiType
  <2>2. /\ \A u \in Secret \ {s} : secrets'[u] = secrets[u]
        /\ secrets'[s].rv = secrets[s].rv + 1 /\ ~secrets'[s].pending
        /\ secrets'[s].owned = secrets[s].owned
    BY <1>1, <1>3, <2>1 DEF TypeOK, ApiType, SecretObject
  <2>3. seen'[s] = secrets[s].rv + 1 /\ \A u \in Secret \ {s} : seen'[u] = seen[u]
    BY <1>1, <1>3, Zenon DEF TypeOK, SeenType
  <2>4. /\ resourceVersions'[s] = secrets[s].rv + 1
        /\ \A u \in Secret \ {s} : resourceVersions'[u] = resourceVersions[u]
    BY <1>1, <1>3, Zenon DEF TypeOK, MemoryType
  <2> QED
    BY <1>1, <2>2, <2>3, <2>4, Zenon
<1> QED
  BY <1>2, <1>3, Zenon DEF processVaultSecrets

\* What a user does to a secret.
LEMMA EditEffect ==
    ASSUME TypeOK, NEW s \in Secret, EditSecret(s)
    PROVE  /\ \A u \in Secret \ {s} : secrets'[u] = secrets[u]
           /\ secrets'[s].rv = secrets[s].rv + 1 /\ secrets'[s].owned = secrets[s].owned
<1>1. PICK request \in BOOLEAN :
        secrets' = [secrets EXCEPT ![s].rv = secrets[s].rv + 1,
                                   ![s].pending = secrets[s].pending \/ request]
  BY FlagsAssumption, Zenon DEF EditSecret
<1> QED
  BY <1>1 DEF TypeOK, ApiType, SecretObject

\* A call that gives up leaves everything but the status as it is, and its request
\* in the queue.
Retry ==
    /\ Return /\ queued' = TRUE
    /\ UNCHANGED <<spec, edits, secrets, template, restart, cachedSpec, cachedEdits,
                   cachedSecrets, resourceHashes, resourceVersions>>

\* The steps of a call that touch neither secrets nor Deployments.
Silent ==
    \/ Begin \/ NextService \/ Skip \/ Enter \/ UpdateServiceStatus
    \/ \E written \in BOOLEAN : Publish(written)
    \/ AwaitReadiness \/ ProbeService
    \/ \E ready \in BOOLEAN : ServiceVerdict(ready)
    \/ Finish

LEMMA GivesUp ==
    ASSUME watchSecretConflict \/ processVaultSecretsConflict \/ StatusConflict \/ CallFails
    PROVE  Retry
<1>1. CASE watchSecretConflict
  BY <1>1, Zenon DEF watchSecretConflict, Abort, ReturnError, Retry, memoryVars
<1>2. CASE processVaultSecretsConflict
  BY <1>2, Zenon DEF processVaultSecretsConflict, Abort, ReturnError, Retry, memoryVars
<1>3. CASE StatusConflict
  <2>1. ReturnError
    BY <1>3, Zenon DEF StatusConflict, Abort
  <2> QED
    BY <1>3, <2>1, Zenon DEF StatusConflict, ReturnError, Retry, memoryVars
<1>4. CASE CallFails
  <2>1. ReturnError
    BY <1>4, Zenon DEF CallFails, Abort
  <2> QED
    BY <1>4, <2>1, Zenon DEF CallFails, ReturnError, Retry, memoryVars
<1> QED
  BY <1>1, <1>2, <1>3, <1>4, Zenon

LEMMA StepKinds ==
    ASSUME [Next]_vars
    PROVE  \/ Retry \/ Restart \/ Silent \/ UNCHANGED vars
           \/ watchSecret \/ processVaultSecrets \/ Deploy \/ Annotate
           \/ \E x \in EditableSections : EditSpec(x)
           \/ \E s \in Secret : EditSecret(s) \/ DeliverSecret(s)
           \/ DeliverCustomResource
<1>1. \A s \in EditableSecrets : s \in Secret
  BY EditableAssumption, Zenon
<1>2. CASE OperatorStep
  BY <1>2, GivesUp, Zenon DEF OperatorStep, Silent
<1> QED
  BY <1>1, <1>2, GivesUp, Zenon DEF Next

LEMMA SilentEffect ==
    ASSUME TypeOK, Silent
    PROVE  /\ UNCHANGED <<spec, edits, secrets, template, restart, cachedSpec, cachedEdits,
                          cachedSecrets, resourceVersions>>
           /\ \A c \in Managed : resourceHashes'[c] = resourceHashes[c]
           /\ seen' = seen \/ (pc' = "idle" /\ seen' = NoVersions)
           /\ Begin \/ UNCHANGED queued
<1>1. CASE Finish
  <2>1. \A c \in Managed : resourceHashes'[c] = resourceHashes[c]
    BY <1>1 DEF Finish, TypeOK, MemoryType, Managed, Component, Section
  <2> QED
    BY <1>1, <2>1, Zenon DEF Finish, Return
<1> QED
  BY <1>1, Zenon DEF Silent, Begin, NextService, Skip, Enter, UpdateServiceStatus, Publish,
     AwaitReadiness, ProbeService, ServiceVerdict, apiVars, cacheVars, memoryVars

-----------------------------------------------------------------------------
(* What a step does to a secret.                                           *)

Serving == {"watch", "gate", "vault", "deploy", "status", "annotate"}

\* A secret changes by getting a new version, which the cache does not have yet; the
\* delivery of an owned secret is a request; and a version that is read for the first
\* time is the current one unless nobody is told of changes.
SecretStep(s) ==
    /\ \/ secrets'[s] = secrets[s]
       \/ SecretMoves(s) /\ cachedSecrets'[s] = cachedSecrets[s]
    /\ \/ cachedSecrets'[s] = cachedSecrets[s]
       \/ /\ cachedSecrets'[s] = secrets[s] /\ secrets'[s] = secrets[s]
          /\ secrets[s].owned => queued'
    /\ \/ seen'[s] = seen[s]
       \/ seen'[s] = 0 /\ pc' \notin Serving
       \/ seen'[s] <= secrets'[s].rv /\ (s \notin ReadOnly => seen'[s] = secrets'[s].rv)
    /\ \/ resourceVersions'[s] = resourceVersions[s]
       \/ resourceVersions'[s] = 0
       \/ resourceVersions'[s] = seen[s] /\ secrets'[s] = secrets[s]
       \/ resourceVersions'[s] = secrets'[s].rv

LEMMA SecretSteps ==
    ASSUME TypeOK, VersionInv, [Next]_vars
    PROVE  \A s \in Secret : SecretStep(s)
<1> SUFFICES ASSUME NEW s \in Secret PROVE SecretStep(s)
  OBVIOUS
<1>1. NoVersions[s] = 0
  BY Zenon DEF NoVersions
<1>2. CASE Retry
  BY <1>1, <1>2, Zenon DEF Retry, Return, SecretStep, Serving
<1>3. CASE Restart
  BY <1>1, <1>3, Zenon DEF Restart, Return, apiVars, SecretStep, Serving
<1>4. CASE Silent
  BY <1>1, <1>4, SilentEffect, Zenon DEF SecretStep, Serving
<1>5. CASE UNCHANGED vars \/ Deploy \/ DeliverCustomResource \/ \E x \in EditableSections : EditSpec(x)
  <2>1. UNCHANGED <<secrets, cachedSecrets, seen, resourceVersions>>
    BY <1>5, Zenon DEF vars, Deploy, DeliverCustomResource, EditSpec, apiVars, cacheVars,
       memoryVars, callVars
  <2> QED
    BY <2>1, Zenon DEF SecretStep
<1>6. CASE watchSecret
  <2>1. UNCHANGED <<cachedSecrets, resourceVersions>>
    BY <1>6, Zenon DEF watchSecret, cacheVars, memoryVars
  <2> QED
    BY <1>6, <2>1, WatchEffect, Zenon DEF SecretStep
<1>7. CASE processVaultSecrets
  <2> DEFINE own == WatchSeq(Current, instSpec)[1]
  <2>1. UNCHANGED cachedSecrets
    BY <1>7, Zenon DEF processVaultSecrets, cacheVars
  <2>2. CASE ~mustClean /\ UNCHANGED <<secrets, seen, resourceVersions>>
    BY <2>1, <2>2, Zenon DEF SecretStep
  <2>3. CASE s # own
    BY <1>7, <2>1, <2>3, CleanEffect, Zenon DEF SecretStep
  <2>4. CASE s = own /\ /\ secrets'[own].rv = secrets[own].rv + 1 /\ ~secrets'[own].pending
                        /\ secrets'[own].owned = secrets[own].owned
                        /\ seen'[own] = secrets'[own].rv /\ resourceVersions'[own] = secrets'[own].rv
    <3>1. seen'[s] <= secrets'[s].rv
      BY <2>4, SecretTypes, VersionFacts, Zenon
    <3> QED
      BY <2>1, <2>4, <3>1, Zenon DEF SecretStep, SecretMoves
  <2> QED
    BY <1>7, <2>2, <2>3, <2>4, CleanEffect, Zenon
<1>8. CASE Annotate
  <2>1. UNCHANGED <<secrets, cachedSecrets>>
    BY <1>8, Zenon DEF Annotate, cacheVars
  <2>2. seen'[s] = seen[s] \/ (seen'[s] = 0 /\ pc' \notin Serving)
    BY <1>1, <1>8, Zenon DEF Annotate, Serving
  <2>3. resourceVersions'[s] = resourceVersions[s] \/ resourceVersions'[s] = seen[s]
    BY <1>8, Zenon DEF Annotate, Annotated
  <2> QED
    BY <2>1, <2>2, <2>3, Zenon DEF SecretStep
<1>9. CASE \E u \in Secret : EditSecret(u)
  <2>1. PICK u \in Secret : EditSecret(u)
    BY <1>9
  <2>2. UNCHANGED <<cachedSecrets, seen, resourceVersions>>
    BY <2>1, Zenon DEF EditSecret, cacheVars, memoryVars, callVars
  <2> QED
    BY <2>1, <2>2, EditEffect, Zenon DEF SecretStep, SecretMoves
<1>10. CASE \E u \in Secret : DeliverSecret(u)
  <2>1. PICK u \in Secret : DeliverSecret(u)
    BY <1>10
  <2>2. UNCHANGED <<secrets, seen, resourceVersions>>
    BY <2>1, Zenon DEF DeliverSecret, apiVars, memoryVars, callVars
  <2>3. cachedSecrets' = [cachedSecrets EXCEPT ![u] = secrets[u]]
    BY <2>1, Zenon DEF DeliverSecret
  <2>4. secrets[u].owned => queued'
    BY <2>1, Zenon DEF DeliverSecret
  <2>5. \/ cachedSecrets'[s] = cachedSecrets[s]
        \/ cachedSecrets'[s] = secrets[s] /\ (secrets[s].owned => queued')
    BY <2>3, <2>4, Zenon DEF TypeOK, CacheType
  <2> QED
    BY <2>2, <2>5, Zenon DEF SecretStep
<1> QED
  BY <1>2, <1>3, <1>4, <1>5, <1>6, <1>7, <1>8, <1>9, <1>10, StepKinds, Zenon

LEMMA InitVersions == Init => VersionInv
<1> SUFFICES ASSUME Init, NEW s \in Secret
             PROVE  SecretOK(secrets[s], cachedSecrets[s], seen[s], resourceVersions[s])
  BY Zenon DEF VersionInv
<1>1. secrets[s].rv = 1 /\ cachedSecrets[s] = secrets[s] /\ seen[s] = 0 /\ resourceVersions[s] = 0
  BY DEF Init, NewSecret, NoVersions
<1> QED
  BY <1>1, VersionFacts, Zenon DEF SecretOK

LEMMA StepVersions ==
    ASSUME TypeOK, TypeOK', VersionInv, [Next]_vars
    PROVE  VersionInv'
<1> SUFFICES ASSUME NEW s \in Secret
             PROVE  SecretOK(secrets'[s], cachedSecrets'[s], seen'[s], resourceVersions'[s])
  BY Zenon DEF VersionInv
<1> DEFINE old == secrets[s]
           new == secrets'[s]
<1>1. /\ old.rv \in Nat /\ cachedSecrets[s].rv \in Nat
      /\ seen[s] \in Nat /\ resourceVersions[s] \in Nat
      /\ new.rv \in Nat /\ cachedSecrets'[s].rv \in Nat
  BY SecretTypes, Zenon DEF TypeOK, ApiType, CacheType, SecretObject
<1>2. SecretOK(old, cachedSecrets[s], seen[s], resourceVersions[s]) /\ SecretStep(s)
  BY SecretSteps, Zenon DEF VersionInv
<1>3. new = old \/ new.rv = old.rv + 1
  BY <1>2, Zenon DEF SecretStep, SecretMoves
<1>4. /\ new.rv # 0
      /\ \A m \in Nat : m <= old.rv => m <= new.rv
  <2>1. CASE new = old
    BY <1>2, <2>1, Zenon DEF SecretOK
  <2>2. CASE new.rv = old.rv + 1
    <3> HIDE DEF old, new
    <3> QED
      BY <1>1, <2>2, VersionFacts, Zenon
  <2> QED
    BY <1>3, <2>1, <2>2
<1>5. /\ cachedSecrets'[s].rv <= new.rv
      /\ cachedSecrets'[s].rv = new.rv => cachedSecrets'[s] = new
  <2>1. CASE cachedSecrets'[s] = new
    BY <1>1, <2>1, VersionFacts, Zenon
  <2>2. CASE cachedSecrets'[s] = cachedSecrets[s]
    <3>1. cachedSecrets[s].rv <= old.rv /\ (cachedSecrets[s].rv = old.rv => cachedSecrets[s] = old)
      BY <1>2, Zenon DEF SecretOK
    <3>2. cachedSecrets[s].rv = new.rv => new = old
      BY <1>1, <1>3, <3>1, VersionFacts, Zenon
    <3> QED
      BY <1>1, <1>4, <2>2, <3>1, <3>2, Zenon
  <2> QED
    BY <1>2, <2>1, <2>2, Zenon DEF SecretStep
<1>6. seen'[s] <= new.rv
  <2>1. CASE seen'[s] = seen[s] \/ seen'[s] = 0
    BY <1>1, <1>2, <1>4, <2>1, VersionFacts, Zenon DEF SecretOK
  <2> QED
    BY <1>2, <2>1, ZenonT(30) DEF SecretStep
<1>7. resourceVersions'[s] <= new.rv
  <2>1. CASE \/ resourceVersions'[s] \in {resourceVersions[s], 0, new.rv}
             \/ resourceVersions'[s] = seen[s]
    BY <1>1, <1>2, <1>4, <2>1, VersionFacts, Zenon DEF SecretOK
  <2> QED
    BY <1>2, <2>1, Zenon DEF SecretStep
<1> QED
  BY <1>4, <1>5, <1>6, <1>7, Zenon DEF SecretOK

-----------------------------------------------------------------------------
(* The instance and the Deployments of a call.                             *)

\* While no request waits the call works on the cached spec, and a cached custom
\* resource of the current generation has the current spec.
BasisInv ==
    /\ cachedEdits <= edits
    /\ cachedEdits = edits => cachedSpec = spec
    /\ ~queued /\ pc # "idle" => instSpec = cachedSpec
    /\ pc = "idle" => comp = 1

LEMMA InitBasis == Init => BasisInv
BY DEF Init, BasisInv

LEMMA StepBasis ==
    ASSUME TypeOK, BasisInv, [Next]_vars
    PROVE  BasisInv'
<1>1. edits \in Nat /\ cachedEdits \in Nat
  BY Zenon DEF TypeOK, ApiType, CacheType
<1>2. edits <= edits
  BY <1>1
<1>3. CASE Retry
  BY <1>3, Zenon DEF Retry, Return, BasisInv
<1>4. CASE Restart
  BY <1>2, <1>4, Zenon DEF Restart, Return, apiVars, BasisInv
<1>5. CASE Silent
  <2>1. CASE Begin
    BY <2>1, Zenon DEF Begin, BasisInv
  <2>2. CASE Finish
    BY <2>2, Zenon DEF Finish, Return, BasisInv
  <2>3. CASE ~Begin /\ ~Finish
    <3>1. UNCHANGED <<spec, edits, cachedSpec, cachedEdits, queued, instSpec>>
      BY <1>5, <2>3, SilentEffect, Zenon DEF Silent, NextService, Skip, Enter,
         UpdateServiceStatus, Publish, AwaitReadiness, ProbeService, ServiceVerdict, instVars
    <3>2. pc # "idle" /\ pc' # "idle"
      BY <1>5, <2>3, Zenon DEF Silent, NextService, Skip, Enter,
         UpdateServiceStatus, Publish, AwaitReadiness, ProbeService, ServiceVerdict
    <3> QED
      BY <3>1, <3>2, Zenon DEF BasisInv
  <2> QED
    BY <2>1, <2>2, <2>3
<1>6. CASE watchSecret \/ processVaultSecrets \/ Deploy \/ Annotate
  <2>1. UNCHANGED <<spec, edits, cachedSpec, cachedEdits, queued, instSpec>>
    BY <1>6, Zenon DEF watchSecret, processVaultSecrets, Deploy, Annotate, cacheVars, instVars
  <2>2. pc # "idle" /\ pc' # "idle"
    BY <1>6, Zenon DEF watchSecret, processVaultSecrets, Deploy, Annotate
  <2> QED
    BY <2>1, <2>2, Zenon DEF BasisInv
<1>7. CASE \E x \in EditableSections : EditSpec(x)
  <2>1. edits' = edits + 1 /\ UNCHANGED <<cachedSpec, cachedEdits, queued, pc, comp, instSpec>>
    BY <1>7, Zenon DEF EditSpec, cacheVars, callVars, instVars
  <2>2. cachedEdits' <= edits' /\ cachedEdits' # edits'
    BY <1>1, <2>1 DEF BasisInv
  <2> QED
    BY <2>1, <2>2, Zenon DEF BasisInv
<1>8. CASE \E s \in Secret : EditSecret(s) \/ DeliverSecret(s)
  <2>1. UNCHANGED <<spec, edits, cachedSpec, cachedEdits, pc, comp, instSpec>>
    BY <1>8, Zenon DEF EditSecret, DeliverSecret, apiVars, cacheVars, callVars, instVars
  <2>2. queued => queued'
    BY <1>8, Zenon DEF EditSecret, DeliverSecret, cacheVars
  <2> QED
    BY <2>1, <2>2, Zenon DEF BasisInv
<1>9. CASE DeliverCustomResource
  <2>1. /\ cachedSpec' = spec /\ cachedEdits' = edits
        /\ UNCHANGED <<spec, edits, pc, comp, instSpec>>
    BY <1>9, Zenon DEF DeliverCustomResource, apiVars, callVars, instVars
  <2>2. ~queued' => ~queued /\ cachedEdits = edits
    BY <1>9, Zenon DEF DeliverCustomResource
  <2> QED
    BY <1>2, <2>1, <2>2, Zenon DEF BasisInv
<1>10. CASE UNCHANGED vars
  BY <1>10, Zenon DEF vars, apiVars, cacheVars, callVars, instVars, BasisInv
<1> QED
  BY <1>3, <1>4, <1>5, <1>6, <1>7, <1>8, <1>9, <1>10, StepKinds, Zenon

\* The global section is never nil, and neither is that of the service that is being
\* processed.
InstInv ==
    /\ spec["global"] # 0 /\ cachedSpec["global"] # 0
    /\ pc # "idle" => instSpec["global"] # 0
    /\ pc \in Serving => instSpec[Current] # 0

LEMMA InitInst == Init => InstInv
<1>1. Init => spec["global"] # 0
  BY EditableAssumption DEF Init, Section
<1> QED
  BY <1>1, Zenon DEF Init, InstInv, Serving

LEMMA StepInst ==
    ASSUME TypeOK, InstInv, [Next]_vars
    PROVE  InstInv'
<1>1. CASE Retry
  BY <1>1, Zenon DEF Retry, Return, InstInv, Serving
<1>2. CASE Restart
  BY <1>2, Zenon DEF Restart, Return, apiVars, InstInv, Serving
<1>3. CASE Silent
  <2>1. UNCHANGED <<spec, cachedSpec>>
    BY <1>3, SilentEffect, Zenon
  <2>2. CASE Begin
    BY <2>1, <2>2, Zenon DEF Begin, InstInv, Serving
  <2>3. CASE Finish
    BY <2>1, <2>3, Zenon DEF Finish, Return, InstInv, Serving
  <2>4. CASE NextService
    <3>1. pc = "service" /\ pc' \in {"publish", "watch", "service"} /\ UNCHANGED instSpec
      BY <2>4, Zenon DEF NextService, instVars
    <3>2. pc' = "watch" => instSpec'[Current'] # 0
      BY <2>4, <3>1, Zenon DEF NextService, Current
    <3> QED
      BY <2>1, <3>1, <3>2, Zenon DEF InstInv, Serving
  <2>5. CASE ~Begin /\ ~Finish /\ ~NextService
    <3>1. UNCHANGED instSpec /\ pc # "idle" /\ (pc' \in Serving => pc \in Serving /\ UNCHANGED comp)
      BY <1>3, <2>5, Zenon DEF Silent, Skip, Enter, UpdateServiceStatus, Publish,
         AwaitReadiness, ProbeService, ServiceVerdict, instVars, Serving
    <3> QED
      BY <2>1, <3>1, Zenon DEF InstInv, Current
  <2> QED
    BY <2>2, <2>3, <2>4, <2>5
<1>4. CASE watchSecret \/ processVaultSecrets \/ Deploy \/ Annotate
  <2>1. UNCHANGED <<spec, cachedSpec, instSpec>>
    BY <1>4, Zenon DEF watchSecret, processVaultSecrets, Deploy, Annotate, cacheVars, instVars
  <2>2. pc \in Serving /\ (pc' \in Serving => UNCHANGED comp)
    BY <1>4, Zenon DEF watchSecret, processVaultSecrets, Deploy, Annotate, Serving
  <2>3. pc # "idle"
    BY <2>2, Zenon DEF Serving
  <2> QED
    BY <2>1, <2>2, <2>3, Zenon DEF InstInv, Current
<1>5. CASE \E x \in EditableSections : EditSpec(x)
  <2> PICK x \in EditableSections : EditSpec(x)
    BY <1>5
  <2>1. PICK v \in NewContents(x) : spec' = [spec EXCEPT ![x] = v]
    BY Zenon DEF EditSpec
  <2>2. spec'["global"] # 0
    <3>1. "global" \in Section /\ "global" \notin Component
      BY Zenon DEF Section, Component, Managed
    <3>2. spec \in [Section -> Nat] /\ edits \in Nat
      BY Zenon DEF TypeOK, ApiType
    <3>3. x = "global" => v # 0
      BY <2>1, <3>1, <3>2 DEF NewContents
    <3> QED
      BY <2>1, <3>1, <3>2, <3>3, Zenon DEF InstInv
  <2>3. UNCHANGED <<cachedSpec, pc, comp, instSpec>>
    BY <1>5, Zenon DEF EditSpec, cacheVars, callVars, instVars
  <2> QED
    BY <2>2, <2>3, Zenon DEF InstInv, Current
<1>6. CASE \/ \E s \in Secret : EditSecret(s) \/ DeliverSecret(s)
           \/ DeliverCustomResource \/ UNCHANGED vars
  <2>1. UNCHANGED <<spec, pc, comp, instSpec>> /\ (cachedSpec' = cachedSpec \/ cachedSpec' = spec)
    BY <1>6, Zenon DEF EditSecret, DeliverSecret, DeliverCustomResource, vars, apiVars, cacheVars,
       callVars, instVars
  <2> QED
    BY <2>1, Zenon DEF InstInv, Current
<1> QED
  BY <1>1, <1>2, <1>3, <1>4, <1>5, <1>6, StepKinds, Zenon

-----------------------------------------------------------------------------
(* The Deployments that the annotations are written to.                    *)

Exists(c, i) == template[c][i] # NoSections
Built(c) == \A i \in 1..Units(c) : Exists(c, i)

\* A service whose section is recorded has all its Deployments, and so has the one
\* whose Deployments are annotated.
BuiltInv ==
    /\ \A c \in Managed : resourceHashes[c] # 0 => Built(c)
    /\ pc = "deploy" => \A i \in 1..Servers : i < idx => Exists(Current, i)
    /\ pc \in {"status", "annotate"} => Built(Current)

LEMMA InitBuilt == Init => BuiltInv
<1>1. Init => \A c \in Managed : resourceHashes[c] = 0
  BY DEF Init, NoSections, Managed, Component, Section
<1> QED
  BY <1>1, Zenon DEF Init, BuiltInv

\* A step that writes no Deployment.
LEMMA SameBuilt ==
    ASSUME TypeOK, TypeOK', BuiltInv, UNCHANGED template,
           \A c \in Managed : \/ resourceHashes'[c] = resourceHashes[c] \/ resourceHashes'[c] = 0
                              \/ c = Current /\ pc = "annotate",
           pc' \in {"deploy", "status", "annotate"} => UNCHANGED comp,
           pc' = "deploy" => idx' = 1 \/ (pc = "deploy" /\ UNCHANGED idx),
           pc' \in {"status", "annotate"} => pc \in {"status", "annotate"} \/ Built(Current)
    PROVE  BuiltInv'
<1>1. \A c : (Built(c) => Built(c)') /\ \A i : Exists(c, i) => Exists(c, i)'
  BY Zenon DEF Built, Exists
<1>2. \A c \in Managed : resourceHashes'[c] # 0 => Built(c)'
  BY <1>1, Zenon DEF BuiltInv
<1>3. pc' \in {"deploy", "status", "annotate"} => Current' = Current
  BY Zenon DEF Current
<1>4. pc' = "deploy" => \A i \in 1..Servers : i < idx' => Exists(Current, i)'
  <2>1. ~(\E i \in 1..Servers : i < 1)
    BY ServersAssumption
  <2> QED
    BY <1>1, <1>3, <2>1, Zenon DEF BuiltInv, Exists
<1>5. pc' \in {"status", "annotate"} => Built(Current)'
  BY <1>1, <1>3, Zenon DEF BuiltInv, Built, Exists
<1> QED
  BY <1>2, <1>4, <1>5, Zenon DEF BuiltInv

\* Writing one more Deployment.
LEMMA DeployBuilt ==
    ASSUME TypeOK, InstInv, BuiltInv, Deploy
    PROVE  BuiltInv'
<1>1. pc = "deploy" /\ Current \in Managed /\ instSpec \in [Section -> Nat]
  BY ServedFacts, Zenon DEF Deploy, TypeOK, InstType
<1>2. idx \in 1..Units(Current) /\ Units(Current) \in 1..Servers /\ idx \in 1..Servers
  BY <1>1, UnitsFacts, ServersAssumption DEF TypeOK, PositionType
<1>3. /\ UNCHANGED <<comp, resourceHashes>>
      /\ template' = [template EXCEPT ![Current][idx] = Desired(Current)]
  BY Zenon DEF Deploy, memoryVars
<1>4. Desired(Current) # NoSections
  <2>1. "global" \in Section /\ "global" \in Inputs(Current)
    BY DEF Section, Inputs, ServerInputs, MonitoringInputs, BackupDaemonInputs
  <2>2. Desired(Current)["global"] # 0 /\ NoSections["global"] = 0
    BY <1>1, <2>1, Zenon DEF Desired, NoSections, InstInv
  <2> QED
    BY <2>2, Zenon
<1> DEFINE desired == Desired(Current)
<1>5. desired # NoSections /\ template' = [template EXCEPT ![Current][idx] = desired]
  BY <1>3, <1>4
<1> HIDE DEF desired
<1>6. /\ template'[Current][idx] = desired
      /\ \A c \in Managed, i \in 1..Servers :
            template'[c][i] = template[c][i] \/ template'[c][i] = desired
  BY <1>1, <1>2, <1>5, Zenon DEF TypeOK, ApiType
<1>7. \A c \in Managed, i \in 1..Servers : Exists(c, i) => template'[c][i] # NoSections
  BY <1>5, <1>6, Zenon DEF Exists
<1>8. Current' = Current /\ template'[Current][idx] # NoSections
  BY <1>3, <1>5, <1>6, Zenon DEF Current
<1>9. \A c \in Managed : Built(c) => Built(c)'
  <2>1. \A c : \A i \in 1..Units(c) : i \in 1..Servers
    BY UnitsFacts, ServersAssumption
  <2> QED
    BY <1>7, <2>1, Zenon DEF Built, Exists
<1>10. CASE idx = Units(Current)
  <2>1. pc' = "status"
    BY <1>10, Zenon DEF Deploy
  <2>2. \A i \in 1..Units(Current) : i \in 1..Servers /\ (i = idx \/ i < idx)
    BY <1>2, <1>10, ServersAssumption
  <2>3. Built(Current)'
    BY <1>1, <1>7, <1>8, <2>2, Zenon DEF Built, Exists, BuiltInv
  <2> QED
    BY <1>3, <1>9, <2>1, <2>3, Zenon DEF BuiltInv
<1>11. CASE idx # Units(Current)
  <2>1. pc' = "deploy" /\ idx' = idx + 1
    BY <1>11, Zenon DEF Deploy
  <2>2. \A i \in 1..Servers : i < idx' => i = idx \/ i < idx
    BY <1>2, <2>1, ServersAssumption
  <2>3. \A i \in 1..Servers : i < idx' => Exists(Current, i)'
    BY <1>1, <1>7, <1>8, <2>2, Zenon DEF BuiltInv, Exists
  <2> QED
    BY <1>3, <1>9, <2>1, <2>3, Zenon DEF BuiltInv
<1> QED
  BY <1>10, <1>11

LEMMA StepBuilt ==
    ASSUME TypeOK, TypeOK', InstInv, BuiltInv, [Next]_vars
    PROVE  BuiltInv'
<1>1. CASE Retry
  BY <1>1, SameBuilt, Zenon DEF Retry, Return
<1>2. CASE Restart
  <2>1. \A c \in Managed : resourceHashes'[c] = 0
    BY <1>2, Zenon DEF Restart, NoSections, Managed, Component, Section
  <2> QED
    BY <1>2, <2>1, SameBuilt, Zenon DEF Restart, Return, apiVars
<1>3. CASE Silent
  <2>1. UNCHANGED template /\ \A c \in Managed : resourceHashes'[c] = resourceHashes[c]
    BY <1>3, SilentEffect, Zenon
  <2>2. CASE Skip
    <3>1. pc' = "annotate" /\ UNCHANGED comp /\ resourceHashes[Current] = instSpec[Current]
      BY <2>2, Zenon DEF Skip, GateOpen
    <3>2. Current \in Managed /\ instSpec[Current] # 0
      BY <2>2, ServedFacts, Zenon DEF Skip, InstInv, Serving
    <3>3. Built(Current)
      BY <3>1, <3>2, Zenon DEF BuiltInv
    <3> QED
      BY <2>1, <3>1, <3>3, SameBuilt, Zenon
  <2>3. CASE Enter
    <3>1. pc' \in {"vault", "deploy"} /\ UNCHANGED <<comp, idx>> /\ idx = 1
      BY <2>3, Zenon DEF Enter, TypeOK, PositionType
    <3> QED
      BY <2>1, <3>1, SameBuilt, Zenon
  <2>4. CASE UpdateServiceStatus
    <3>1. pc' = "annotate" /\ UNCHANGED comp /\ pc = "status"
      BY <2>4, Zenon DEF UpdateServiceStatus
    <3> QED
      BY <2>1, <3>1, SameBuilt, Zenon
  <2>5. CASE ~Skip /\ ~Enter /\ ~UpdateServiceStatus
    <3>1. pc' \notin {"deploy", "status", "annotate"}
      BY <1>3, <2>5, Zenon DEF Silent, Begin, NextService, Publish, AwaitReadiness,
         ProbeService, ServiceVerdict, Finish, Return
    <3> QED
      BY <2>1, <3>1, SameBuilt, Zenon
  <2> QED
    BY <2>2, <2>3, <2>4, <2>5
<1>4. CASE watchSecret
  <2>1. UNCHANGED <<template, resourceHashes>> /\ pc' \in {"watch", "gate"}
    BY <1>4, Zenon DEF watchSecret, memoryVars
  <2> QED
    BY <2>1, SameBuilt, Zenon
<1>5. CASE processVaultSecrets
  <2>1. UNCHANGED <<template, resourceHashes, comp, idx>> /\ pc' = "deploy" /\ idx = 1
    BY <1>5, Zenon DEF processVaultSecrets, TypeOK, PositionType
  <2> QED
    BY <2>1, SameBuilt, Zenon
<1>6. CASE Annotate
  <2>1. UNCHANGED template /\ pc = "annotate" /\ pc' \in {"annotate", "service"}
    BY <1>6, Zenon DEF Annotate
  <2>2. \A c \in Managed : resourceHashes'[c] = resourceHashes[c] \/ c = Current
    BY <1>6, Zenon DEF Annotate, TypeOK, MemoryType, Managed, Component, Section
  <2>3. pc' = "annotate" => UNCHANGED comp
    BY <1>6, Zenon DEF Annotate
  <2> QED
    BY <2>1, <2>2, <2>3, SameBuilt, Zenon
<1>7. CASE \/ \E s \in Secret : EditSecret(s) \/ DeliverSecret(s)
           \/ \E x \in EditableSections : EditSpec(x)
           \/ DeliverCustomResource \/ UNCHANGED vars
  <2>1. UNCHANGED <<template, resourceHashes, pc, comp, idx>>
    BY <1>7, Zenon DEF EditSecret, DeliverSecret, DeliverCustomResource, EditSpec, vars, apiVars,
       memoryVars, callVars
  <2> QED
    BY <2>1, SameBuilt, Zenon
<1> QED
  BY <1>1, <1>2, <1>3, <1>4, <1>5, <1>6, <1>7, DeployBuilt, StepKinds, Zenon

-----------------------------------------------------------------------------
(* The services that are finished.                                         *)

\* Service c is finished for the spec Basis: by the call that is running, or by the
\* last one.
Done(c) == pc = "idle" \/ Passed(c)
Basis == IF pc = "idle" THEN cachedSpec ELSE instSpec

\* The last Deployment of service c is annotated.
Completed(c) == Annotate /\ c = Current /\ idx = Units(Current)

\* If no request waits, a service is finished by its own annotations and by nothing else.
LEMMA DoneBefore ==
    ASSUME TypeOK, BasisInv, [Next]_vars, ~queued', NEW c \in Managed, Done(c)', Basis'[c] # 0
    PROVE  ~queued /\ Basis' = Basis /\ (Done(c) \/ Completed(c))
<1>1. comp \in 1..5 /\ Len(Order) = 4
  BY OrderFacts DEF TypeOK, PositionType
<1>2. CASE Retry \/ Restart
  BY <1>2, Zenon DEF Retry, Restart
<1>3. CASE Silent
  <2>1. CASE Begin
    <3>1. pc' = "service" /\ comp' = 1
      BY <2>1, Zenon DEF Begin, BasisInv
    <3> QED
      BY <3>1 DEF Done, Passed
  <2>2. CASE Finish
    <3>1. pc = "finish" /\ pc' = "idle" /\ UNCHANGED <<queued, cachedSpec>>
      BY <2>2, Zenon DEF Finish, Return
    <3> QED
      BY <3>1, Zenon DEF Done, Passed, Basis, BasisInv
  <2>3. CASE NextService
    <3>1. pc = "service" /\ pc' \in {"publish", "watch", "service"} /\ UNCHANGED <<queued, instSpec>>
      BY <2>3, Zenon DEF NextService, cacheVars, instVars
    <3>2. Basis' = Basis /\ instSpec[c] # 0
      BY <3>1, Zenon DEF Basis
    <3>3. CASE comp > Len(Order)
      <4>1. c \in {Order[1], Order[2], Order[3]}
        BY OrderFacts, Zenon DEF Managed
      <4>2. 1 \in 1..3 /\ 2 \in 1..3 /\ 3 \in 1..3 /\ 1 < comp /\ 2 < comp /\ 3 < comp
        BY <1>1, <3>3
      <4>3. Passed(c)
        BY <4>1, <4>2, Zenon DEF Passed
      <4> QED
        BY <3>1, <3>2, <4>3, Zenon DEF Done
    <3>4. CASE ~(comp > Len(Order)) /\ Current \in Managed /\ instSpec[Current] # 0
      <4>1. pc' = "watch" /\ UNCHANGED comp
        BY <3>4, <2>3, Zenon DEF NextService
      <4> QED
        BY <3>1, <3>2, <4>1, Zenon DEF Done, Passed
    <3>5. CASE ~(comp > Len(Order)) /\ ~(Current \in Managed /\ instSpec[Current] # 0)
      <4>1. pc' = "service" /\ comp' = comp + 1
        BY <3>5, <2>3, Zenon DEF NextService
      <4>2. PICK j \in 1..3 : j < comp + 1 /\ Order[j] = c
        BY <4>1, Zenon DEF Done, Passed
      <4>3. Passed(c)
        BY <1>1, <3>2, <3>5, <4>2 DEF Passed, Current
      <4> QED
        BY <3>1, <3>2, <4>3, Zenon DEF Done
    <3> QED
      BY <3>3, <3>4, <3>5, Zenon
  <2>4. CASE Skip \/ Enter \/ UpdateServiceStatus
    <3>1. /\ pc \in Serving /\ pc' \in Serving /\ UNCHANGED <<queued, instSpec, comp>>
      BY <2>4, Zenon DEF Skip, Enter, UpdateServiceStatus, cacheVars, instVars, Serving
    <3> QED
      BY <3>1, Zenon DEF Done, Passed, Basis, Serving
  <2>5. CASE ~Begin /\ ~Finish /\ ~NextService /\ ~Skip /\ ~Enter /\ ~UpdateServiceStatus
    <3>1. /\ pc \in {"publish", "wait", "probe", "verdict"} /\ pc' # "idle"
          /\ UNCHANGED <<queued, instSpec>>
      BY <1>3, <2>5, Zenon DEF Silent, Publish, AwaitReadiness, ProbeService, ServiceVerdict,
         instVars
    <3> QED
      BY <3>1, Zenon DEF Done, Passed, Basis
  <2> QED
    BY <2>1, <2>2, <2>3, <2>4, <2>5
<1>4. CASE watchSecret \/ processVaultSecrets \/ Deploy
  <2>1. /\ pc \in Serving /\ pc' \in Serving /\ UNCHANGED <<queued, instSpec, comp>>
    BY <1>4, Zenon DEF watchSecret, processVaultSecrets, Deploy, cacheVars, instVars, Serving
  <2> QED
    BY <2>1, Zenon DEF Done, Passed, Basis, Serving
<1>5. CASE Annotate
  <2>1. pc = "annotate" /\ pc' \in {"annotate", "service"} /\ UNCHANGED <<queued, instSpec>>
    BY <1>5, Zenon DEF Annotate, cacheVars, instVars
  <2>2. Basis' = Basis
    BY <2>1, Zenon DEF Basis
  <2>3. CASE idx # Units(Current)
    <3>1. UNCHANGED <<pc, comp>>
      BY <1>5, <2>3, Zenon DEF Annotate
    <3> QED
      BY <2>1, <2>2, <3>1, Zenon DEF Done, Passed
  <2>4. CASE idx = Units(Current)
    <3>1. pc' = "service" /\ comp' = comp + 1
      BY <1>5, <2>4, Zenon DEF Annotate
    <3>2. PICK j \in 1..3 : j < comp + 1 /\ Order[j] = c
      BY <3>1, Zenon DEF Done, Passed
    <3>3. Passed(c) \/ c = Current
      BY <1>1, <3>2 DEF Passed, Current
    <3> QED
      BY <1>5, <2>1, <2>2, <2>4, <3>3, Zenon DEF Done, Completed
  <2> QED
    BY <2>3, <2>4
<1>6. CASE \/ \E s \in Secret : EditSecret(s) \/ DeliverSecret(s)
           \/ \E x \in EditableSections : EditSpec(x)
           \/ UNCHANGED vars
  <2>1. UNCHANGED <<cachedSpec, pc, comp, instSpec>>
    BY <1>6, Zenon DEF EditSecret, DeliverSecret, EditSpec, vars, cacheVars, callVars, instVars
  <2>2. ~queued
    BY <1>6, Zenon DEF EditSecret, DeliverSecret, EditSpec, vars, cacheVars
  <2> QED
    BY <2>1, <2>2, Zenon DEF Done, Passed, Basis
<1>7. CASE DeliverCustomResource
  <2>1. UNCHANGED <<pc, comp, instSpec>> /\ cachedSpec' = spec
    BY <1>7, Zenon DEF DeliverCustomResource, callVars, instVars
  <2>2. ~queued /\ cachedEdits = edits
    BY <1>7, Zenon DEF DeliverCustomResource
  <2> QED
    BY <2>1, <2>2, Zenon DEF Done, Passed, Basis, BasisInv
<1> QED
  BY <1>2, <1>3, <1>4, <1>5, <1>6, <1>7, StepKinds, Zenon

-----------------------------------------------------------------------------
(* The secrets that the call has read for the service it works on.         *)

ReadSoFar == IF pc = "watch" THEN {WatchSeq(Current, instSpec)[j] : j \in 1..(idx - 1)}
             ELSE IF pc \in Serving THEN Watched(Current, instSpec)
             ELSE {}

\* The operator has the current version of the secret, or will be told of a newer one.
Read(s) == secrets[s].owned /\ (seen[s] = secrets[s].rv \/ cachedSecrets[s].rv # secrets[s].rv)

\* While no request waits, every secret that was read is still as it was read, unless
\* an event is on its way.
ReadInv == ~queued => \A s \in ReadSoFar \ ReadOnly : Read(s)

\* A version that the cache has is still the current one after a step that makes no
\* request.
LEMMA StaysBehind ==
    ASSUME TypeOK, TypeOK', VersionInv, [Next]_vars, NEW s \in Secret, secrets[s].owned,
           ~queued'
    PROVE  /\ secrets'[s].owned
           /\ \/ secrets'[s] = secrets[s] /\ cachedSecrets'[s] = cachedSecrets[s]
              \/ cachedSecrets'[s].rv # secrets'[s].rv /\ secrets'[s].rv = secrets[s].rv + 1
<1>1. SecretStep(s) /\ SecretOK(secrets[s], cachedSecrets[s], seen[s], resourceVersions[s])
  BY SecretSteps, Zenon DEF VersionInv
<1>2. cachedSecrets'[s] = cachedSecrets[s]
  BY <1>1, Zenon DEF SecretStep
<1>3. CASE secrets'[s] = secrets[s]
  BY <1>2, <1>3, Zenon
<1>4. CASE SecretMoves(s) /\ secrets'[s] # secrets[s]
  <2>1. secrets'[s].rv = secrets[s].rv + 1 /\ secrets'[s].owned
    BY <1>4, Zenon DEF SecretMoves
  <2>2. cachedSecrets'[s].rv # secrets'[s].rv
    BY <1>1, <1>2, <2>1, SecretTypes, VersionFacts, Zenon DEF SecretOK
  <2> QED
    BY <2>1, <2>2
<1> QED
  BY <1>1, <1>3, <1>4, Zenon DEF SecretStep

LEMMA WatchedSecrets ==
    ASSUME TypeOK
    PROVE  /\ ReadSoFar \subseteq Secret
           /\ Basis \in [Section -> Nat]
           /\ \A c \in Managed : Watched(c, Basis) \subseteq Secret
<1>1. Basis \in [Section -> Nat]
  BY Zenon DEF Basis, TypeOK, InstType, CacheType
<1>2. \A c \in Managed, sp \in [Section -> Nat] : Watched(c, sp) \subseteq Secret
  BY WatchSeqFacts, Zenon DEF Watched
<1>3. CASE pc \in Serving
  <2>1. Current \in Managed /\ instSpec \in [Section -> Nat]
    BY <1>3, ServedFacts, Zenon DEF Serving, TypeOK, InstType
  <2>2. pc = "watch" => \A j \in 1..(idx - 1) : j \in 1..Len(WatchSeq(Current, instSpec))
    BY <2>1, WatchSeqFacts DEF TypeOK, PositionType
  <2>3. pc = "watch" => ReadSoFar \subseteq Watched(Current, instSpec)
    BY <2>2, Zenon DEF ReadSoFar, Watched
  <2> QED
    BY <1>1, <1>2, <1>3, <2>1, <2>3, Zenon DEF ReadSoFar
<1>4. CASE pc \notin Serving
  BY <1>1, <1>2, <1>4, Zenon DEF ReadSoFar, Serving
<1> QED
  BY <1>3, <1>4

LEMMA ReadBefore ==
    ASSUME TypeOK, [Next]_vars, ~queued', NEW s \in ReadSoFar'
    PROVE  /\ ~queued /\ pc' \in Serving
           /\ \/ s \in ReadSoFar
              \/ watchSecret /\ s = WatchSeq(Current, instSpec)[idx]
<1>1. pc' \in Serving
  BY Zenon DEF ReadSoFar, Serving
<1>2. CASE Retry \/ Restart
  BY <1>1, <1>2, Zenon DEF Retry, Restart, Return, Serving
<1>3. CASE Silent
  <2>1. CASE NextService
    <3>1. pc' = "watch" /\ idx' = 1
      BY <1>1, <2>1, Zenon DEF NextService, Serving, TypeOK, PositionType
    <3>2. 1..(idx' - 1) = {}
      BY <3>1
    <3> QED
      BY <3>1, <3>2, Zenon DEF ReadSoFar
  <2>2. CASE Skip \/ Enter \/ UpdateServiceStatus
    <3>1. /\ pc \in Serving \ {"watch"} /\ pc' \in Serving \ {"watch"}
          /\ UNCHANGED <<queued, instSpec, comp>>
      BY <2>2, Zenon DEF Skip, Enter, UpdateServiceStatus, cacheVars, instVars, Serving
    <3> QED
      BY <3>1, Zenon DEF ReadSoFar, Current
  <2>3. CASE ~NextService /\ ~Skip /\ ~Enter /\ ~UpdateServiceStatus
    BY <1>1, <1>3, <2>3, Zenon DEF Silent, Begin, Publish, AwaitReadiness, ProbeService,
       ServiceVerdict, Finish, Return, Serving
  <2> QED
    BY <2>1, <2>2, <2>3
<1>4. CASE watchSecret
  <2>1. UNCHANGED <<queued, instSpec, comp>> /\ pc = "watch" /\ pc' \in {"watch", "gate"}
    BY <1>4, Zenon DEF watchSecret, cacheVars, instVars
  <2>2. Current' = Current /\ idx \in Nat \ {0}
    BY <2>1, Zenon DEF Current, TypeOK, PositionType
  <2>3. CASE idx = Len(WatchSeq(Current, instSpec))
    <3>1. pc' = "gate"
      BY <1>4, <2>3, Zenon DEF watchSecret
    <3>2. PICK j \in 1..idx : s = WatchSeq(Current, instSpec)[j]
      BY <2>1, <2>2, <2>3, <3>1, Zenon DEF ReadSoFar, Serving, Watched
    <3>3. j = idx \/ j \in 1..(idx - 1)
      BY <2>2, <3>2
    <3> QED
      BY <1>1, <1>4, <2>1, <3>2, <3>3, Zenon DEF ReadSoFar
  <2>4. CASE idx # Len(WatchSeq(Current, instSpec))
    <3>1. pc' = "watch" /\ idx' = idx + 1
      BY <1>4, <2>4, Zenon DEF watchSecret
    <3>2. PICK j \in 1..(idx' - 1) : s = WatchSeq(Current, instSpec)[j]
      BY <2>1, <2>2, <3>1, Zenon DEF ReadSoFar
    <3>3. j = idx \/ j \in 1..(idx - 1)
      BY <2>2, <3>1, <3>2
    <3> QED
      BY <1>1, <1>4, <2>1, <3>2, <3>3, Zenon DEF ReadSoFar
  <2> QED
    BY <2>3, <2>4
<1>5. CASE processVaultSecrets \/ Deploy \/ Annotate
  <2>1. /\ pc \in Serving \ {"watch"} /\ pc' \in Serving \ {"watch"}
        /\ UNCHANGED <<queued, instSpec, comp>>
    BY <1>1, <1>5, Zenon DEF processVaultSecrets, Deploy, Annotate, cacheVars, instVars, Serving
  <2> QED
    BY <2>1, Zenon DEF ReadSoFar, Current
<1>6. CASE \/ \E u \in Secret : EditSecret(u) \/ DeliverSecret(u)
           \/ \E x \in EditableSections : EditSpec(x)
           \/ DeliverCustomResource \/ UNCHANGED vars
  <2>1. UNCHANGED <<pc, comp, idx, instSpec>>
    BY <1>6, Zenon DEF EditSecret, DeliverSecret, EditSpec, DeliverCustomResource, vars, callVars,
       instVars
  <2>2. ~queued
    BY <1>6, Zenon DEF EditSecret, DeliverSecret, EditSpec, DeliverCustomResource, vars, cacheVars
  <2> QED
    BY <1>1, <2>1, <2>2, Zenon DEF ReadSoFar, Current
<1> QED
  BY <1>2, <1>3, <1>4, <1>5, <1>6, StepKinds, Zenon

LEMMA StepRead ==
    ASSUME TypeOK, TypeOK', VersionInv, ReadInv, [Next]_vars
    PROVE  ReadInv'
<1> SUFFICES ASSUME ~queued', NEW s \in ReadSoFar', s \notin ReadOnly
             PROVE  Read(s)'
  BY Zenon DEF ReadInv
<1>1. ~queued /\ pc' \in Serving
  BY ReadBefore, Zenon
<1>2. CASE watchSecret /\ s = WatchSeq(Current, instSpec)[idx]
  BY <1>2, WatchEffect, Zenon DEF Read
<1>3. CASE s \in ReadSoFar
  <2>1. s \in Secret /\ Read(s) /\ SecretStep(s)
    BY <1>1, <1>3, WatchedSecrets, SecretSteps, Zenon DEF ReadInv
  <2>2. /\ secrets'[s].owned
        /\ \/ secrets'[s] = secrets[s] /\ cachedSecrets'[s] = cachedSecrets[s]
           \/ cachedSecrets'[s].rv # secrets'[s].rv
    BY <2>1, StaysBehind, Zenon DEF Read
  <2>3. seen'[s] = seen[s] \/ seen'[s] = secrets'[s].rv
    BY <1>1, <2>1, Zenon DEF SecretStep
  <2> QED
    BY <2>1, <2>2, <2>3, Zenon DEF Read
<1> QED
  BY <1>2, <1>3, ReadBefore, Zenon

-----------------------------------------------------------------------------
(* The annotations.                                                        *)

\* The Deployments that the loop has gone over carry the versions that were read.
MarkedInv ==
    pc = "annotate" => \A i \in 1..Servers, s \in Watched(Current, instSpec) :
                          i < idx => restart[Current][i][s] = seen[s]

\* What one round of the loop does.
LEMMA MarkEffect ==
    ASSUME TypeOK, BuiltInv, Annotate
    PROVE  /\ Current \in Managed /\ idx \in 1..Units(Current) /\ idx \in 1..Servers
           /\ \A s \in Watched(Current, instSpec) : restart'[Current][idx][s] = seen[s]
           /\ \A i \in 1..Servers \ {idx} : restart'[Current][i] = restart[Current][i]
           /\ \A c \in Managed \ {Current} : restart'[c] = restart[c]
<1>1. pc = "annotate" /\ Current \in Managed /\ instSpec \in [Section -> Nat]
  BY ServedFacts, Zenon DEF Annotate, TypeOK, InstType
<1>2. idx \in 1..Units(Current) /\ idx \in 1..Servers
  BY <1>1, UnitsFacts, ServersAssumption DEF TypeOK, PositionType
<1> DEFINE marked == Annotated(Current, restart[Current][idx])
<1>3. restart' = [restart EXCEPT ![Current][idx] = marked]
  BY <1>1, <1>2, Zenon DEF Annotate, BuiltInv, Built, Exists
<1>4. \A s \in Watched(Current, instSpec) : marked[s] = seen[s]
  <2>1. Watched(Current, instSpec) \subseteq Secret
    BY <1>1, WatchSeqFacts, Zenon DEF Watched
  <2> QED
    BY <2>1, Zenon DEF Annotated
<1> HIDE DEF marked
<1>5. /\ restart'[Current][idx] = marked
      /\ \A i \in 1..Servers \ {idx} : restart'[Current][i] = restart[Current][i]
      /\ \A c \in Managed \ {Current} : restart'[c] = restart[c]
  BY <1>1, <1>2, <1>3, Zenon DEF TypeOK, ApiType
<1> QED
  BY <1>1, <1>2, <1>4, <1>5, Zenon

LEMMA StepMarked ==
    ASSUME TypeOK, BuiltInv, MarkedInv, [Next]_vars
    PROVE  MarkedInv'
<1>1. CASE pc' # "annotate"
  BY <1>1, Zenon DEF MarkedInv
<1>2. CASE pc' = "annotate" /\ idx' = 1
  <2>1. ~(\E i \in 1..Servers : i < 1)
    BY ServersAssumption
  <2> QED
    BY <1>2, <2>1, Zenon DEF MarkedInv
<1>3. CASE UNCHANGED <<pc, comp, idx, instSpec, restart, seen>>
  BY <1>3, Zenon DEF MarkedInv, Current
<1>4. CASE Annotate /\ pc' = "annotate"
  <2>1. UNCHANGED <<comp, instSpec, seen>> /\ idx' = idx + 1 /\ pc = "annotate"
    BY <1>4, Zenon DEF Annotate, instVars
  <2>2. Current' = Current
    BY <2>1, Zenon DEF Current
  <2>3. \A i \in 1..Servers : i < idx' => i = idx \/ (i # idx /\ i < idx)
    BY <2>1, ServersAssumption DEF TypeOK, PositionType
  <2>4. ASSUME NEW i \in 1..Servers, NEW s \in Watched(Current, instSpec), i < idx'
        PROVE  restart'[Current][i][s] = seen[s]
    <3>1. CASE i = idx
      BY <1>4, <3>1, MarkEffect, Zenon
    <3>2. CASE i # idx /\ i < idx
      <4>1. restart'[Current][i] = restart[Current][i]
        BY <1>4, <3>2, MarkEffect, Zenon
      <4> QED
        BY <2>1, <3>2, <4>1, Zenon DEF MarkedInv
    <3> QED
      BY <2>3, <2>4, <3>1, <3>2, Zenon
  <2> QED
    BY <2>1, <2>2, <2>4, Zenon DEF MarkedInv
<1>5. CASE Retry \/ Restart
  BY <1>1, <1>5, Zenon DEF Retry, Restart, Return
<1>6. CASE Silent
  <2>1. pc' = "annotate" => idx' = 1
    <3>1. CASE Skip \/ UpdateServiceStatus
      BY <3>1, Zenon DEF Skip, UpdateServiceStatus, TypeOK, PositionType
    <3>2. CASE ~Skip /\ ~UpdateServiceStatus
      BY <1>6, <3>2, Zenon DEF Silent, Begin, NextService, Enter, Publish, AwaitReadiness,
         ProbeService, ServiceVerdict, Finish, Return
    <3> QED
      BY <3>1, <3>2
  <2> QED
    BY <1>1, <1>2, <2>1
<1>7. CASE watchSecret \/ processVaultSecrets \/ Deploy
  BY <1>1, <1>7, Zenon DEF watchSecret, processVaultSecrets, Deploy
<1>8. CASE \/ \E u \in Secret : EditSecret(u) \/ DeliverSecret(u)
           \/ \E x \in EditableSections : EditSpec(x)
           \/ DeliverCustomResource \/ UNCHANGED vars
  BY <1>3, <1>8, Zenon DEF EditSecret, DeliverSecret, EditSpec, DeliverCustomResource, vars,
     apiVars, callVars, instVars
<1> QED
  BY <1>1, <1>4, <1>5, <1>6, <1>7, <1>8, StepKinds, Zenon

\* The Deployments of a finished service are left alone.
LEMMA DoneKept ==
    ASSUME TypeOK, BuiltInv, [Next]_vars, NEW c \in Managed, Done(c)
    PROVE  restart'[c] = restart[c]
<1>1. CASE Retry \/ Restart \/ Silent
  BY <1>1, SilentEffect, Zenon DEF Retry, Restart, apiVars
<1>2. CASE watchSecret \/ processVaultSecrets
  BY <1>2, Zenon DEF watchSecret, processVaultSecrets
<1>3. CASE Deploy \/ Annotate
  <2>1. pc \in {"deploy", "annotate"} /\ Current \in Managed /\ c # Current
    BY <1>3, ServedFacts, Zenon DEF Deploy, Annotate, Done
  <2>2. CASE Deploy
    BY <2>1, <2>2, Zenon DEF Deploy, TypeOK, ApiType
  <2>3. CASE Annotate
    BY <2>1, <2>3, MarkEffect, Zenon
  <2> QED
    BY <1>3, <2>2, <2>3
<1>4. CASE \/ \E u \in Secret : EditSecret(u) \/ DeliverSecret(u)
           \/ \E x \in EditableSections : EditSpec(x)
           \/ DeliverCustomResource \/ UNCHANGED vars
  BY <1>4, Zenon DEF EditSecret, DeliverSecret, EditSpec, DeliverCustomResource, vars, apiVars
<1> QED
  BY <1>1, <1>2, <1>3, <1>4, StepKinds, Zenon

\* The Deployments of c carry the current version of s, or an event for s is on its way.
Carried(c, s) ==
    /\ secrets[s].owned
    /\ \/ cachedSecrets[s].rv # secrets[s].rv
       \/ \A i \in 1..Units(c) : restart[c][i][s] = secrets[s].rv

\* While no request waits this holds for every service that is finished.
CarriedInv ==
    ~queued => \A c \in Managed : Done(c) /\ Basis[c] # 0 =>
                  \A s \in Watched(c, Basis) \ ReadOnly : Carried(c, s)

LEMMA StepCarried ==
    ASSUME TypeOK, TypeOK', VersionInv, BasisInv, BuiltInv, ReadInv, MarkedInv, CarriedInv,
           [Next]_vars
    PROVE  CarriedInv'
<1> SUFFICES ASSUME ~queued', NEW c \in Managed, Done(c)', Basis'[c] # 0,
                    NEW s \in Watched(c, Basis'), s \notin ReadOnly
             PROVE  Carried(c, s)'
  BY Zenon DEF CarriedInv
<1>1. ~queued /\ Basis' = Basis /\ (Done(c) \/ Completed(c))
  BY DoneBefore, Zenon
<1>2. s \in Secret /\ s \in Watched(c, Basis) /\ Basis[c] # 0
  BY <1>1, WatchedSecrets, Zenon
<1>3. CASE Done(c)
  <2>1. Carried(c, s) /\ restart'[c] = restart[c]
    BY <1>1, <1>2, <1>3, DoneKept, Zenon DEF CarriedInv
  <2>2. /\ secrets'[s].owned
        /\ \/ secrets'[s] = secrets[s] /\ cachedSecrets'[s] = cachedSecrets[s]
           \/ cachedSecrets'[s].rv # secrets'[s].rv
    BY <1>2, <2>1, StaysBehind, Zenon DEF Carried
  <2> QED
    BY <2>1, <2>2, Zenon DEF Carried
<1>4. CASE Completed(c)
  <2>1. Annotate /\ c = Current /\ idx = Units(c) /\ pc = "annotate"
    BY <1>4, Zenon DEF Completed, Annotate
  <2>2. s \in Watched(c, instSpec) /\ s \in ReadSoFar
    BY <1>2, <2>1, Zenon DEF Basis, ReadSoFar, Serving
  <2>3. Read(s) /\ UNCHANGED <<secrets, cachedSecrets>>
    BY <1>1, <2>1, <2>2, Zenon DEF ReadInv, Annotate, cacheVars
  <2>4. \A i \in 1..Units(c) : i \in 1..Servers /\ (i = idx \/ (i # idx /\ i < idx))
    BY <2>1, UnitsFacts, ServersAssumption
  <2>5. \A i \in 1..Units(c) : restart'[c][i][s] = seen[s]
    BY <2>1, <2>2, <2>4, MarkEffect, ZenonT(60) DEF MarkedInv
  <2> QED
    BY <2>3, <2>5, Zenon DEF Read, Carried
<1> QED
  BY <1>1, <1>3, <1>4

\* At rest every Deployment carries the current version of every secret it watches, for
\* any edits, reverts, conflicts, failures and restarts: the versions are read before
\* they are annotated, a change after that is delivered, and its event is a request.
THEOREM RestIsRestarted == Spec => []QuietRestarted
<1> DEFINE Inv == /\ VersionInv /\ BasisInv /\ InstInv /\ BuiltInv
                  /\ ReadInv /\ MarkedInv /\ CarriedInv
<1>1. Init => Inv
  <2>1. Init => ReadInv /\ MarkedInv /\ CarriedInv
    BY Zenon DEF Init, ReadInv, MarkedInv, CarriedInv
  <2> QED
    BY <2>1, InitVersions, InitBasis, InitInst, InitBuilt, Zenon
<1>2. TypeOK /\ TypeOK' /\ Inv /\ [Next]_vars => Inv'
  BY StepVersions, StepBasis, StepInst, StepBuilt, StepRead, StepMarked, StepCarried, Zenon
<1>3. TypeOK /\ Inv => QuietRestarted
  <2> SUFFICES ASSUME TypeOK, Inv, Quiet, NEW c \in Managed, spec[c] # 0, NEW i \in 1..Units(c),
                      NEW s \in Watched(c, spec) \ ReadOnly
               PROVE  restart[c][i][s] = secrets[s].rv
    BY Zenon DEF QuietRestarted
  <2>1. Done(c) /\ Basis = spec /\ ~queued
    BY Zenon DEF Quiet, Done, Basis, BasisInv
  <2>2. s \in Secret /\ Carried(c, s)
    BY <2>1, WatchedSecrets, Zenon DEF CarriedInv
  <2> QED
    BY <2>2, Zenon DEF Carried, Quiet
<1> QED
  BY <1>1, <1>2, <1>3, TypeCorrect, PTL DEF Spec

-----------------------------------------------------------------------------
(* The requests in the secrets of ZooKeeper and monitoring.                *)

Asked == {"zooKeeper", "monitoring"}
Own(c) == IF c = "zooKeeper" THEN "zooKeeperSecret" ELSE "monitoringSecret"

\* The call has looked whether the own secret of the service holds a request; it has
\* processed the request.
Looked == pc \in {"gate", "vault"} \/ (pc = "watch" /\ idx # 1)
Handled == pc \in {"deploy", "status", "annotate"}

\* The own secret of a service is read first, and by no other service.
LEMMA OwnFacts ==
    ASSUME NEW c \in Asked, NEW sp \in [Section -> Nat]
    PROVE  /\ c \in Managed /\ Own(c) \in Secret /\ Own(c) \notin ReadOnly
           /\ WatchSeq(c, sp)[1] = Own(c) /\ Own(c) \in Watched(c, sp)
           /\ \A d \in Managed : \A j \in 1..Len(WatchSeq(d, sp)) :
                 WatchSeq(d, sp)[j] = Own(c) => d = c /\ j = 1
<1>1. c \in Managed /\ Own(c) \in Secret /\ Own(c) \notin ReadOnly
  BY DEF Asked, Managed, Own, Secret, ReadOnly
<1>2. WatchSeq(c, sp)[1] = Own(c)
  BY DEF Asked, WatchSeq, ZooKeeperSecrets, MonitoringSecrets, Own
<1>3. Own(c) \in Watched(c, sp)
  <2>1. 1 \in 1..Len(WatchSeq(c, sp))
    BY <1>1, WatchSeqFacts
  <2> QED
    BY <1>2, <2>1, Zenon DEF Watched
<1>4. ASSUME NEW d \in Managed, NEW j \in 1..Len(WatchSeq(d, sp)), WatchSeq(d, sp)[j] = Own(c)
      PROVE  d = c /\ j = 1
  <2>1. CASE d = "zooKeeper"
    BY <1>4, <2>1 DEF Asked, WatchSeq, ZooKeeperSecrets, Own
  <2>2. CASE d = "monitoring" /\ sp["backupDaemon"] # 0
    BY <1>4, <2>2 DEF Asked, WatchSeq, MonitoringSecrets, Own
  <2>3. CASE d = "monitoring" /\ ~(sp["backupDaemon"] # 0)
    BY <1>4, <2>3 DEF Asked, WatchSeq, MonitoringSecrets, Own
  <2>4. CASE d = "backupDaemon"
    BY <1>4, <2>4 DEF Asked, WatchSeq, BackupDaemonSecrets, Own
  <2> QED
    BY <2>1, <2>2, <2>3, <2>4 DEF Managed
<1> QED
  BY <1>1, <1>2, <1>3, <1>4, Zenon

LEMMA OwnRead ==
    ASSUME TypeOK, pc \in Serving, NEW c \in Asked, NEW s, s = Own(c)
    PROVE  /\ s \in Secret /\ s \notin ReadOnly
           /\ s \in Watched(Current, instSpec) => Current = c
           /\ WatchSeq(Current, instSpec)[1] = s <=> Current = c
           /\ pc = "watch" => (WatchSeq(Current, instSpec)[idx] = s <=> Current = c /\ idx = 1)
<1> DEFINE seq == WatchSeq(Current, instSpec)
<1>1. instSpec \in [Section -> Nat] /\ Current \in Managed
  BY ServedFacts, Zenon DEF TypeOK, InstType, Serving
<1>2. 1 \in 1..Len(seq) /\ (pc = "watch" => idx \in 1..Len(seq))
  BY <1>1, ServedFacts, WatchSeqFacts DEF Serving
<1>3. \A j \in 1..Len(seq) : seq[j] = s => Current = c /\ j = 1
  <2>1. \A d \in Managed : \A j \in 1..Len(WatchSeq(d, instSpec)) :
           WatchSeq(d, instSpec)[j] = Own(c) => d = c /\ j = 1
    BY <1>1, OwnFacts, Zenon
  <2> QED
    BY <1>1, <2>1, Zenon
<1>4. Current = c => seq[1] = s
  BY <1>1, OwnFacts, Zenon
<1>5. s \in Secret /\ s \notin ReadOnly
  BY <1>1, OwnFacts, Zenon
<1>6. s \in Watched(Current, instSpec) => Current = c
  BY <1>3, Zenon DEF Watched
<1> HIDE DEF seq
<1>7. seq[1] = s <=> Current = c
  BY <1>2, <1>3, <1>4, Zenon
<1>8. pc = "watch" => (seq[idx] = s <=> Current = c /\ idx = 1)
  BY <1>2, <1>3, <1>4, Zenon
<1> QED
  BY <1>5, <1>6, <1>7, <1>8, Zenon DEF seq

\* A version of the secret that is recorded, that was read without finding a request,
\* or whose request was processed, has no request.
Clear(c) ==
    LET s == Own(c)
    IN /\ resourceVersions[s] = secrets[s].rv => ~secrets[s].pending
       /\ Looked /\ Current = c /\ seen[s] = secrets[s].rv /\ ~mustClean => ~secrets[s].pending
       /\ Handled /\ Current = c /\ seen[s] = secrets[s].rv => ~secrets[s].pending

ClearInv == VaultEnabled => \A c \in Asked : Clear(c)

\* A step that leaves the secret alone.
LEMMA SameClear ==
    ASSUME VersionInv, NEW c \in Asked, NEW s, s = Own(c), s \in Secret, Clear(c),
           secrets'[s] = secrets[s],
           resourceVersions'[s] = resourceVersions[s] \/ resourceVersions'[s] = 0,
           (Looked' \/ Handled') /\ Current' = c => Current = c /\ seen'[s] = seen[s],
           Looked' /\ Current' = c => Looked /\ (~mustClean' => ~mustClean),
           Handled' /\ Current' = c =>
              \/ Handled \/ (Looked /\ ~mustClean)
              \/ seen[s] = resourceVersions[s]
    PROVE  Clear(c)'
<1>1. secrets[s].rv # 0
  BY Zenon DEF VersionInv, SecretOK
<1> QED
  BY <1>1, Zenon DEF Clear

\* A step that gives the secret a new version which the operator has not read.
LEMMA NewClear ==
    ASSUME TypeOK, VersionInv, NEW c \in Asked, NEW s, s = Own(c), s \in Secret,
           secrets'[s].rv = secrets[s].rv + 1, UNCHANGED <<resourceVersions, seen>>
    PROVE  Clear(c)'
<1>1. seen'[s] # secrets'[s].rv /\ resourceVersions'[s] # secrets'[s].rv
  <2>1. seen[s] <= secrets[s].rv /\ resourceVersions[s] <= secrets[s].rv
    BY Zenon DEF VersionInv, SecretOK
  <2> QED
    BY <2>1, SecretTypes, VersionFacts, Zenon
<1> QED
  BY <1>1, Zenon DEF Clear

\* Reading the secrets.
LEMMA WatchClear ==
    ASSUME TypeOK, VersionInv, NEW c \in Asked, Clear(c), watchSecret
    PROVE  Clear(c)'
<1> DEFINE s == Own(c)
           read == WatchSeq(Current, instSpec)[idx]
<1>1. /\ pc = "watch" /\ pc' \in {"watch", "gate"}
      /\ UNCHANGED <<comp, instSpec, resourceVersions>>
  BY Zenon DEF watchSecret, instVars, memoryVars
<1>2. /\ s \in Secret /\ s \notin ReadOnly
      /\ read = s => Current = c /\ idx = 1
      /\ Current = c /\ idx = 1 => read = s
  BY <1>1, OwnRead, Zenon DEF Serving
<1>3. ~Handled' /\ Current' = Current
  BY <1>1, Zenon DEF Handled, Current
<1>4. CASE read # s
  <2>1. \A u \in Secret \ {read} : secrets'[u] = secrets[u] /\ seen'[u] = seen[u]
    BY WatchEffect, Zenon
  <2>2. Current = c => Looked /\ (~mustClean' => ~mustClean)
    BY <1>1, <1>2, <1>4, Zenon DEF watchSecret, Looked
  <2>3. secrets'[s] = secrets[s] /\ seen'[s] = seen[s] /\ resourceVersions'[s] = resourceVersions[s]
    BY <1>1, <1>2, <1>4, <2>1, Zenon
  <2> QED
    BY <1>2, <1>3, <2>2, <2>3, SameClear, Zenon
<1>5. CASE read = s
  <2>1. /\ SecretMoves(s) /\ secrets'[s].pending = secrets[s].pending
        /\ mustClean' = secrets[s].pending
    BY <1>2, <1>5, WatchEffect, Zenon
  <2>2. resourceVersions'[s] = secrets'[s].rv => secrets'[s] = secrets[s]
    <3>1. resourceVersions[s] <= secrets[s].rv
      BY <1>2, Zenon DEF VersionInv, SecretOK
    <3>2. resourceVersions[s] # secrets[s].rv + 1
      BY <1>2, <3>1, SecretTypes, VersionFacts, Zenon
    <3> QED
      BY <1>1, <2>1, <3>2, Zenon DEF SecretMoves
  <2>3. ~mustClean' => ~secrets'[s].pending
    BY <2>1, Zenon
  <2> QED
    BY <1>1, <1>3, <2>2, <2>3, Zenon DEF Clear
<1> QED
  BY <1>4, <1>5

\* Processing the request.
LEMMA CleanClear ==
    ASSUME TypeOK, VersionInv, NEW c \in Asked, Clear(c), processVaultSecrets
    PROVE  Clear(c)'
<1> DEFINE s == Own(c)
           own == WatchSeq(Current, instSpec)[1]
<1>1. pc = "vault" /\ pc' = "deploy" /\ UNCHANGED <<comp, instSpec>>
  BY Zenon DEF processVaultSecrets, instVars
<1>2. s \in Secret /\ Current' = Current /\ (own = s <=> Current = c)
  BY <1>1, OwnRead, Zenon DEF Current, Serving
<1>3. ~Looked' /\ Handled' /\ Looked
  BY <1>1, Zenon DEF Looked, Handled
<1>4. CASE own # s
  <2>1. \A u \in Secret \ {own} : /\ secrets'[u] = secrets[u] /\ seen'[u] = seen[u]
                                  /\ resourceVersions'[u] = resourceVersions[u]
    BY CleanEffect, Zenon
  <2> QED
    BY <1>2, <1>3, <1>4, <2>1, SameClear, Zenon
<1>5. CASE ~mustClean /\ UNCHANGED <<secrets, seen, resourceVersions>>
  BY <1>2, <1>3, <1>5, SameClear, Zenon
<1>6. CASE own = s /\ ~secrets'[s].pending
  BY <1>6, Zenon DEF Clear
<1> QED
  BY <1>4, <1>5, <1>6, CleanEffect, Zenon

\* Recording the versions of the secrets with the last annotation.
LEMMA RecordClear ==
    ASSUME TypeOK, VersionInv, NEW c \in Asked, Clear(c), Annotate
    PROVE  Clear(c)'
<1> DEFINE s == Own(c)
<1>1. pc = "annotate" /\ pc' \in {"annotate", "service"} /\ UNCHANGED <<secrets, instSpec>>
  BY Zenon DEF Annotate, instVars
<1>2. s \in Secret /\ (s \in Watched(Current, instSpec) => Current = c)
  BY <1>1, OwnRead, Zenon DEF Serving
<1>3. Handled /\ ~Looked' /\ (Handled' => Current' = Current /\ UNCHANGED seen)
  BY <1>1, Zenon DEF Annotate, Handled, Looked, Current
<1>4. resourceVersions'[s] = resourceVersions[s] \/ (Current = c /\ resourceVersions'[s] = seen[s])
  BY <1>2, Zenon DEF Annotate, Annotated
<1> QED
  BY <1>1, <1>2, <1>3, <1>4, Zenon DEF Clear

LEMMA StepClear ==
    ASSUME TypeOK, VersionInv, ClearInv, [Next]_vars
    PROVE  ClearInv'
<1> SUFFICES ASSUME VaultEnabled, NEW c \in Asked PROVE Clear(c)'
  BY Zenon DEF ClearInv
<1> DEFINE s == Own(c)
<1>1. instSpec \in [Section -> Nat] /\ Clear(c)
  BY Zenon DEF TypeOK, InstType, ClearInv
<1>2. s \in Secret /\ s \in Watched(c, instSpec)
  BY <1>1, OwnFacts, Zenon
<1>3. ASSUME pc' \notin Serving, secrets'[s] = secrets[s],
             resourceVersions'[s] = resourceVersions[s] \/ resourceVersions'[s] = 0
      PROVE  Clear(c)'
  <2>1. ~Looked' /\ ~Handled'
    BY <1>3, Zenon DEF Looked, Handled, Serving
  <2> QED
    BY <1>1, <1>2, <1>3, <2>1, SameClear, Zenon
<1>4. ASSUME UNCHANGED <<secrets, resourceVersions, pc, comp, idx, seen, mustClean>>
      PROVE  Clear(c)'
  BY <1>1, <1>4, Zenon DEF Clear, Looked, Handled, Current
<1>5. CASE Retry
  BY <1>3, <1>5, Zenon DEF Retry, Return, Serving
<1>6. CASE Restart
  BY <1>2, <1>3, <1>6, Zenon DEF Restart, Return, NoVersions, apiVars, Serving
<1>7. CASE Silent
  <2>1. UNCHANGED <<secrets, resourceVersions>>
    BY <1>7, SilentEffect, Zenon
  <2>2. CASE Skip
    <3>1. /\ pc = "gate" /\ pc' = "annotate" /\ UNCHANGED <<comp, seen>>
          /\ \A u \in Watched(Current, instSpec) : resourceVersions[u] = seen[u]
      BY <2>2, Zenon DEF Skip, GateOpen
    <3>2. ~Looked' /\ Current' = Current /\ (Current = c => seen[s] = resourceVersions[s])
      BY <1>2, <3>1, Zenon DEF Looked, Current
    <3> QED
      BY <1>1, <1>2, <2>1, <3>1, <3>2, SameClear, Zenon
  <2>3. CASE Enter
    <3>1. pc = "gate" /\ pc' = "vault" /\ UNCHANGED <<comp, seen, mustClean>>
      BY <2>3, Zenon DEF Enter
    <3>2. Looked /\ ~Handled' /\ Current' = Current
      BY <3>1, Zenon DEF Looked, Handled, Current
    <3> QED
      BY <1>1, <1>2, <2>1, <3>1, <3>2, SameClear, Zenon
  <2>4. CASE UpdateServiceStatus
    <3>1. pc = "status" /\ pc' = "annotate" /\ UNCHANGED <<comp, seen>>
      BY <2>4, Zenon DEF UpdateServiceStatus
    <3>2. Handled /\ ~Looked' /\ Current' = Current
      BY <3>1, Zenon DEF Looked, Handled, Current
    <3> QED
      BY <1>1, <1>2, <2>1, <3>1, <3>2, SameClear, Zenon
  <2>5. CASE NextService
    <3>1. pc' \in {"publish", "watch", "service"} /\ idx' = 1
      BY <2>5, Zenon DEF NextService, TypeOK, PositionType
    <3>2. ~Looked' /\ ~Handled'
      BY <3>1, Zenon DEF Looked, Handled
    <3> QED
      BY <1>1, <1>2, <2>1, <3>2, SameClear, Zenon
  <2>6. CASE ~Skip /\ ~Enter /\ ~UpdateServiceStatus /\ ~NextService
    <3>1. pc' \notin Serving
      BY <1>7, <2>6, Zenon DEF Silent, Begin, Publish, AwaitReadiness, ProbeService,
         ServiceVerdict, Finish, Return, Serving
    <3> QED
      BY <1>3, <2>1, <3>1, Zenon
  <2> QED
    BY <2>2, <2>3, <2>4, <2>5, <2>6
<1>8. CASE Deploy
  <2>1. /\ pc = "deploy" /\ pc' \in {"deploy", "status"}
        /\ UNCHANGED <<secrets, resourceVersions, comp, seen>>
    BY <1>8, Zenon DEF Deploy, memoryVars
  <2>2. Handled /\ ~Looked' /\ Current' = Current
    BY <2>1, Zenon DEF Looked, Handled, Current
  <2> QED
    BY <1>1, <1>2, <2>1, <2>2, SameClear, Zenon
<1>9. CASE \E u \in Secret : EditSecret(u)
  <2>1. PICK u \in Secret : EditSecret(u)
    BY <1>9
  <2>2. UNCHANGED <<resourceVersions, pc, comp, idx, seen, mustClean>>
    BY <2>1, Zenon DEF EditSecret, memoryVars, callVars
  <2>3. CASE u = s
    BY <1>2, <2>1, <2>2, <2>3, EditEffect, NewClear, Zenon
  <2>4. CASE u # s
    BY <1>1, <1>2, <2>1, <2>2, <2>4, EditEffect, Zenon DEF Clear, Looked, Handled, Current
  <2> QED
    BY <2>3, <2>4
<1>10. CASE \/ \E u \in Secret : DeliverSecret(u)
            \/ \E x \in EditableSections : EditSpec(x)
            \/ DeliverCustomResource \/ UNCHANGED vars
  BY <1>4, <1>10, ZenonT(30) DEF DeliverSecret, EditSpec, DeliverCustomResource, vars, apiVars,
     memoryVars, callVars
<1> QED
  BY <1>1, <1>5, <1>6, <1>7, <1>8, <1>9, <1>10, WatchClear, CleanClear, RecordClear, StepKinds,
     Zenon

\* While no request waits, no finished service has left one in its own secret, unless
\* an event for the secret is on its way.
ServedInv ==
    VaultEnabled /\ ~queued =>
       \A c \in Asked : Done(c) /\ Basis[c] # 0 =>
          ~secrets[Own(c)].pending \/ cachedSecrets[Own(c)].rv # secrets[Own(c)].rv

LEMMA StepServed ==
    ASSUME TypeOK, TypeOK', VersionInv, BasisInv, ReadInv, CarriedInv, ClearInv, ServedInv,
           [Next]_vars
    PROVE  ServedInv'
<1> SUFFICES ASSUME VaultEnabled, ~queued', NEW c \in Asked, Done(c)', Basis'[c] # 0, NEW s, s = Own(c)
             PROVE  ~secrets'[s].pending \/ cachedSecrets'[s].rv # secrets'[s].rv
  BY Zenon DEF ServedInv
<1>1. c \in Managed /\ s \in Secret /\ s \notin ReadOnly /\ s \in Watched(c, Basis)
  BY WatchedSecrets, OwnFacts, Zenon
<1>2. ~queued /\ Basis' = Basis /\ (Done(c) \/ Completed(c))
  BY <1>1, DoneBefore, Zenon
<1>3. CASE Done(c)
  <2>1. secrets[s].owned
    BY <1>1, <1>2, <1>3, Zenon DEF CarriedInv, Carried
  <2>2. \/ secrets'[s] = secrets[s] /\ cachedSecrets'[s] = cachedSecrets[s]
        \/ cachedSecrets'[s].rv # secrets'[s].rv
    BY <1>1, <2>1, StaysBehind, Zenon
  <2>3. ~secrets[s].pending \/ cachedSecrets[s].rv # secrets[s].rv
    BY <1>2, <1>3, Zenon DEF ServedInv
  <2> QED
    BY <2>2, <2>3, Zenon
<1>4. CASE Completed(c)
  <2>1. c = Current /\ pc = "annotate" /\ UNCHANGED <<secrets, cachedSecrets>>
    BY <1>4, Zenon DEF Completed, Annotate, cacheVars
  <2>2. s \in ReadSoFar
    BY <1>1, <2>1, Zenon DEF Basis, ReadSoFar, Serving
  <2>3. seen[s] = secrets[s].rv \/ cachedSecrets[s].rv # secrets[s].rv
    BY <1>1, <1>2, <2>2, Zenon DEF ReadInv, Read
  <2>4. seen[s] = secrets[s].rv => ~secrets[s].pending
    BY <2>1, Zenon DEF ClearInv, Clear, Handled
  <2> QED
    BY <2>1, <2>3, <2>4, Zenon
<1> QED
  BY <1>2, <1>3, <1>4, Zenon

\* At rest neither ZooKeeper's nor the monitoring's secret holds unprocessed data or a
\* refresh request, for any edits, reverts, conflicts, failures and restarts: a call
\* passes over a secret only in a version that holds none.
THEOREM RestIsRefreshed == Spec => []QuietRefreshed
<1> DEFINE Inv == /\ VersionInv /\ BasisInv /\ InstInv /\ BuiltInv
                  /\ ReadInv /\ MarkedInv /\ CarriedInv /\ ClearInv /\ ServedInv
<1>1. Init => Inv
  <2>1. Init => ReadInv /\ MarkedInv /\ CarriedInv /\ ServedInv
    BY Zenon DEF Init, ReadInv, MarkedInv, CarriedInv, ServedInv
  <2>2. Init => ClearInv
    <3> SUFFICES ASSUME Init, NEW c \in Asked PROVE Clear(c)
      BY Zenon DEF ClearInv
    <3>1. resourceVersions[Own(c)] # secrets[Own(c)].rv
      <4>1. Own(c) \in Secret
        BY Zenon DEF Own, Secret
      <4>2. secrets[Own(c)].rv # 0 /\ resourceVersions[Own(c)] = 0
        BY <4>1, InitVersions, Zenon DEF Init, NoVersions, VersionInv, SecretOK
      <4> QED
        BY <4>2, Zenon
    <3> QED
      BY <3>1, Zenon DEF Init, Clear, Looked, Handled
  <2> QED
    BY <2>1, <2>2, InitVersions, InitBasis, InitInst, InitBuilt, Zenon
<1>2. TypeOK /\ TypeOK' /\ Inv /\ [Next]_vars => Inv'
  BY StepVersions, StepBasis, StepInst, StepBuilt, StepRead, StepMarked, StepCarried, StepClear,
     StepServed, Zenon
<1>3. TypeOK /\ Inv => QuietRefreshed
  <2> SUFFICES ASSUME TypeOK, Inv, Quiet, VaultEnabled, NEW c \in Asked, spec[c] # 0
               PROVE  ~secrets[Own(c)].pending
    BY Zenon DEF QuietRefreshed, Asked, Own
  <2>1. Done(c) /\ Basis = spec /\ ~queued
    BY Zenon DEF Quiet, Done, Basis, BasisInv
  <2>2. Own(c) \in Secret \ ReadOnly
    BY DEF Asked, Own, Secret, ReadOnly
  <2> QED
    BY <2>1, <2>2, Zenon DEF ServedInv, Quiet
<1> QED
  BY <1>1, <1>2, <1>3, TypeCorrect, PTL DEF Spec

-----------------------------------------------------------------------------
(* The operator does not keep itself busy.                                 *)

First == WatchSeq(Current, instSpec)[1]

\* While no request waits the call works on the generation that is cached.
FetchedInv == ~queued /\ pc # "idle" => instEdits = cachedEdits

\* The secret that the call is about to empty holds a request, or has changed since.
CleanInv == Looked /\ mustClean => secrets[First].pending \/ seen[First] # secrets[First].rv

LEMMA FirstFacts ==
    ASSUME NEW c \in Managed, NEW sp \in [Section -> Nat]
    PROVE  /\ WatchSeq(c, sp)[1] \notin ReadOnly
           /\ WatchSeq(c, sp)[1] \in Watched(c, sp)
           /\ \A j \in 1..Len(WatchSeq(c, sp)) : WatchSeq(c, sp)[j] = WatchSeq(c, sp)[1] => j = 1
<1>1. 1 \in 1..Len(WatchSeq(c, sp))
  BY WatchSeqFacts
<1>2. WatchSeq(c, sp)[1] \in Watched(c, sp)
  BY <1>1, Zenon DEF Watched
<1>3. CASE c = "zooKeeper"
  BY <1>2, <1>3 DEF WatchSeq, ZooKeeperSecrets, ReadOnly
<1>4. CASE c = "monitoring" /\ sp["backupDaemon"] # 0
  BY <1>2, <1>4 DEF WatchSeq, MonitoringSecrets, ReadOnly
<1>5. CASE c = "monitoring" /\ ~(sp["backupDaemon"] # 0)
  BY <1>2, <1>5 DEF WatchSeq, MonitoringSecrets, ReadOnly
<1>6. CASE c = "backupDaemon"
  BY <1>2, <1>6 DEF WatchSeq, BackupDaemonSecrets, ReadOnly
<1> QED
  BY <1>3, <1>4, <1>5, <1>6 DEF Managed

LEMMA FirstServed ==
    ASSUME TypeOK, pc \in Serving, NEW s, s = First
    PROVE  /\ s \in Secret /\ s \notin ReadOnly /\ s \in Watched(Current, instSpec)
           /\ pc = "watch" /\ idx # 1 => WatchSeq(Current, instSpec)[idx] # s
           /\ pc = "watch" /\ idx = 1 => WatchSeq(Current, instSpec)[idx] = s
<1>1. /\ Current \in Managed /\ instSpec \in [Section -> Nat] /\ s \in Secret
      /\ pc = "watch" => idx \in 1..Len(WatchSeq(Current, instSpec))
  BY ServedFacts, Zenon DEF Serving, First, TypeOK, InstType
<1>2. /\ s \notin ReadOnly /\ s \in Watched(Current, instSpec)
      /\ \A j \in 1..Len(WatchSeq(Current, instSpec)) : WatchSeq(Current, instSpec)[j] = s => j = 1
  BY <1>1, FirstFacts, Zenon DEF First
<1> QED
  BY <1>1, <1>2, Zenon DEF First

LEMMA StepFetched ==
    ASSUME TypeOK, FetchedInv, [Next]_vars
    PROVE  FetchedInv'
<1>1. CASE Retry \/ Restart
  BY <1>1, Zenon DEF Retry, Restart, Return, FetchedInv
<1>2. CASE Begin
  BY <1>2, Zenon DEF Begin, FetchedInv
<1>3. CASE Finish
  BY <1>3, Zenon DEF Finish, Return, FetchedInv
<1>4. CASE \/ Silent /\ ~Begin /\ ~Finish
           \/ watchSecret \/ processVaultSecrets \/ Deploy \/ Annotate
  <2>1. UNCHANGED <<cachedEdits, queued, instEdits>>
    BY <1>4, Zenon DEF Silent, NextService, Skip, Enter, UpdateServiceStatus, Publish,
       AwaitReadiness, ProbeService, ServiceVerdict, watchSecret, processVaultSecrets, Deploy,
       Annotate, cacheVars, instVars
  <2>2. pc # "idle"
    BY <1>4, Zenon DEF Silent, NextService, Skip, Enter, UpdateServiceStatus, Publish,
       AwaitReadiness, ProbeService, ServiceVerdict, watchSecret, processVaultSecrets, Deploy,
       Annotate
  <2> QED
    BY <2>1, <2>2, Zenon DEF FetchedInv
<1>5. CASE \/ \E x \in EditableSections : EditSpec(x)
           \/ \E s \in Secret : EditSecret(s) \/ DeliverSecret(s)
           \/ UNCHANGED vars
  <2>1. UNCHANGED <<cachedEdits, pc, instEdits>>
    BY <1>5, Zenon DEF EditSpec, EditSecret, DeliverSecret, vars, cacheVars, callVars, instVars
  <2>2. queued => queued'
    BY <1>5, Zenon DEF EditSpec, EditSecret, DeliverSecret, vars, cacheVars
  <2> QED
    BY <2>1, <2>2, Zenon DEF FetchedInv
<1>6. CASE DeliverCustomResource
  <2>1. UNCHANGED <<pc, instEdits>> /\ cachedEdits' = edits
    BY <1>6, Zenon DEF DeliverCustomResource, callVars, instVars
  <2>2. ~queued' => ~queued /\ cachedEdits = edits
    BY <1>6, Zenon DEF DeliverCustomResource
  <2> QED
    BY <2>1, <2>2, Zenon DEF FetchedInv
<1> QED
  BY <1>1, <1>2, <1>3, <1>4, <1>5, <1>6, StepKinds, Zenon

LEMMA StepClean ==
    ASSUME TypeOK, VersionInv, CleanInv, [Next]_vars
    PROVE  CleanInv'
<1> SUFFICES ASSUME Looked', mustClean', NEW s, s = First', seen'[s] = secrets'[s].rv
             PROVE  secrets'[s].pending
  BY Zenon DEF CleanInv
<1>1. pc' \in {"watch", "gate", "vault"}
  BY Zenon DEF Looked
\* A step of the call, or of others, that leaves this secret as it was read.
<1>2. ASSUME /\ UNCHANGED <<comp, instSpec, mustClean>> /\ Looked
             /\ secrets'[s] = secrets[s] /\ seen'[s] = seen[s]
      PROVE  secrets'[s].pending
  <2>1. First' = First
    BY <1>2, Zenon DEF First, Current
  <2> QED
    BY <1>2, <2>1, Zenon DEF CleanInv
<1>3. CASE Retry \/ Restart
  BY <1>1, <1>3, Zenon DEF Retry, Restart, Return
<1>4. CASE Silent
  <2>1. CASE NextService
    BY <2>1, Zenon DEF NextService, Looked, TypeOK, PositionType
  <2>2. CASE Enter
    <3>1. Looked /\ UNCHANGED <<comp, instSpec, mustClean, secrets, seen>>
      BY <2>2, Zenon DEF Enter, apiVars, instVars, Looked
    <3> QED
      BY <1>2, <3>1, Zenon
  <2>3. CASE ~NextService /\ ~Enter
    BY <1>1, <1>4, <2>3, Zenon DEF Silent, Begin, Skip, UpdateServiceStatus, Publish,
       AwaitReadiness, ProbeService, ServiceVerdict, Finish, Return
  <2> QED
    BY <2>1, <2>2, <2>3, Zenon
<1>5. CASE watchSecret
  <2>1. UNCHANGED <<comp, instSpec>> /\ pc = "watch"
    BY <1>5, Zenon DEF watchSecret, instVars
  <2>2. s = First
    BY <2>1, Zenon DEF First, Current
  <2>3. CASE idx = 1
    <3>1. s = WatchSeq(Current, instSpec)[idx] /\ s \notin ReadOnly
      BY <2>1, <2>2, <2>3, FirstServed, Zenon DEF Serving
    <3>2. secrets'[s].pending = secrets[s].pending /\ mustClean' = secrets[s].pending
      BY <1>5, <2>3, <3>1, WatchEffect, Zenon
    <3> QED
      BY <3>2, Zenon
  <2>4. CASE idx # 1
    <3>1. s \in Secret /\ s # WatchSeq(Current, instSpec)[idx]
      BY <2>1, <2>2, <2>4, FirstServed, Zenon DEF Serving
    <3>2. \A u \in Secret \ {WatchSeq(Current, instSpec)[idx]} :
             secrets'[u] = secrets[u] /\ seen'[u] = seen[u]
      BY <1>5, WatchEffect, Zenon
    <3>3. UNCHANGED mustClean
      BY <1>5, <2>4, Zenon DEF watchSecret
    <3> QED
      BY <1>2, <2>1, <2>4, <3>1, <3>2, <3>3, Zenon DEF Looked
  <2> QED
    BY <2>3, <2>4
<1>6. CASE processVaultSecrets \/ Deploy \/ Annotate
  BY <1>1, <1>6, Zenon DEF processVaultSecrets, Deploy, Annotate
<1>7. CASE \/ \E x \in EditableSections : EditSpec(x)
           \/ \E u \in Secret : DeliverSecret(u)
           \/ DeliverCustomResource \/ UNCHANGED vars
  <2>1. UNCHANGED <<secrets, pc, comp, idx, instSpec, seen, mustClean>>
    BY <1>7, Zenon DEF EditSpec, DeliverSecret, DeliverCustomResource, vars, apiVars, callVars,
       instVars
  <2> QED
    BY <1>2, <2>1, Zenon DEF Looked
<1>8. CASE \E u \in Secret : EditSecret(u)
  <2>1. PICK u \in Secret : EditSecret(u)
    BY <1>8
  <2>2. UNCHANGED <<pc, comp, idx, instSpec, seen, mustClean>>
    BY <2>1, Zenon DEF EditSecret, callVars, instVars
  <2>3. Looked /\ s = First
    BY <2>2, Zenon DEF Looked, First, Current
  <2>4. s \in Secret
    BY <2>3, FirstServed, Zenon DEF Looked, Serving
  <2>5. CASE s # u
    BY <1>2, <2>1, <2>2, <2>3, <2>4, <2>5, EditEffect, Zenon
  <2>6. CASE s = u
    <3>1. seen'[s] = seen[s] /\ secrets'[s].rv = secrets[s].rv + 1
      BY <2>1, <2>2, <2>6, EditEffect, Zenon
    <3>2. seen[s] <= secrets[s].rv
      BY <2>4, Zenon DEF VersionInv, SecretOK
    <3> QED
      BY <2>4, <3>1, <3>2, SecretTypes, VersionFacts, Zenon
  <2> QED
    BY <2>5, <2>6
<1> QED
  BY <1>3, <1>4, <1>5, <1>6, <1>7, <1>8, StepKinds, Zenon

\* The order of the positions of a call.
LEMMA BeforeFacts ==
    ASSUME NEW p1 \in Nat, NEW p2 \in Nat, NEW p3 \in Nat, NEW p4 \in Nat,
           NEW q1 \in Nat, NEW q2 \in Nat, NEW q3 \in Nat, NEW q4 \in Nat
    PROVE  /\ p1 < q1 => Before(<<p1, p2, p3, p4>>, <<q1, q2, q3, q4>>)
           /\ p1 = q1 /\ p2 < q2 => Before(<<p1, p2, p3, p4>>, <<q1, q2, q3, q4>>)
           /\ p1 = q1 /\ p2 = q2 /\ p3 < q3 => Before(<<p1, p2, p3, p4>>, <<q1, q2, q3, q4>>)
           /\ p1 = q1 /\ p2 = q2 /\ p3 = q3 /\ p4 < q4
              => Before(<<p1, p2, p3, p4>>, <<q1, q2, q3, q4>>)
<1> DEFINE p == <<p1, p2, p3, p4>>
           q == <<q1, q2, q3, q4>>
<1>1. /\ p[1] = p1 /\ p[2] = p2 /\ p[3] = p3 /\ p[4] = p4
      /\ q[1] = q1 /\ q[2] = q2 /\ q[3] = q3 /\ q[4] = q4
  OBVIOUS
<1> HIDE DEF p, q
<1>2. ASSUME p1 < q1 PROVE Before(p, q)
  <2>1. 1 \in 1..4 /\ \A j \in 1..(1 - 1) : p[j] = q[j]
    OBVIOUS
  <2> QED
    BY <1>1, <1>2, <2>1, Zenon DEF Before
<1>3. ASSUME p1 = q1, p2 < q2 PROVE Before(p, q)
  <2>1. 2 \in 1..4 /\ \A j \in 1..(2 - 1) : j = 1
    OBVIOUS
  <2> QED
    BY <1>1, <1>3, <2>1, Zenon DEF Before
<1>4. ASSUME p1 = q1, p2 = q2, p3 < q3 PROVE Before(p, q)
  <2>1. 3 \in 1..4 /\ \A j \in 1..(3 - 1) : j = 1 \/ j = 2
    OBVIOUS
  <2> QED
    BY <1>1, <1>4, <2>1, Zenon DEF Before
<1>5. ASSUME p1 = q1, p2 = q2, p3 = q3, p4 < q4 PROVE Before(p, q)
  <2>1. 4 \in 1..4 /\ \A j \in 1..(4 - 1) : j = 1 \/ j = 2 \/ j = 3
    OBVIOUS
  <2> QED
    BY <1>1, <1>5, <2>1, Zenon DEF Before
<1> QED
  BY <1>2, <1>3, <1>4, <1>5, Zenon DEF p, q

LEMMA PartFacts ==
    /\ Part \in Nat
    /\ pc = "idle" => Part = 5
    /\ pc # "idle" => Part < 5
    /\ pc = "finish" => Part = 4
    /\ pc \in {"probe", "verdict"} => Part = 3
    /\ pc = "wait" => Part = 2
    /\ pc = "publish" => Part = 1
    /\ pc \in {"service", "watch", "gate", "vault", "deploy", "status", "annotate"} => Part = 0
<1>1. \A n \in {0, 1, 2, 3, 4} : n \in Nat /\ n < 5
  OBVIOUS
<1>2. Part \in {0, 1, 2, 3, 4} \/ (pc = "idle" /\ Part = 5)
  BY Zenon DEF Part
<1>3. 5 \in Nat
  OBVIOUS
<1>4. Part \in Nat /\ (pc # "idle" => Part < 5)
  BY <1>1, <1>2, <1>3, Zenon
<1> QED
  BY <1>4, Zenon DEF Part

LEMMA PartNextFacts ==
    /\ Part' \in Nat
    /\ pc' = "idle" => Part' = 5
    /\ pc' = "finish" => Part' = 4
    /\ pc' \in {"probe", "verdict"} => Part' = 3
    /\ pc' = "wait" => Part' = 2
    /\ pc' = "publish" => Part' = 1
    /\ pc' \in {"service", "watch", "gate", "vault", "deploy", "status", "annotate"} => Part' = 0
<1>1. {0, 1, 2, 3, 4, 5} \subseteq Nat
  OBVIOUS
<1>2. Part' \in {0, 1, 2, 3, 4, 5}
  BY Zenon DEF Part
<1> QED
  BY <1>1, <1>2, Zenon DEF Part

LEMMA StageFacts ==
    /\ Stage \in Nat
    /\ pc \in {"service", "probe"} => Stage = 0
    /\ pc = "watch" => Stage = 1
    /\ pc = "gate" => Stage = 2
    /\ pc = "vault" => Stage = 3
    /\ pc = "deploy" => Stage = 4
    /\ pc = "status" => Stage = 5
    /\ pc = "annotate" => Stage = 6
<1>1. {0, 1, 2, 3, 4, 5, 6} \subseteq Nat
  OBVIOUS
<1>2. Stage \in {0, 1, 2, 3, 4, 5, 6}
  BY Zenon DEF Stage
<1> QED
  BY <1>1, <1>2, Zenon DEF Stage

LEMMA StageNextFacts ==
    /\ Stage' \in Nat
    /\ pc' \in {"watch", "verdict"} => Stage' = 1
    /\ pc' = "gate" => Stage' = 2
    /\ pc' = "vault" => Stage' = 3
    /\ pc' = "deploy" => Stage' = 4
    /\ pc' = "status" => Stage' = 5
    /\ pc' = "annotate" => Stage' = 6
<1>1. {0, 1, 2, 3, 4, 5, 6} \subseteq Nat
  OBVIOUS
<1>2. Stage' \in {0, 1, 2, 3, 4, 5, 6}
  BY Zenon DEF Stage
<1> QED
  BY <1>1, <1>2, Zenon DEF Stage

\* The order of the parts and stages, for provers that do not calculate.
LEMMA DigitFacts ==
    /\ 0 < 1 /\ 1 < 2 /\ 1 < 4 /\ 2 < 3 /\ 2 < 4 /\ 2 < 6 /\ 3 < 4 /\ 4 < 5 /\ 5 < 6
OBVIOUS

LEMMA Forward ==
    ASSUME TypeOK, TypeOK',
           \/ Part < Part'
           \/ Part = Part' /\ comp < comp'
           \/ Part = Part' /\ comp = comp' /\ Stage < Stage'
           \/ Part = Part' /\ comp = comp' /\ Stage = Stage' /\ idx < idx'
    PROVE  Before(Position, Position')
<1>1. comp \in Nat /\ idx \in Nat
  BY ServersAssumption DEF TypeOK, PositionType
<1>2. comp' \in Nat /\ idx' \in Nat
  BY ServersAssumption DEF TypeOK, PositionType
<1>3. Part \in Nat /\ Stage \in Nat /\ Part' \in Nat /\ Stage' \in Nat
  BY PartFacts, PartNextFacts, StageFacts, StageNextFacts, Zenon
<1>4. Position = <<Part, comp, Stage, idx>> /\ Position' = <<Part', comp', Stage', idx'>>
  BY DEF Position
<1> QED
  BY <1>1, <1>2, <1>3, <1>4, BeforeFacts, ZenonT(30)

\* A step of a call that goes on: the call comes closer to its end.
LEMMA CallForward ==
    ASSUME TypeOK, TypeOK',
           \/ Silent /\ ~Begin
           \/ watchSecret \/ processVaultSecrets \/ Deploy \/ Annotate
    PROVE  UNCHANGED queued /\ Before(Position, Position')
<1>0. comp \in Nat /\ idx \in Nat /\ comp < comp + 1 /\ idx < idx + 1
  BY DEF TypeOK, PositionType
<1>1. UNCHANGED queued
  BY SilentEffect, Zenon DEF watchSecret, processVaultSecrets, Deploy, Annotate, cacheVars
<1>2. CASE NextService
  <2>1. \/ pc = "service" /\ pc' = "publish"
        \/ pc = "service" /\ pc' = "watch" /\ comp' = comp
        \/ pc = "service" /\ pc' = "service" /\ comp' = comp + 1
    BY <1>2, Zenon DEF NextService
  <2>2. \/ Part < Part'
        \/ Part = Part' /\ comp = comp' /\ Stage < Stage'
        \/ Part = Part' /\ comp < comp'
    BY <1>0, <2>1, PartFacts, PartNextFacts, StageFacts, StageNextFacts,
       DigitFacts, Zenon
  <2> QED
    BY <1>1, <2>2, Forward, Zenon
<1>3. CASE Skip \/ Enter \/ UpdateServiceStatus \/ processVaultSecrets
  <2>1. /\ comp' = comp
        /\ \/ pc = "gate" /\ pc' = "annotate"
           \/ pc = "gate" /\ pc' = "vault"
           \/ pc = "gate" /\ pc' = "deploy"
           \/ pc = "status" /\ pc' = "annotate"
           \/ pc = "vault" /\ pc' = "deploy"
    BY <1>3, Zenon DEF Skip, Enter, UpdateServiceStatus, processVaultSecrets
  <2>2. Part = Part' /\ Stage < Stage'
    BY <2>1, PartFacts, PartNextFacts, StageFacts, StageNextFacts,
       DigitFacts, Zenon
  <2> QED
    BY <1>1, <2>1, <2>2, Forward, Zenon
<1>4. CASE watchSecret
  <2>1. /\ comp' = comp /\ pc = "watch"
        /\ pc' = "gate" \/ (pc' = "watch" /\ idx' = idx + 1)
    BY <1>4, Zenon DEF watchSecret
  <2>2. Part = Part' /\ (Stage < Stage' \/ (Stage = Stage' /\ idx < idx'))
    BY <1>0, <2>1, PartFacts, PartNextFacts, StageFacts, StageNextFacts,
       DigitFacts, Zenon
  <2> QED
    BY <1>1, <2>1, <2>2, Forward, Zenon
<1>5. CASE Deploy
  <2>1. /\ comp' = comp /\ pc = "deploy"
        /\ pc' = "status" \/ (pc' = "deploy" /\ idx' = idx + 1)
    BY <1>5, Zenon DEF Deploy
  <2>2. Part = Part' /\ (Stage < Stage' \/ (Stage = Stage' /\ idx < idx'))
    BY <1>0, <2>1, PartFacts, PartNextFacts, StageFacts, StageNextFacts,
       DigitFacts, Zenon
  <2> QED
    BY <1>1, <2>1, <2>2, Forward, Zenon
<1>6. CASE Annotate
  <2>1. /\ pc = "annotate"
        /\ \/ pc' = "service" /\ comp' = comp + 1
           \/ pc' = "annotate" /\ comp' = comp /\ idx' = idx + 1
    BY <1>6, Zenon DEF Annotate
  <2>2. /\ Part = Part'
        /\ comp < comp' \/ (comp = comp' /\ Stage = Stage' /\ idx < idx')
    BY <1>0, <2>1, PartFacts, PartNextFacts, StageFacts, StageNextFacts,
       DigitFacts, Zenon
  <2> QED
    BY <1>1, <2>2, Forward, Zenon
<1>7. CASE (\E written \in BOOLEAN : Publish(written)) \/ AwaitReadiness \/ Finish
  <2>1. \/ pc = "publish" /\ pc' = "wait"
        \/ pc = "publish" /\ pc' = "finish"
        \/ pc = "wait" /\ pc' = "probe"
        \/ pc = "finish" /\ pc' = "idle"
    BY <1>7, Zenon DEF Publish, AwaitReadiness, Finish, Return
  <2>2. Part < Part'
    BY <2>1, PartFacts, PartNextFacts, DigitFacts, Zenon
  <2> QED
    BY <1>1, <2>2, Forward, Zenon
<1>8. CASE ProbeService \/ \E ready \in BOOLEAN : ServiceVerdict(ready)
  <2>1. \/ pc = "probe" /\ pc' = "finish"
        \/ pc = "probe" /\ pc' = "probe" /\ comp' = comp + 1
        \/ pc = "probe" /\ pc' = "verdict" /\ comp' = comp
        \/ pc = "verdict" /\ pc' = "probe" /\ comp' = comp + 1
    BY <1>8, Zenon DEF ProbeService, ServiceVerdict
  <2>2. \/ Part < Part'
        \/ Part = Part' /\ comp = comp' /\ Stage < Stage'
        \/ Part = Part' /\ comp < comp'
    BY <1>0, <2>1, PartFacts, PartNextFacts, StageFacts, StageNextFacts,
       DigitFacts, Zenon
  <2> QED
    BY <1>1, <2>2, Forward, Zenon
<1> QED
  BY <1>2, <1>3, <1>4, <1>5, <1>6, <1>7, <1>8, Zenon DEF Silent

LEMMA SameLeft ==
    ASSUME UNCHANGED <<secrets, cachedSecrets, cachedEdits, edits>>
    PROVE  UNCHANGED <<Unowned, Requested, Undelivered>>
BY Zenon DEF Unowned, Requested, Undelivered

\* A retry for a conflict: what the call worked with was outdated, or the request waits.
LEMMA ConflictAdvances ==
    ASSUME TypeOK, TypeOK', ReadInv, FetchedInv,
           watchSecretConflict \/ processVaultSecretsConflict \/ StatusConflict
    PROVE  Advances
<1>1. Retry /\ pc # "idle" /\ pc' = "idle" /\ queued' = TRUE
  BY GivesUp, Zenon DEF Retry, Return, watchSecretConflict, processVaultSecretsConflict,
     StatusConflict
<1>2. UNCHANGED <<Unowned, Requested, Undelivered>>
  BY <1>1, SameLeft, Zenon DEF Retry
<1>3. CASE queued
  <2>1. queued' = queued
    BY <1>1, <1>3, Zenon DEF TypeOK, CacheType
  <2>2. Part < Part'
    BY <1>1, PartFacts, PartNextFacts
  <2> QED
    BY <1>2, <2>1, <2>2, Forward, Zenon DEF Advances, CallAdvances
<1>4. CASE ~queued
  <2>1. CASE watchSecretConflict
    <3> DEFINE s == WatchSeq(Current, instSpec)[idx]
    <3>1. s \in Secret /\ cachedSecrets[s].rv # secrets[s].rv
      BY <2>1, ServedFacts, Zenon DEF watchSecretConflict
    <3> QED
      BY <1>1, <1>2, <3>1, Zenon DEF Advances, CallAdvances, Undelivered
  <2>2. CASE processVaultSecretsConflict
    <3>1. pc = "vault" /\ secrets[First].rv # seen[First]
      BY <2>2, Zenon DEF processVaultSecretsConflict, First
    <3>2. First \in Secret /\ First \notin ReadOnly /\ First \in Watched(Current, instSpec)
      BY <3>1, FirstServed, Zenon DEF Serving
    <3>3. First \in ReadSoFar
      BY <3>1, <3>2, Zenon DEF ReadSoFar, Serving
    <3>4. cachedSecrets[First].rv # secrets[First].rv
      BY <1>4, <3>1, <3>2, <3>3, Zenon DEF ReadInv, Read
    <3> QED
      BY <1>1, <1>2, <3>2, <3>4, Zenon DEF Advances, CallAdvances, Undelivered
  <2>3. CASE StatusConflict
    <3>1. behind \/ instEdits # edits
      BY <2>3, Zenon DEF StatusConflict, Fresh
    <3>2. behind \/ "customResource" \in Undelivered
      BY <1>1, <1>4, <3>1, Zenon DEF FetchedInv, Undelivered
    <3> QED
      BY <1>1, <1>2, <3>2, Zenon DEF Advances, CallAdvances
  <2> QED
    BY <2>1, <2>2, <2>3
<1> QED
  BY <1>3, <1>4

\* watchSecret writes a secret only to become its owner.
LEMMA WatchAdvances ==
    ASSUME TypeOK, TypeOK', VersionInv, watchSecret
    PROVE  Advances
<1> DEFINE s == WatchSeq(Current, instSpec)[idx]
           found == cachedSecrets[s]
<1>1. s \in Secret /\ UNCHANGED <<cachedSecrets, cachedEdits, edits>>
  BY ServedFacts, Zenon DEF watchSecret, cacheVars
<1>2. \A u \in Secret \ {s} : secrets'[u] = secrets[u]
  BY WatchEffect, Zenon
<1>3. secrets'[s].pending = secrets[s].pending
  BY WatchEffect, Zenon
<1>4. secrets'[s] = secrets[s] \/ (~secrets[s].owned /\ secrets'[s].owned)
  <2>1. CASE s \in ReadOnly
    BY <2>1, Zenon DEF watchSecret
  <2>2. CASE s \notin ReadOnly
    <3>1. found.rv = secrets[s].rv /\ secrets'[s].owned
      BY <2>2, WatchEffect, Zenon DEF watchSecret
    <3>2. found = secrets[s]
      BY <1>1, <3>1, Zenon DEF VersionInv, SecretOK
    <3>3. CASE secrets[s].owned
      <4>1. secrets' = [secrets EXCEPT ![s] = found]
        BY <2>2, <3>2, <3>3, Zenon DEF watchSecret
      <4> QED
        BY <1>1, <3>2, <4>1, Zenon DEF TypeOK, ApiType
    <3> QED
      BY <3>1, <3>3, Zenon
  <2> QED
    BY <2>1, <2>2
<1> HIDE DEF s, found
<1>5. Requested' = Requested
  BY <1>1, <1>2, <1>3, Zenon DEF Requested
<1>6. CASE secrets'[s] = secrets[s]
  <2>1. \A u \in Secret : secrets'[u] = secrets[u]
    BY <1>2, <1>6, Zenon
  <2>2. Unowned' = Unowned /\ Undelivered' = Undelivered
    BY <1>1, <2>1, Zenon DEF Unowned, Undelivered
  <2> QED
    BY <1>5, <2>2, CallForward, Zenon DEF Advances, CallAdvances
<1>7. CASE ~secrets[s].owned /\ secrets'[s].owned
  <2>1. s \in Unowned /\ s \notin Unowned' /\ Unowned' \subseteq Unowned
    BY <1>1, <1>2, <1>7, Zenon DEF Unowned
  <2> QED
    BY <1>5, <2>1, Zenon DEF Advances, SecretSettled
<1> QED
  BY <1>4, <1>6, <1>7

\* processVaultSecrets writes a secret only to take back the request in it.
LEMMA VaultAdvances ==
    ASSUME TypeOK, TypeOK', CleanInv, processVaultSecrets
    PROVE  Advances
<1> DEFINE s == WatchSeq(Current, instSpec)[1]
<1>1. s \in Secret /\ UNCHANGED <<cachedSecrets, cachedEdits, edits>>
  BY ServedFacts, Zenon DEF processVaultSecrets, cacheVars
<1>2. CASE ~mustClean
  <2>1. UNCHANGED secrets
    BY <1>2, Zenon DEF processVaultSecrets
  <2> QED
    BY <1>1, <2>1, SameLeft, CallForward, Zenon DEF Advances, CallAdvances
<1>3. CASE mustClean
  <2>1. secrets[s].rv = seen[s] /\ Looked
    BY <1>3, Zenon DEF processVaultSecrets, Looked
  <2>2. secrets[s].pending
    BY <1>3, <2>1, Zenon DEF CleanInv, First
  <2>3. /\ \A u \in Secret \ {s} : secrets'[u] = secrets[u]
        /\ ~secrets'[s].pending /\ secrets'[s].owned = secrets[s].owned
    BY <1>3, CleanEffect, Zenon
  <2> HIDE DEF s
  <2>4. s \in Requested /\ s \notin Requested' /\ Requested' \subseteq Requested
    BY <1>1, <2>2, <2>3, Zenon DEF Requested
  <2>5. Unowned' = Unowned
    BY <1>1, <2>3, Zenon DEF Unowned
  <2> QED
    BY <2>4, <2>5, Zenon DEF Advances, SecretSettled
<1> QED
  BY <1>2, <1>3

LEMMA DeliveryAdvances ==
    ASSUME TypeOK, DeliverCustomResource \/ \E s \in Secret : DeliverSecret(s)
    PROVE  Advances
<1>1. UNCHANGED <<secrets, edits>> /\ "customResource" \notin Secret
  BY DEF DeliverCustomResource, DeliverSecret, apiVars, Secret
<1>2. UNCHANGED <<Unowned, Requested>>
  BY <1>1, Zenon DEF Unowned, Requested
<1>3. CASE DeliverCustomResource
  <2>1. UNCHANGED cachedSecrets /\ cachedEdits' = edits
    BY <1>3, Zenon DEF DeliverCustomResource
  <2>2. CASE cachedEdits # edits
    <3>1. /\ "customResource" \in Undelivered /\ "customResource" \notin Undelivered'
          /\ Undelivered' \subseteq Undelivered
      BY <1>1, <2>1, <2>2, Zenon DEF Undelivered
    <3> QED
      BY <1>2, <3>1, Zenon DEF Advances, UpdateDelivered
  <2>3. CASE cachedEdits = edits
    <3>1. UNCHANGED Undelivered
      BY <1>1, <2>1, <2>3, Zenon DEF Undelivered
    <3>2. queued' = (queued \/ FALSE) /\ UNCHANGED callVars /\ statusLag /\ ~statusLag'
      BY <1>3, <2>3, Zenon DEF DeliverCustomResource
    <3>3. UNCHANGED queued
      BY <3>2, Zenon DEF TypeOK, CacheType
    <3> QED
      BY <1>2, <3>1, <3>2, <3>3, Zenon DEF Advances, CallAdvances
  <2> QED
    BY <2>2, <2>3
<1>4. CASE \E s \in Secret : DeliverSecret(s)
  <2>1. PICK s \in Secret : DeliverSecret(s)
    BY <1>4
  <2>2. /\ UNCHANGED cachedEdits /\ cachedSecrets[s].rv # secrets[s].rv
        /\ cachedSecrets' = [cachedSecrets EXCEPT ![s] = secrets[s]]
    BY <2>1, Zenon DEF DeliverSecret
  <2>3. cachedSecrets'[s] = secrets[s] /\ \A u \in Secret \ {s} : cachedSecrets'[u] = cachedSecrets[u]
    BY <2>2, Zenon DEF TypeOK, CacheType
  <2>4. s # "customResource"
    BY <1>1, Zenon
  <2>5. s \in Undelivered /\ s \notin Undelivered' /\ Undelivered' \subseteq Undelivered
    BY <1>1, <2>2, <2>3, <2>4, Zenon DEF Undelivered
  <2> QED
    BY <1>2, <2>5, Zenon DEF Advances, UpdateDelivered
<1> QED
  BY <1>3, <1>4

LEMMA StepAdvances ==
    ASSUME TypeOK, TypeOK', VersionInv, ReadInv, FetchedInv, CleanInv, Next
    PROVE  Advances
<1>1. CASE \/ CallFails \/ Restart
           \/ \E x \in EditableSections : EditSpec(x)
           \/ \E s \in EditableSecrets : EditSecret(s)
  <2>1. \A n \in Nat : n + 1 # n
    OBVIOUS
  <2>2. edits \in Nat /\ secretEdits \in Nat /\ failures \in Nat /\ crashes \in Nat
    BY Zenon DEF TypeOK, ApiType, BoundType
  <2>3. edits' # edits \/ secretEdits' # secretEdits \/ failures' # failures \/ crashes' # crashes
    BY <1>1, <2>1, <2>2, Zenon DEF CallFails, Restart, EditSpec, EditSecret
  <2>4. <<edits, boundVars>>' # <<edits, boundVars>>
    BY <2>3 DEF boundVars
  <2> QED
    BY <2>4, Zenon DEF Advances
<1>2. CASE watchSecretConflict \/ processVaultSecretsConflict \/ StatusConflict
  BY <1>2, ConflictAdvances, Zenon
<1>3. CASE Begin
  <2>1. queued /\ ~queued' /\ UNCHANGED <<secrets, cachedSecrets, cachedEdits, edits>>
    BY <1>3, Zenon DEF Begin
  <2> QED
    BY <2>1, SameLeft, Zenon DEF Advances, CallAdvances
<1>4. CASE Silent /\ ~Begin
  <2>1. UNCHANGED <<secrets, cachedSecrets, cachedEdits, edits>>
    BY <1>4, SilentEffect, Zenon
  <2> QED
    BY <1>4, <2>1, SameLeft, CallForward, Zenon DEF Advances, CallAdvances
<1>5. CASE Deploy \/ Annotate
  <2>1. UNCHANGED <<secrets, cachedSecrets, cachedEdits, edits>>
    BY <1>5, Zenon DEF Deploy, Annotate, cacheVars
  <2> QED
    BY <1>5, <2>1, SameLeft, CallForward, Zenon DEF Advances, CallAdvances
<1>6. CASE watchSecret \/ processVaultSecrets
  BY <1>6, WatchAdvances, VaultAdvances, Zenon
<1>7. CASE DeliverCustomResource \/ \E s \in Secret : DeliverSecret(s)
  BY <1>7, DeliveryAdvances, Zenon
<1> QED
  BY <1>1, <1>2, <1>3, <1>4, <1>5, <1>6, <1>7, Zenon DEF Next, OperatorStep, Silent

\* The operator never keeps itself busy: whatever the instance, every step except the
\* users' updates, failures and restarts settles a secret for good, delivers an update,
\* or brings the call closer to its end, and only outdated data makes a call be retried
\* (Reconcile's returned errors, and the predicates that filter the operator's own
\* status updates out).
THEOREM OperatorProgresses == Spec => Progress
<1>1. Init => FetchedInv /\ CleanInv /\ ReadInv
  BY Zenon DEF Init, FetchedInv, CleanInv, Looked, ReadInv, ReadSoFar, Serving
<1>2. TypeOK /\ TypeOK' /\ VersionInv /\ FetchedInv /\ CleanInv /\ ReadInv /\ [Next]_vars
      => FetchedInv' /\ CleanInv' /\ ReadInv'
  BY StepFetched, StepClean, StepRead, Zenon
<1>3. TypeOK /\ TypeOK' /\ VersionInv /\ FetchedInv /\ CleanInv /\ ReadInv /\ [Next]_vars
      => [Advances]_vars
  BY StepAdvances, Zenon
<1>4. Init => VersionInv
  BY InitVersions, Zenon
<1>5. TypeOK /\ TypeOK' /\ VersionInv /\ [Next]_vars => VersionInv'
  BY StepVersions, Zenon
<1> QED
  BY <1>1, <1>2, <1>3, <1>4, <1>5, TypeCorrect, PTL DEF Spec, Progress

=============================================================================
