-------------------------- MODULE VaultNamesProofs --------------------------
(***************************************************************************)
(* Proofs about VaultCredentials, for every choice of services, number of  *)
(* servers and bound: types; that every name that a user asked for is      *)
(* where the reconcilers will look for it (NamesAccounted); that no        *)
(* Deployment exists before what its pods read from Vault (VaultReady);    *)
(* and what the copies of the secrets in the reconcilers' memory are       *)
(* (MemInv).                                                               *)
(***************************************************************************)
EXTENDS VaultCredentials, TLAPS

(* Facts about services, entries and Deployments.                          *)

LEMMA UnitsFacts ==
    /\ \A s : Units(s) \in 1..Servers
    /\ Units("none") = 1
BY ServersAssumption DEF Units

LEMMA AfterFacts ==
    ASSUME NEW s \in Services \cup {"none"}
    PROVE  After(s) \in Services \cup {"none"}
BY ServicesAssumption DEF After

LEMMA DeploymentFacts ==
    ASSUME NEW s \in Services, NEW i \in 1..Units(s)
    PROVE  <<s, i>> \in Deployment
BY UnitsFacts, ServicesAssumption, ServersAssumption DEF Deployment

\* Each entry belongs to the secret of exactly one service.
LEMMA OwnerFacts ==
    /\ Owner \in [Entry -> Service]
    /\ \A s \in Service : EntriesOf[s] \subseteq Entry
    /\ \A s \in Service, e \in Entry : e \in EntriesOf[s] <=> Owner[e] = s
BY DEF Owner, EntriesOf, Service, Entry, ZooKeeperEntries

\* Copies and emptied secrets are secrets.
LEMMA SecretFacts ==
    /\ NoSecret \in SecretObject
    /\ NoSecret.rv = 0 /\ NoSecret.names = NoNames
    /\ NoNames \in [Entry -> Nat] /\ NoVersions \in [Entry -> Nat]
    /\ \A s \in Service : NewSecret(s) \in SecretObject
BY DEF NoSecret, NoNames, NoVersions, NewSecret, SecretObject

LEMMA WithOwnerFacts ==
    ASSUME NEW o \in SecretObject
    PROVE  /\ WithOwner(o) \in SecretObject
           /\ WithOwner(o).rv \in {o.rv, o.rv + 1}
           /\ WithOwner(o).names = o.names
           /\ WithOwner(o).refresh = o.refresh
BY DEF WithOwner, SecretObject

LEMMA CleanedFacts ==
    ASSUME NEW o \in SecretObject
    PROVE  /\ Cleaned(o) \in SecretObject
           /\ Cleaned(o).rv = o.rv + 1
           /\ Cleaned(o).names = NoNames
           /\ ~Cleaned(o).refresh
BY SecretFacts DEF Cleaned, SecretObject

LEMMA RemovedFacts ==
    ASSUME NEW o \in SecretObject
    PROVE  Removed(o) \in SecretObject /\ Removed(o).rv = 0 /\ Removed(o).names = NoNames
BY SecretFacts DEF Removed, SecretObject

LEMMA GrantsFacts ==
    ASSUME NEW s \in Service
    PROVE  /\ Len(GrantsOf(s)) \in Nat
           /\ \A j \in 1..Len(GrantsOf(s)) : GrantsOf(s)[j] \in Grant
BY DEF GrantsOf, ZooKeeperGrants, MonitoringGrants, BackupDaemonGrants, Grant, Service

-----------------------------------------------------------------------------
(* Type correctness.                                                       *)

\* Nothing is left of a call that is over.
LEMMA ReturnedType ==
    ASSUME Returned
    PROVE  CallType'
<1>1. mem' \in [Service -> SecretObject] /\ versions' \in [Entry -> Nat]
  BY SecretFacts DEF Returned
<1>2. server' \in 1..Units(cur')
  BY UnitsFacts DEF Returned
<1> QED
  BY <1>1, <1>2, Zenon DEF Returned, CallType, Step

\* A call that fails writes at most the versions of the instance to the status.
LEMMA FailType ==
    ASSUME TypeOK, NEW o \in BOOLEAN, Fail(o)
    PROVE  /\ CacheType' /\ CallType'
           /\ reported' \in [Entry -> Nat]
           /\ lost' \in BOOLEAN
<1>1. CallType'
  BY ReturnedType DEF Fail
<1>2. reported' \in [Entry -> Nat] /\ lost' \in BOOLEAN /\ statusLag' \in BOOLEAN
  <2>1. CASE StatusUpdate /\ UNCHANGED lost
    BY <2>1 DEF StatusUpdate, TypeOK, CallType, HistoryType
  <2>2. CASE /\ lost' = (lost \/ Unreported)
             /\ UNCHANGED <<reported, statusLag>>
    BY <2>2 DEF TypeOK, StoreType, CacheType, HistoryType
  <2> QED
    BY <2>1, <2>2 DEF Fail, writeFailedStatus
<1>3. CacheType'
  BY <1>2, Zenon DEF Fail, TypeOK, CacheType
<1> QED
  BY <1>1, <1>2, <1>3, Zenon

\* An entry that is written keeps a version and a name.
LEMMA WriteType ==
    ASSUME TypeOK, NEW e \in Entry, cur \in Service, WriteVaultSecret(e)
    PROVE  /\ vault' \in [Entry -> [version : Nat, name : Nat]]
           /\ restarted' \subseteq deployed
<1>1. NameFor(e) \in Nat
  BY DEF NameFor, TypeOK, StoreType, CallType, SecretObject
<1>2. vault' \in [Entry -> [version : Nat, name : Nat]]
  BY <1>1 DEF WriteVaultSecret, TypeOK, StoreType
<1> QED
  BY <1>2, Zenon DEF WriteVaultSecret, TypeOK, DeployType

\* Begin, Gate and the conditions at the end of Reconcile change no object.
LEMMA BeginType ==
    ASSUME TypeOK, Begin
    PROVE  TypeOK'
<1>1. CallType'
  BY UnitsFacts, ServicesAssumption
  DEF Begin, TypeOK, CallType, CacheType, Step, After
<1> QED
  BY <1>1, Zenon DEF Begin, TypeOK, StoreType, DeployType, CacheType, MemoryType, HistoryType,
              vaultVars, deployVars, memoryVars, userVars

LEMMA WatchType ==
    ASSUME TypeOK, watchSecret
    PROVE  TypeOK'
<1>1. Target \in Service
  BY ServicesAssumption, Zenon DEF watchSecret, Target, TypeOK, CallType, Service
<1>2. secrets' \in [Service -> SecretObject] /\ mem' \in [Service -> SecretObject]
  <2> DEFINE own == WithOwner(secrets[Target])
  <2>1. own \in SecretObject
    BY <1>1, WithOwnerFacts DEF TypeOK, StoreType
  <2> HIDE DEF own
  <2>2. CASE secrets' = [secrets EXCEPT ![Target] = own] /\ mem' = [mem EXCEPT ![Target] = own]
    BY <1>1, <2>1, <2>2, Zenon DEF TypeOK, StoreType, CallType
  <2>3. CASE UNCHANGED <<secrets, mem>>
    BY <2>3, Zenon DEF TypeOK, StoreType, CallType
  <2> QED
    BY <2>2, <2>3, Zenon DEF watchSecret, own
<1>3. CallType'
  BY <1>2, Zenon DEF watchSecret, TypeOK, CallType, Step, instVars
<1> QED
  BY <1>2, <1>3, Zenon DEF watchSecret, TypeOK, StoreType, DeployType, CacheType, MemoryType,
                    HistoryType, vaultVars, deployVars, cacheVars, memoryVars, userVars

LEMMA WatchConflictType ==
    ASSUME TypeOK, watchSecretConflict
    PROVE  TypeOK'
<1>1. /\ CacheType' /\ CallType' /\ reported' \in [Entry -> Nat] /\ lost' \in BOOLEAN
  BY FailType, Zenon DEF watchSecretConflict
<1> QED
  BY <1>1 DEF watchSecretConflict, TypeOK, StoreType, DeployType, MemoryType, HistoryType,
              vaultVars, deployVars, memoryVars, userVars

LEMMA GateType ==
    ASSUME TypeOK, Gate
    PROVE  TypeOK'
<1>1. CallType'
  BY Zenon DEF Gate, TypeOK, CallType, Step, instVars
<1> QED
  BY <1>1, Zenon DEF Gate, TypeOK, StoreType, DeployType, CacheType, MemoryType, HistoryType,
              vaultVars, deployVars, cacheVars, memoryVars, userVars

LEMMA PoliciesType ==
    ASSUME TypeOK, WritePoliciesAndRoles
    PROVE  TypeOK'
<1>1. cur \in Services /\ cur \in Service
  BY ServicesAssumption DEF WritePoliciesAndRoles, TypeOK, CallType
<1>2. PICK k \in 0..Len(GrantsOf(cur)) :
        /\ granted' = IF WritePolicies
                      THEN granted \cup {GrantsOf(cur)[j] : j \in 1..k}
                      ELSE granted
        /\ \/ /\ k = Len(GrantsOf(cur))
              /\ pc' = IF EntriesOf[cur] = {} THEN "clean" ELSE "generator"
              /\ made' = (made \/ cur = "zooKeeper")
              /\ UNCHANGED <<reported, cacheVars, cur, server, mem, versions, upToDate,
                             lost, faults>>
           \/ /\ faults' = faults + 1
              /\ \E outage \in BOOLEAN : Fail(outage)
  BY Zenon DEF WritePoliciesAndRoles
<1>3. granted' \subseteq Grant
  BY <1>1, <1>2, GrantsFacts DEF TypeOK, StoreType
<1>4. /\ CacheType' /\ CallType' /\ reported' \in [Entry -> Nat]
      /\ lost' \in BOOLEAN /\ faults' \in Nat
  <2>1. CASE /\ pc' = IF EntriesOf[cur] = {} THEN "clean" ELSE "generator"
             /\ made' = (made \/ cur = "zooKeeper")
             /\ UNCHANGED <<reported, cacheVars, cur, server, mem, versions, upToDate,
                            lost, faults>>
    <3>1. CallType'
      BY <1>1, <2>1, Zenon DEF WritePoliciesAndRoles, TypeOK, CallType, Step
    <3> QED
      BY <2>1, <3>1, Zenon DEF TypeOK, StoreType, CacheType, HistoryType, cacheVars
  <2>2. CASE faults' = faults + 1 /\ \E outage \in BOOLEAN : Fail(outage)
    BY <2>2, FailType DEF TypeOK, HistoryType
  <2> QED
    BY <1>2, <2>1, <2>2, Zenon
<1> QED
  BY <1>3, <1>4, Zenon DEF WritePoliciesAndRoles, TypeOK, StoreType, DeployType, MemoryType,
                    HistoryType, deployVars, memoryVars, userVars

LEMMA GeneratorType ==
    ASSUME TypeOK, NewPasswordGenerator
    PROVE  TypeOK'
<1>1. CallType'
  <2>1. /\ pc' \in Step /\ pc' \notin {"idle", "finish"}
        /\ pc \notin {"idle", "finish"}
        /\ UNCHANGED <<cur, server, mem, versions, made, upToDate>>
    BY DEF NewPasswordGenerator, Step, Entry, ZooKeeperEntries, instVars
  <2> QED
    BY <2>1, Zenon DEF TypeOK, CallType
<1>2. granted' \subseteq Grant
  <2>1. granted' = granted \/ granted' = granted \cup {"passwordPolicy"}
    BY DEF NewPasswordGenerator
  <2> QED
    BY <2>1, Zenon DEF TypeOK, StoreType, Grant
<1>3. faults' \in Nat
  BY DEF NewPasswordGenerator, TypeOK, HistoryType
<1> QED
  BY <1>1, <1>2, <1>3, Zenon DEF NewPasswordGenerator, TypeOK, StoreType, DeployType, CacheType,
                    MemoryType, HistoryType, deployVars, cacheVars, memoryVars, userVars

\* The four handlers of entries.
LEMMA EntryType ==
    ASSUME TypeOK, NEW e \in Entry, NEW next \in Entry \cup {"clean"}, ProcessEntry(e, next)
    PROVE  TypeOK'
<1>1. /\ cur \in Services /\ cur \in Service /\ cur # "none"
      /\ next \in Step /\ next \notin {"idle", "finish"}
  BY ServicesAssumption, Zenon DEF ProcessEntry, TypeOK, CallType, Entry, ZooKeeperEntries, Step
<1>2. CASE /\ pc' = next
           /\ UNCHANGED <<vault, reported, restarted, cacheVars, cur, server, mem, instVars,
                          panicked, lost>>
  <2>1. CallType'
    <3>1. UNCHANGED <<cur, server, mem, versions, made, upToDate>> /\ pc' = next
      BY <1>2, Zenon DEF instVars
    <3> QED
      BY <1>1, <3>1, Zenon DEF TypeOK, CallType
  <2> QED
    BY <1>2, <2>1, Zenon DEF ProcessEntry, TypeOK, StoreType, DeployType, CacheType, MemoryType,
                      HistoryType, deployVars, cacheVars, memoryVars, userVars
<1>3. CASE Fail(FALSE) /\ UNCHANGED <<vault, restarted, panicked>>
  <2>1. /\ CacheType' /\ CallType' /\ reported' \in [Entry -> Nat] /\ lost' \in BOOLEAN
    BY <1>3, FailType, Zenon
  <2> QED
    BY <1>3, <2>1, Zenon DEF ProcessEntry, TypeOK, StoreType, DeployType, MemoryType, HistoryType,
                      deployVars, memoryVars, userVars
<1>4. CASE /\ WriteVaultSecret(e)
           /\ versions' = [versions EXCEPT ![e] = vault'[e].version]
           /\ pc' = next
           /\ UNCHANGED <<reported, cacheVars, cur, server, mem, made, upToDate, panicked,
                          lost>>
  <2>1. /\ vault' \in [Entry -> [version : Nat, name : Nat]]
        /\ restarted' \subseteq deployed
    BY <1>1, <1>4, WriteType, Zenon
  <2>2. versions' \in [Entry -> Nat]
    <3>1. vault'[e].version \in Nat
      BY <2>1, Zenon
    <3> QED
      BY <1>4, <3>1 DEF TypeOK, CallType
  <2>3. CallType'
    BY <1>1, <1>4, <2>2, Zenon DEF TypeOK, CallType
  <2> QED
    BY <1>4, <2>1, <2>3, Zenon DEF ProcessEntry, TypeOK, StoreType, DeployType, CacheType,
                            MemoryType, HistoryType, deployVars, cacheVars, memoryVars,
                            userVars
<1> QED
  BY <1>2, <1>3, <1>4, Zenon DEF ProcessEntry

LEMMA PanicType ==
    ASSUME TypeOK, processCredentialsPanic
    PROVE  TypeOK'
<1>1. cur \in Service
  BY ServicesAssumption, Zenon DEF processCredentialsPanic, TypeOK, CallType
<1>2. /\ vault' \in [Entry -> [version : Nat, name : Nat]]
      /\ restarted' \subseteq deployed
  BY <1>1, WriteType, Zenon DEF processCredentialsPanic, Entry
<1>3. CallType'
  BY ReturnedType, Zenon DEF processCredentialsPanic
<1> QED
  BY <1>2, <1>3, Zenon DEF processCredentialsPanic, TypeOK, StoreType, DeployType, CacheType,
                    MemoryType, HistoryType, deployVars, memoryVars, userVars

LEMMA UnansweredType ==
    ASSUME TypeOK, WriteVaultSecretUnanswered
    PROVE  TypeOK'
<1>1. cur \in Service /\ pc \in Entry
  BY ServicesAssumption, Zenon
  DEF WriteVaultSecretUnanswered, TypeOK, CallType, Entry, ZooKeeperEntries
<1>2. /\ vault' \in [Entry -> [version : Nat, name : Nat]]
      /\ restarted' \subseteq deployed
  BY <1>1, WriteType, Zenon DEF WriteVaultSecretUnanswered
<1>3. CallType'
  BY ReturnedType DEF WriteVaultSecretUnanswered
<1>4. reported' \in [Entry -> Nat] /\ statusLag' \in BOOLEAN
  BY Zenon DEF WriteVaultSecretUnanswered, StatusUpdate, TypeOK, StoreType, CacheType, CallType
<1> QED
  BY <1>2, <1>3, <1>4 DEF WriteVaultSecretUnanswered, TypeOK, StoreType, DeployType,
                          CacheType, MemoryType, HistoryType, deployVars, memoryVars,
                          userVars

LEMMA CleanType ==
    ASSUME TypeOK, cleanSecretData
    PROVE  TypeOK'
<1>1. cur \in Service
  BY ServicesAssumption, Zenon DEF cleanSecretData, TypeOK, CallType
<1>2. /\ secrets' \in [Service -> SecretObject] /\ mem' \in [Service -> SecretObject]
      /\ recorded' \in [Service -> Nat]
  <2>1. CASE needToCleanSecret
    <3>1. Cleaned(mem[cur]) \in SecretObject /\ mem[cur].rv + 1 \in Nat
      BY <1>1, CleanedFacts DEF TypeOK, CallType, SecretObject
    <3>2. /\ secrets' = [secrets EXCEPT ![cur] = Cleaned(mem[cur])]
          /\ mem' = [mem EXCEPT ![cur] = Cleaned(mem[cur])]
          /\ recorded' = [recorded EXCEPT ![cur] = mem[cur].rv + 1]
      BY <2>1, Zenon DEF cleanSecretData, CleanedCopy
    <3> QED
      BY <3>1, <3>2, Zenon DEF TypeOK, StoreType, CallType, MemoryType
  <2>2. CASE ~needToCleanSecret
    BY <2>2, Zenon DEF cleanSecretData, TypeOK, StoreType, CallType, MemoryType
  <2> QED
    BY <2>1, <2>2
<1>3. CallType'
  BY <1>2, Zenon DEF cleanSecretData, TypeOK, CallType, Step, instVars
<1> QED
  BY <1>2, <1>3, Zenon DEF cleanSecretData, TypeOK, StoreType, DeployType, CacheType, MemoryType,
                    HistoryType, vaultVars, deployVars, cacheVars, userVars

LEMMA CleanFailsType ==
    ASSUME TypeOK, cleanSecretDataFails
    PROVE  TypeOK'
<1>1. cur \in Service
  BY ServicesAssumption DEF cleanSecretDataFails, TypeOK, CallType
<1>2. /\ CacheType' /\ CallType' /\ reported' \in [Entry -> Nat] /\ lost' \in BOOLEAN
  BY FailType, Zenon DEF cleanSecretDataFails
<1>3. secrets' \in [Service -> SecretObject]
  <2>1. Cleaned(mem[cur]) \in SecretObject
    BY <1>1, CleanedFacts DEF TypeOK, CallType
  <2>2. secrets' = secrets \/ secrets' = [secrets EXCEPT ![cur] = Cleaned(mem[cur])]
    BY Zenon DEF cleanSecretDataFails
  <2> QED
    BY <2>1, <2>2, Zenon DEF TypeOK, StoreType
<1>4. faults' \in Nat
  <2>1. faults' = faults \/ faults' = faults + 1
    BY ZenonT(30) DEF cleanSecretDataFails
  <2> QED
    BY <2>1 DEF TypeOK, HistoryType
<1> QED
  BY <1>2, <1>3, <1>4, Zenon DEF cleanSecretDataFails, TypeOK, StoreType, DeployType, MemoryType,
                          HistoryType, vaultVars, deployVars, memoryVars, userVars

LEMMA DeployStepType ==
    ASSUME TypeOK, Deploy
    PROVE  TypeOK'
<1> DEFINE d == <<cur, server>>
           built == [s \in Service |-> IF s \in Watched(cur) THEN mem[s].rv ELSE 0]
<1>1. cur \in Services /\ cur \in Service /\ d \in Deployment
  BY ServicesAssumption, DeploymentFacts, Zenon DEF Deploy, TypeOK, CallType
<1>2. built \in [Service -> Nat]
  BY Zenon DEF TypeOK, CallType, SecretObject
<1>3. /\ deployed' = deployed \cup {d}
      /\ annotated' = [annotated EXCEPT ![d] = built]
      /\ restarted' \subseteq restarted \cup {d}
  BY Zenon DEF Deploy
<1>4. CallType'
  <2>1. /\ pc' \in {"policies", "status"}
        /\ server' \in 1..Units(cur)
    BY <1>1, UnitsFacts, ServersAssumption DEF Deploy, NextServer, TypeOK, CallType
  <2>2. UNCHANGED <<cur, mem, versions, made, upToDate>> /\ cur # "none"
    BY Zenon DEF Deploy, instVars, TypeOK, CallType
  <2> QED
    BY <2>1, <2>2, Zenon DEF TypeOK, CallType, Step
<1> HIDE DEF d, built
<1>5. DeployType'
  BY <1>1, <1>2, <1>3, Zenon DEF TypeOK, DeployType
<1> QED
  BY <1>4, <1>5, Zenon DEF Deploy, TypeOK, StoreType, CacheType, MemoryType, HistoryType,
                    vaultVars, cacheVars, memoryVars, userVars

LEMMA ServiceStatusType ==
    ASSUME TypeOK, UpdateServiceStatus
    PROVE  TypeOK'
<1>1. /\ CacheType' /\ CallType' /\ reported' \in [Entry -> Nat] /\ lost' \in BOOLEAN
  <2>1. CASE /\ StatusUpdate
             /\ pc' = "annotate"
             /\ UNCHANGED <<cachedSecrets, cachedReported, queued, cur, server, mem,
                            instVars, lost>>
    <3>1. CallType'
      BY <2>1 DEF UpdateServiceStatus, TypeOK, CallType, Step, instVars
    <3> QED
      BY <2>1, <3>1, Zenon DEF StatusUpdate, TypeOK, CacheType, CallType, HistoryType
  <2>2. CASE Fail(FALSE)
    BY <2>2, FailType, Zenon
  <2> QED
    BY <2>1, <2>2, Zenon DEF UpdateServiceStatus
<1> QED
  BY <1>1 DEF UpdateServiceStatus, TypeOK, StoreType, DeployType, MemoryType, HistoryType,
              vaultVars, deployVars, memoryVars, userVars

LEMMA AnnotateType ==
    ASSUME TypeOK, Annotate
    PROVE  TypeOK'
<1> DEFINE d == <<cur, server>>
           noted == [s \in Service |-> IF s \in Watched(cur) /\ mem[s].rv # 0
                                       THEN mem[s].rv ELSE recorded[s]]
<1>1. cur \in Services /\ cur \in Service /\ d \in Deployment
  BY ServicesAssumption, DeploymentFacts, Zenon DEF Annotate, TypeOK, CallType
<1>2. RestartAnnotations(d) \in [Service -> Nat] /\ noted \in [Service -> Nat]
  BY <1>1 DEF RestartAnnotations, TypeOK, CallType, DeployType, MemoryType, SecretObject
<1>3. \/ /\ d \in deployed
         /\ annotated' = [annotated EXCEPT ![d] = RestartAnnotations(d)]
         /\ restarted' = restarted \cup {d}
      \/ UNCHANGED <<annotated, restarted>>
  BY Zenon DEF Annotate
<1>4. UNCHANGED deployed
  BY Zenon DEF Annotate
<1>5. \/ /\ server < Units(cur)
         /\ server' = server + 1
         /\ UNCHANGED <<recorded, hashed, pc, cur, mem>>
      \/ /\ recorded' = noted
         /\ hashed' = hashed \cup {cur}
         /\ pc' = IF After(cur) = "none" THEN "finish" ELSE "watch"
         /\ cur' = After(cur)
         /\ server' = 1
         /\ mem' = [s \in Service |-> NoSecret]
  BY Zenon DEF Annotate
<1> HIDE DEF d, noted
<1>6. DeployType'
  BY <1>1, <1>2, <1>3, <1>4, Zenon DEF TypeOK, DeployType
<1>7. MemoryType'
  BY <1>1, <1>2, <1>5, Zenon DEF Annotate, TypeOK, MemoryType
<1>8. UNCHANGED <<versions, made, upToDate>>
  BY Zenon DEF Annotate, instVars
<1>9. CallType'
  <2>1. CASE /\ server < Units(cur)
             /\ server' = server + 1
             /\ UNCHANGED <<recorded, hashed, pc, cur, mem>>
    <3>1. server' \in 1..Units(cur)
      BY <2>1, UnitsFacts, ServersAssumption DEF TypeOK, CallType
    <3> QED
      BY <1>8, <2>1, <3>1, Zenon DEF TypeOK, CallType
  <2>2. CASE /\ pc' = IF After(cur) = "none" THEN "finish" ELSE "watch"
             /\ cur' = After(cur)
             /\ server' = 1
             /\ mem' = [s \in Service |-> NoSecret]
    <3>1. server' \in 1..Units(cur')
      BY <2>2, UnitsFacts, ServersAssumption
    <3>2. /\ cur' \in Services \cup {"none"}
          /\ pc' \in {"idle", "finish"} <=> cur' = "none"
          /\ pc' \in Step
      BY <1>1, <2>2, AfterFacts, ServicesAssumption, Zenon DEF Step, Service
    <3>3. mem' \in [Service -> SecretObject]
      BY <2>2, SecretFacts, Zenon
    <3> QED
      BY <1>8, <3>1, <3>2, <3>3, Zenon DEF TypeOK, CallType
  <2> QED
    BY <1>5, <2>1, <2>2, Zenon
<1> QED
  BY <1>6, <1>7, <1>9, Zenon DEF Annotate, TypeOK, StoreType, CacheType, HistoryType,
                          vaultVars, cacheVars, userVars

LEMMA FinishType ==
    ASSUME TypeOK, Finish
    PROVE  TypeOK'
<1>1. CallType'
  BY ReturnedType DEF Finish
<1>2. reported' \in [Entry -> Nat] /\ statusLag' \in BOOLEAN
  BY Zenon DEF Finish, StatusUpdate, TypeOK, StoreType, CacheType, CallType
<1> QED
  BY <1>1, <1>2, Zenon DEF Finish, TypeOK, StoreType, DeployType, CacheType, MemoryType,
                    HistoryType, vaultVars, deployVars, userVars

LEMMA CallFailsType ==
    ASSUME TypeOK, CallFails
    PROVE  TypeOK'
<1>1. /\ CacheType' /\ CallType' /\ reported' \in [Entry -> Nat] /\ lost' \in BOOLEAN
  <2>1. CASE \E outage \in BOOLEAN : Fail(outage)
    BY <2>1, FailType, Zenon
  <2>2. CASE /\ queued' = TRUE
             /\ Returned
             /\ UNCHANGED <<reported, cachedSecrets, cachedReported, statusLag, lost>>
    BY <2>2, ReturnedType, Zenon DEF TypeOK, StoreType, CacheType, HistoryType
  <2> QED
    BY <2>1, <2>2, ZenonT(30) DEF CallFails
<1>2. faults' \in Nat
  BY DEF CallFails, TypeOK, HistoryType
<1> QED
  BY <1>1, <1>2, Zenon DEF CallFails, TypeOK, StoreType, DeployType, MemoryType, HistoryType,
                    vaultVars, deployVars, memoryVars, userVars

\* The names a user update leaves in a secret.
UpdatedNames(s, given) ==
    [e \in Entry |-> IF e \in given \cap EntriesOf[s] THEN updates + 2
                     ELSE secrets[s].names[e]]

LEMMA UpdateType ==
    ASSUME TypeOK, NEW s \in Service, UpdateSecret(s)
    PROVE  TypeOK'
<1>1. PICK given \in Supplies, request \in BOOLEAN :
        /\ secrets' = [secrets EXCEPT ![s] =
              [rv |-> secrets[s].rv + 1, names |-> UpdatedNames(s, given),
               refresh |-> request, owned |-> secrets[s].owned,
               filled |-> secrets[s].filled \/ given \cap EntriesOf[s] # {}]]
        /\ wanted' = [e \in Entry |-> IF \/ e \notin EntriesOf[s]
                                         \/ UpdatedNames(s, given)[e] = 0
                                      THEN wanted[e]
                                      ELSE IF request THEN UpdatedNames(s, given)[e] ELSE 0]
        /\ asked' = [asked EXCEPT ![s] = IF request THEN asked[s] + 1 ELSE asked[s]]
  BY Zenon DEF UpdateSecret, UpdatedNames
<1>2. UpdatedNames(s, given) \in [Entry -> Nat]
  BY DEF UpdatedNames, TypeOK, StoreType, HistoryType, SecretObject
<1>3. secrets' \in [Service -> SecretObject]
  <2>1. [rv |-> secrets[s].rv + 1, names |-> UpdatedNames(s, given),
         refresh |-> request, owned |-> secrets[s].owned,
         filled |-> secrets[s].filled \/ given \cap EntriesOf[s] # {}] \in SecretObject
    BY <1>2 DEF TypeOK, StoreType, SecretObject
  <2> QED
    BY <1>1, <2>1, Zenon DEF TypeOK, StoreType
<1>4. wanted' \in [Entry -> Nat]
  BY <1>1, <1>2, Zenon DEF TypeOK, HistoryType
<1>5. asked' \in [Service -> Nat]
  BY <1>1 DEF TypeOK, HistoryType
<1>6. updates' \in Nat
  BY DEF UpdateSecret, TypeOK, HistoryType
<1>7. UNCHANGED <<vaultVars, reported, deployVars, restarted, cacheVars, memoryVars,
                  callVars, panicked, lost, faults>>
  BY Zenon DEF UpdateSecret
<1> QED
  BY <1>3, <1>4, <1>5, <1>6, <1>7
  DEF TypeOK, StoreType, DeployType, CacheType, MemoryType, CallType, HistoryType,
      vaultVars, deployVars, cacheVars, memoryVars, callVars, instVars

LEMMA RemoveType ==
    ASSUME TypeOK, NEW s \in Service, RemoveSecret(s)
    PROVE  TypeOK'
<1>1. secrets' \in [Service -> SecretObject]
  <2>1. Removed(secrets[s]) \in SecretObject
    BY RemovedFacts, Zenon DEF TypeOK, StoreType
  <2> QED
    BY <2>1, Zenon DEF RemoveSecret, TypeOK, StoreType
<1>2. wanted' \in [Entry -> Nat]
  BY Zenon DEF RemoveSecret, TypeOK, HistoryType
<1>3. updates' \in Nat
  BY DEF RemoveSecret, TypeOK, HistoryType
<1>4. UNCHANGED <<vaultVars, reported, deployVars, restarted, cacheVars, memoryVars,
                  callVars, asked, panicked, lost, faults>>
  BY Zenon DEF RemoveSecret
<1> QED
  BY <1>1, <1>2, <1>3, <1>4
  DEF TypeOK, StoreType, DeployType, CacheType, MemoryType, CallType, HistoryType,
      vaultVars, deployVars, cacheVars, memoryVars, callVars, instVars

LEMMA DeliverSecretType ==
    ASSUME TypeOK, NEW s \in Service, DeliverSecret(s)
    PROVE  TypeOK'
<1>1. cachedSecrets' \in [Service -> SecretObject] /\ queued' \in BOOLEAN
  BY Zenon DEF DeliverSecret, TypeOK, StoreType, CacheType, SecretObject
<1> QED
  BY <1>1, Zenon
  DEF DeliverSecret, TypeOK, StoreType, DeployType, CacheType, MemoryType, CallType,
      HistoryType, vaultVars, deployVars, memoryVars, callVars, instVars, userVars

LEMMA DeliverStatusType ==
    ASSUME TypeOK, DeliverStatus
    PROVE  TypeOK'
BY Zenon DEF DeliverStatus, TypeOK, StoreType, DeployType, CacheType, MemoryType, CallType,
       HistoryType, vaultVars, deployVars, memoryVars, callVars, instVars, userVars

LEMMA RestartType ==
    ASSUME TypeOK, Restart
    PROVE  TypeOK'
<1>1. CallType'
  BY ReturnedType, Zenon DEF Restart
<1>2. lost' \in BOOLEAN
  BY DEF Restart, TypeOK, HistoryType
<1>3. CacheType'
  BY Zenon DEF Restart, TypeOK, StoreType, CacheType
<1>4. MemoryType'
  BY Zenon DEF Restart, MemoryType
<1>5. faults' \in Nat /\ UNCHANGED <<wanted, asked, updates, panicked>>
  BY DEF Restart, TypeOK, HistoryType, userVars
<1>6. HistoryType'
  BY <1>2, <1>5, Zenon DEF TypeOK, HistoryType
<1> QED
  BY <1>1, <1>3, <1>4, <1>6, Zenon
  DEF Restart, TypeOK, StoreType, DeployType, CacheType, MemoryType, HistoryType,
      vaultVars, deployVars, userVars

LEMMA InitType == Init => TypeOK
<1> SUFFICES ASSUME Init PROVE TypeOK
  BY Zenon
<1>1. StoreType
  <2>1. vault \in [Entry -> [version : Nat, name : Nat]]
    BY BoundsAssumption DEF Init
  <2>2. granted \subseteq Grant
    BY Zenon DEF Init
  <2>3. secrets \in [Service -> SecretObject] /\ reported \in [Entry -> Nat]
    BY SecretFacts, Zenon DEF Init
  <2> QED
    BY <2>1, <2>2, <2>3, Zenon DEF StoreType
<1>2. DeployType
  BY DEF Init, DeployType
<1>3. CacheType
  BY <1>1, SecretFacts, Zenon DEF Init, CacheType, StoreType
<1>4. MemoryType
  BY Zenon DEF Init, MemoryType
<1>5. CallType
  <2>1. mem \in [Service -> SecretObject] /\ versions \in [Entry -> Nat]
    BY SecretFacts, Zenon DEF Init
  <2>2. server \in 1..Units(cur)
    BY UnitsFacts DEF Init
  <2> QED
    BY <2>1, <2>2, Zenon DEF Init, CallType, Step
<1>6. HistoryType
  BY Zenon DEF Init, HistoryType
<1> QED
  BY <1>1, <1>2, <1>3, <1>4, <1>5, <1>6, Zenon DEF TypeOK

LEMMA StepType ==
    ASSUME TypeOK, [Next]_vars
    PROVE  TypeOK'
<1>1. CASE OperatorStep
  <2>1. CASE Begin \/ watchSecret \/ watchSecretConflict \/ Gate
    BY <2>1, BeginType, WatchType, WatchConflictType, GateType, Zenon
  <2>2. CASE WritePoliciesAndRoles \/ NewPasswordGenerator
    BY <2>2, PoliciesType, GeneratorType, Zenon
  <2>3. CASE \/ processAdminCredentials \/ processClientCredentials
             \/ processAdditionalUsersCredentials \/ processCredentials
    BY <2>3, EntryType, Zenon
    DEF processAdminCredentials, processClientCredentials, processCredentials,
        processAdditionalUsersCredentials, Entry, ZooKeeperEntries
  <2>4. CASE processCredentialsPanic \/ cleanSecretData \/ cleanSecretDataFails
    BY <2>4, PanicType, CleanType, CleanFailsType, Zenon
  <2>5. CASE Deploy \/ UpdateServiceStatus \/ Annotate \/ Finish
    BY <2>5, DeployStepType, ServiceStatusType, AnnotateType, FinishType, Zenon
  <2> QED
    BY <1>1, <2>1, <2>2, <2>3, <2>4, <2>5, Zenon DEF OperatorStep
<1>2. CASE CallFails \/ WriteVaultSecretUnanswered \/ Restart \/ DeliverStatus
  BY <1>2, CallFailsType, UnansweredType, RestartType, DeliverStatusType, Zenon
<1>3. CASE DeliverSecrets
  BY <1>3, DeliverSecretType, Zenon DEF DeliverSecrets
<1>4. CASE \E s \in EditableSecrets : UpdateSecret(s) \/ RemoveSecret(s)
  BY <1>4, UpdateType, RemoveType, EditsAssumption, Zenon
<1>5. CASE UNCHANGED vars
  BY <1>5 DEF vars, TypeOK, StoreType, DeployType, CacheType, MemoryType, CallType,
       HistoryType, vaultVars, deployVars, cacheVars, memoryVars, callVars, instVars, userVars
<1> QED
  BY <1>1, <1>2, <1>3, <1>4, <1>5, Zenon DEF Next

\* The model is well typed for every instance: in particular each Deployment and each
\* status update belongs to a server that exists.
THEOREM TypeCorrect == Spec => []TypeOK
BY InitType, StepType, PTL DEF Spec

-----------------------------------------------------------------------------
(* Where the names are.                                                    *)

\* The informer never lacks a secret that exists.
CacheKeeps == \A s \in Service : secrets[s].rv # 0 => cachedSecrets[s].rv # 0

\* NameInv for one entry, as a relation of what it speaks of.
NameOK(secret, copy, entry, want, e, fresh, passed) ==
    /\ secret.names[e] = 0 => entry.name = want /\ copy.names[e] = 0
    /\ secret.names[e] # 0 =>
          /\ secret.names[e] = want
          /\ secret.refresh \/ entry.version = 0 \/ entry.name = want
          /\ copy.rv # 0 /\ ~fresh => secret.refresh
          /\ fresh /\ passed => entry.name = want

LEMMA NameInvFor ==
    ASSUME NamesAccounted, NEW e \in Entry, wanted[e] # 0
    PROVE  NameOK(secrets[Owner[e]], mem[Owner[e]], vault[e], wanted[e], e, Fresh(Owner[e]),
                  Passed(e))
BY Zenon DEF NamesAccounted, NameInv, NameOK

LEMMA OwnerNoNames ==
    ASSUME NEW e \in Entry
    PROVE  Owner[e] \in Service /\ NoNames[e] = 0
<1>1. Owner[e] \in Service
  BY OwnerFacts, Zenon
<1>2. NoNames[e] = 0
  BY Zenon DEF NoNames
<1> QED
  BY <1>1, <1>2, Zenon

\* No copy is newer than its secret when there are no copies.
LEMMA NoCopies ==
    ASSUME TypeOK, UNCHANGED secrets, \A s \in Service : mem'[s].rv = 0
    PROVE  \A s \in Service : mem'[s].rv <= secrets'[s].rv
<1>1. \A s \in Service : secrets[s].rv \in Nat
  BY Zenon DEF TypeOK, StoreType, SecretObject
<1>2. \A n \in Nat : 0 <= n
  OBVIOUS
<1> QED
  BY <1>1, <1>2, Zenon

\* A step that leaves the secrets, the copies and the entries alone, and does not
\* move into a later part of processVaultSecrets.
LEMMA SameNames ==
    ASSUME TypeOK, NamesAccounted, UNCHANGED <<secrets, mem, vault, wanted>>, CacheKeeps',
           \A e \in Entry : Passed(e)' => Passed(e)
    PROVE  CopyInv' /\ NameInv'
<1>1. \A s \in Service : Fresh(s)' <=> Fresh(s)
  BY DEF Fresh
<1>2. CopyInv'
  BY <1>1, Zenon DEF NamesAccounted, CopyInv, CacheKeeps
<1>3. NameInv'
  BY <1>1, OwnerFacts, Zenon DEF NamesAccounted, NameInv
<1> QED
  BY <1>2, <1>3, Zenon

\* The end of a call, and the step to the next service: no copy is left.
LEMMA NoCopyNames ==
    ASSUME TypeOK, NamesAccounted, UNCHANGED <<secrets, vault, wanted>>, CacheKeeps',
           mem' = [s \in Service |-> NoSecret],
           pc' \in {"idle", "finish", "watch"}
    PROVE  NamesAccounted'
<1>1. \A s \in Service : ~Fresh(s)' /\ mem'[s].rv = 0 /\ mem'[s].names = NoNames
  BY SecretFacts, Zenon DEF Fresh
<1>2. CopyInv'
  BY <1>1, NoCopies, Zenon DEF NamesAccounted, CopyInv, CacheKeeps
<1>3. CallInv'
  BY Zenon DEF CallInv, Entry, ZooKeeperEntries
<1>4. NameInv'
  <2> SUFFICES ASSUME NEW e \in Entry, wanted[e] # 0
               PROVE  NameOK(secrets[Owner[e]], mem'[Owner[e]], vault[e], wanted[e], e,
                             Fresh(Owner[e])', Passed(e)')
    BY Zenon DEF NameInv, NameOK
  <2>1. ~Fresh(Owner[e])' /\ mem'[Owner[e]].rv = 0 /\ mem'[Owner[e]].names[e] = 0
    BY <1>1, OwnerNoNames, Zenon
  <2> QED
    BY <2>1, NameInvFor, Zenon DEF NameOK
<1> QED
  BY <1>2, <1>3, <1>4 DEF NamesAccounted

\* A call that fails without writing an entry or a secret.
LEMMA FailNames ==
    ASSUME TypeOK, NamesAccounted, NEW o \in BOOLEAN, Fail(o),
           UNCHANGED <<secrets, vault, wanted>>
    PROVE  NamesAccounted'
<1>1. CacheKeeps'
  BY Zenon DEF Fail, CacheKeeps, NamesAccounted, CopyInv
<1>2. mem' = [s \in Service |-> NoSecret] /\ pc' = "idle"
  BY DEF Fail, Returned
<1> QED
  BY <1>1, <1>2, NoCopyNames, Zenon

LEMMA BeginNames ==
    ASSUME TypeOK, NamesAccounted, Begin
    PROVE  NamesAccounted'
<1>1. UNCHANGED <<secrets, mem, vault, wanted, cachedSecrets>> /\ pc' = "watch"
  BY Zenon DEF Begin, vaultVars, userVars
<1>2. CacheKeeps' /\ \A e \in Entry : ~Passed(e)'
  BY <1>1 DEF CacheKeeps, NamesAccounted, CopyInv, Passed
<1>3. CallInv'
  BY <1>1, Zenon DEF CallInv, Entry, ZooKeeperEntries
<1> QED
  BY <1>1, <1>2, <1>3, SameNames, Zenon DEF NamesAccounted

\* watchSecret makes the copy the secret itself.
LEMMA WatchNames ==
    ASSUME TypeOK, NamesAccounted, watchSecret
    PROVE  NamesAccounted'
<1> DEFINE t == Target
           own == WithOwner(secrets[t])
<1>1. t \in Service /\ cur \in Service /\ (pc = "watch" => t = cur)
  BY ServicesAssumption, Zenon DEF watchSecret, Target, TypeOK, CallType, Service
<1>2. /\ UNCHANGED <<vault, wanted, cachedSecrets, cur>>
      /\ pc' \in {"watchShared", "gate"}
      /\ \A e \in Entry : ~Passed(e)' /\ pc' # e
  BY DEF watchSecret, vaultVars, cacheVars, userVars, Passed, Entry, ZooKeeperEntries
<1>3. CASE /\ secrets[t].rv # 0
           /\ secrets' = [secrets EXCEPT ![t] = own]
           /\ mem' = [mem EXCEPT ![t] = own]
  <2> HIDE DEF t
  <2>1. /\ own \in SecretObject /\ own.rv # 0 /\ own.rv \in Nat /\ own.rv >= secrets[t].rv
        /\ own.names = secrets[t].names /\ own.refresh = secrets[t].refresh
    BY <1>1, <1>3, WithOwnerFacts DEF TypeOK, StoreType, SecretObject
  <2> HIDE DEF own
  <2>2. /\ secrets'[t] = own /\ mem'[t] = own
        /\ \A s \in Service \ {t} : secrets'[s] = secrets[s] /\ mem'[s] = mem[s]
    BY <1>1, <1>3, Zenon DEF TypeOK, StoreType, CallType
  <2>3. CopyInv'
    <3> SUFFICES ASSUME NEW s \in Service
                 PROVE  /\ secrets'[s].rv = 0 => secrets'[s].names = NoNames
                        /\ secrets'[s].rv # 0 => /\ cachedSecrets'[s].rv # 0
                                                 /\ mem'[s].rv <= secrets'[s].rv
                        /\ mem'[s].rv = 0 => mem'[s].names = NoNames
                        /\ Fresh(s)' => mem'[s] = secrets'[s]
                        /\ \A e \in Entry \ EntriesOf[s] : secrets'[s].names[e] = 0
      BY Zenon DEF CopyInv
    <3>1. CASE s = t
      BY <1>2, <1>3, <2>1, <2>2, <3>1 DEF NamesAccounted, CopyInv
    <3>2. CASE s # t
      BY <1>2, <2>2, <3>2 DEF NamesAccounted, CopyInv, Fresh
    <3> QED
      BY <3>1, <3>2, Zenon
  <2>4. CallInv'
    <3>1. mem[cur].rv = 0 /\ t # cur => secrets[cur].rv = 0
      BY <1>1, Zenon DEF watchSecret, NamesAccounted, CallInv
    <3> QED
      BY <1>1, <1>2, <2>1, <2>2, <3>1, Zenon DEF CallInv
  <2>5. NameInv'
    <3>1. \A e \in Entry : secrets'[Owner[e]].names[e] = secrets[Owner[e]].names[e]
      BY <2>1, <2>2, OwnerFacts, Zenon
    <3>2. \A e \in Entry : Owner[e] = t => Fresh(Owner[e])' /\ mem'[t].names = secrets[t].names
      BY <2>1, <2>2, OwnerFacts, Zenon DEF Fresh
    <3>3. \A e \in Entry : Owner[e] # t => (Fresh(Owner[e])' <=> Fresh(Owner[e]))
      BY <2>2, OwnerFacts, Zenon DEF Fresh
    <3>4. \A e \in Entry : secrets'[Owner[e]].refresh = secrets[Owner[e]].refresh
      BY <2>1, <2>2, OwnerFacts, Zenon
    <3> SUFFICES ASSUME NEW e \in Entry, wanted[e] # 0
                 PROVE  NameOK(secrets'[Owner[e]], mem'[Owner[e]], vault[e], wanted[e], e,
                               Fresh(Owner[e])', Passed(e)')
      BY <1>2, Zenon DEF NameInv, NameOK
    <3>5. NameOK(secrets[Owner[e]], mem[Owner[e]], vault[e], wanted[e], e, Fresh(Owner[e]),
                 Passed(e))
      BY NameInvFor, Zenon
    <3>6. CASE Owner[e] = t
      BY <1>2, <3>1, <3>2, <3>4, <3>5, <3>6, Zenon DEF NameOK
    <3>7. CASE Owner[e] # t
      <4>1. mem'[Owner[e]] = mem[Owner[e]] /\ (Fresh(Owner[e])' <=> Fresh(Owner[e]))
        BY <2>2, <3>3, <3>7, OwnerFacts, Zenon
      <4> QED
        BY <1>2, <3>1, <3>4, <3>5, <4>1, Zenon DEF NameOK
    <3> QED
      BY <3>6, <3>7, Zenon
  <2> QED
    BY <2>3, <2>4, <2>5, Zenon DEF NamesAccounted
<1>4. CASE /\ cachedSecrets[t].rv = 0 \/ secrets[t].rv = 0
           /\ UNCHANGED <<secrets, mem>>
  <2>1. secrets[t].rv = 0
    BY <1>1, <1>4, Zenon DEF NamesAccounted, CopyInv
  <2>2. CallInv'
    BY <1>1, <1>2, <1>4, <2>1, Zenon DEF watchSecret, NamesAccounted, CallInv
  <2>3. CacheKeeps'
    BY <1>2, <1>4, Zenon DEF CacheKeeps, NamesAccounted, CopyInv
  <2> QED
    BY <1>2, <1>4, <2>2, <2>3, SameNames, Zenon DEF NamesAccounted
<1> QED
  BY <1>3, <1>4, Zenon DEF watchSecret

LEMMA GateNames ==
    ASSUME TypeOK, NamesAccounted, Gate
    PROVE  NamesAccounted'
<1>1. /\ UNCHANGED <<secrets, mem, vault, wanted, cachedSecrets, cur>>
      /\ pc = "gate" /\ pc' \in {"policies", "annotate"}
  BY Zenon DEF Gate, vaultVars, cacheVars, userVars
<1>2. CacheKeeps' /\ \A e \in Entry : ~Passed(e)'
  BY <1>1, Zenon DEF CacheKeeps, NamesAccounted, CopyInv, Passed
<1>3. CallInv'
  BY <1>1, Zenon DEF NamesAccounted, CallInv, Entry, ZooKeeperEntries
<1> QED
  BY <1>1, <1>2, <1>3, SameNames, Zenon DEF NamesAccounted

\* Monitoring has no entries: it goes from the policies straight to the cleaning.
LEMMA PoliciesNames ==
    ASSUME TypeOK, NamesAccounted, WritePoliciesAndRoles
    PROVE  NamesAccounted'
<1>1. cur \in Service /\ UNCHANGED <<secrets, vault, wanted>> /\ pc = "policies"
  BY ServicesAssumption, Zenon DEF WritePoliciesAndRoles, userVars, TypeOK, CallType
<1>2. CASE \E outage \in BOOLEAN : Fail(outage)
  BY <1>1, <1>2, FailNames, Zenon
<1>3. CASE /\ pc' = IF EntriesOf[cur] = {} THEN "clean" ELSE "generator"
           /\ UNCHANGED <<cacheVars, cur, mem>>
  <2>1. UNCHANGED <<cachedSecrets, cur, mem>> /\ pc' \in {"clean", "generator"}
    BY <1>3, Zenon DEF cacheVars
  <2>2. CacheKeeps'
    BY <1>1, <2>1, Zenon DEF CacheKeeps, NamesAccounted, CopyInv
  <2>3. \A e \in Entry : ~Passed(e)'
    BY <1>1, <1>3, <2>1, OwnerFacts, Zenon DEF Passed
  <2>4. CallInv'
    BY <1>1, <1>3, <2>1, Zenon DEF NamesAccounted, CallInv, Entry, ZooKeeperEntries
  <2> QED
    BY <1>1, <2>1, <2>2, <2>3, <2>4, SameNames, Zenon DEF NamesAccounted
<1> QED
  BY <1>2, <1>3, Zenon DEF WritePoliciesAndRoles

LEMMA GeneratorNames ==
    ASSUME TypeOK, NamesAccounted, NewPasswordGenerator
    PROVE  NamesAccounted'
<1>1. /\ UNCHANGED <<secrets, mem, vault, wanted, cachedSecrets, cur>>
      /\ pc = "generator" /\ pc' = IF cur = "zooKeeper" THEN "admin" ELSE "daemon"
  BY Zenon DEF NewPasswordGenerator, cacheVars, userVars
<1>2. CacheKeeps' /\ \A e \in Entry : ~Passed(e)'
  BY <1>1, Zenon DEF CacheKeeps, NamesAccounted, CopyInv, Passed
<1>3. cur \in {"zooKeeper", "backupDaemon"}
  BY <1>1, ServicesAssumption, Zenon
  DEF NamesAccounted, CallInv, EntriesOf, TypeOK, CallType, Service
<1>4. CallInv'
  BY <1>1, <1>3, Zenon DEF NamesAccounted, CallInv, Owner, Entry, ZooKeeperEntries
<1> QED
  BY <1>1, <1>2, <1>4, SameNames, Zenon DEF NamesAccounted

\* What a written entry holds: a name that was asked for is in the copy if the copy is
\* fresh, and in the entry if the secret has been emptied; a copy that is out of date
\* leaves the name to the refresh that the user's later update asks for.
LEMMA WrittenName ==
    ASSUME TypeOK, NamesAccounted, NEW e \in Entry, pc = e, wanted[e] # 0
    PROVE  LET secret == secrets[Owner[e]]
           IN /\ secret.names[e] = 0 => NameFor(e) = wanted[e]
              /\ Fresh(Owner[e]) => NameFor(e) = wanted[e]
              /\ ~Fresh(Owner[e]) /\ secret.names[e] # 0 => secret.refresh
<1>1. cur = Owner[e] /\ Owner[e] \in Service
  BY OwnerFacts, Zenon DEF NamesAccounted, CallInv
<1>2. secrets[Owner[e]].names[e] = 0 => NameFor(e) = wanted[e]
  BY <1>1, Zenon DEF NamesAccounted, NameInv, NameFor
<1>3. Fresh(Owner[e]) => NameFor(e) = wanted[e]
  <2>1. Fresh(Owner[e]) => mem[Owner[e]] = secrets[Owner[e]]
    BY <1>1, Zenon DEF NamesAccounted, CopyInv
  <2> QED
    BY <1>1, <1>2, <2>1, Zenon DEF NamesAccounted, NameInv, NameFor
<1>4. ~Fresh(Owner[e]) /\ secrets[Owner[e]].names[e] # 0 => secrets[Owner[e]].refresh
  <2>1. mem[cur].rv = 0 => secrets[cur].rv = 0
    BY Zenon DEF NamesAccounted, CallInv, Entry, ZooKeeperEntries
  <2>2. secrets[cur].rv = 0 => secrets[cur].names[e] = 0
    BY <1>1 DEF NamesAccounted, CopyInv, NoNames
  <2> QED
    BY <1>1, <2>1, <2>2, Zenon DEF NamesAccounted, NameInv
<1> QED
  BY <1>2, <1>3, <1>4, Zenon

\* Whoever holds the entry's copy: a write leaves every name accounted for.
LEMMA WriteNames ==
    ASSUME TypeOK, NamesAccounted, NEW e \in Entry, pc = e, WriteVaultSecret(e),
           UNCHANGED <<secrets, wanted>>, CacheKeeps',
           \/ mem' = [s \in Service |-> NoSecret] /\ pc' = "idle"
           \/ /\ UNCHANGED mem
              /\ \A f \in Entry : Passed(f)' => f = e \/ Passed(f)
    PROVE  CopyInv' /\ NameInv'
<1>1. /\ vault'[e].name = NameFor(e)
      /\ \A f \in Entry \ {e} : vault'[f] = vault[f]
  BY DEF WriteVaultSecret, TypeOK, StoreType
<1>2. CASE mem' = [s \in Service |-> NoSecret] /\ pc' = "idle"
  <2>1. \A s \in Service : ~Fresh(s)' /\ mem'[s].rv = 0 /\ mem'[s].names = NoNames
    BY <1>2, SecretFacts, Zenon DEF Fresh
  <2>2. CopyInv'
    BY <2>1, NoCopies, Zenon DEF NamesAccounted, CopyInv, CacheKeeps
  <2>3. NameInv'
    <3> SUFFICES ASSUME NEW f \in Entry, wanted[f] # 0
                 PROVE  NameOK(secrets[Owner[f]], mem'[Owner[f]], vault'[f], wanted[f], f,
                               Fresh(Owner[f])', Passed(f)')
      BY Zenon DEF NameInv, NameOK
    <3>3. ~Fresh(Owner[f])' /\ mem'[Owner[f]].rv = 0 /\ mem'[Owner[f]].names[f] = 0
      BY <2>1, OwnerNoNames, Zenon
    <3>4. NameOK(secrets[Owner[f]], mem[Owner[f]], vault[f], wanted[f], f, Fresh(Owner[f]),
                 Passed(f))
      BY NameInvFor, Zenon
    <3>1. CASE f # e
      BY <1>1, <3>1, <3>3, <3>4, Zenon DEF NameOK
    <3>2. CASE f = e
      BY <1>1, <3>2, <3>3, <3>4, WrittenName, Zenon DEF NameOK
    <3> QED
      BY <3>1, <3>2, Zenon
  <2> QED
    BY <2>2, <2>3, Zenon
<1>3. CASE /\ UNCHANGED mem
           /\ \A f \in Entry : Passed(f)' => f = e \/ Passed(f)
  <2>1. \A s \in Service : Fresh(s)' <=> Fresh(s)
    BY <1>3, Zenon DEF Fresh
  <2>2. CopyInv'
    BY <1>3, <2>1, Zenon DEF NamesAccounted, CopyInv, CacheKeeps
  <2>3. NameInv'
    <3> SUFFICES ASSUME NEW f \in Entry, wanted[f] # 0
                 PROVE  LET secret == secrets[Owner[f]]
                            copy == mem[Owner[f]]
                        IN /\ secret.names[f] = 0 => /\ vault'[f].name = wanted[f]
                                                     /\ copy.names[f] = 0
                           /\ secret.names[f] # 0 =>
                                 /\ secret.names[f] = wanted[f]
                                 /\ \/ secret.refresh
                                    \/ vault'[f].version = 0
                                    \/ vault'[f].name = wanted[f]
                                 /\ copy.rv # 0 /\ ~Fresh(Owner[f]) => secret.refresh
                                 /\ Fresh(Owner[f]) /\ Passed(f)' => vault'[f].name = wanted[f]
      BY <1>3, <2>1, OwnerFacts, Zenon DEF NameInv
    <3>1. CASE f # e
      BY <1>1, <1>3, <3>1, Zenon DEF NamesAccounted, NameInv
    <3>2. CASE f = e
      BY <1>1, <3>2, WrittenName, Zenon DEF NamesAccounted, NameInv
    <3> QED
      BY <3>1, <3>2, ZenonT(30)
  <2> QED
    BY <2>2, <2>3
<1> QED
  BY <1>2, <1>3, Zenon

\* Entries are processed in the order in which Passed counts them.
Follows(e, next) == \/ e = "admin" /\ next = "client"
                    \/ e = "client" /\ next = "additional"
                    \/ e \in {"additional", "daemon"} /\ next = "clean"

LEMMA EntryNames ==
    ASSUME TypeOK, NamesAccounted, NEW e \in Entry, NEW next, Follows(e, next),
           ProcessEntry(e, next)
    PROVE  NamesAccounted'
<1>1. /\ UNCHANGED <<secrets, wanted>> /\ pc = e
      /\ cur = Owner[e] /\ Owner[e] \in Service
  BY OwnerFacts, Zenon DEF ProcessEntry, userVars, NamesAccounted, CallInv
<1>2. ASSUME pc' = next, UNCHANGED <<cur, mem>>
      PROVE  CallInv' /\ \A f \in Entry : Passed(f)' => f = e \/ Passed(f)
  <2>1. CallInv'
    <3>1. next # "generator" /\ next \notin {"idle", "finish", "watch"}
          /\ (next \in Entry => Owner[next] = Owner[e])
      BY Zenon DEF Follows, Owner, Entry, ZooKeeperEntries
    <3>2. mem[cur].rv = 0 => secrets[cur].rv = 0
      BY <1>1, Zenon DEF NamesAccounted, CallInv, Entry, ZooKeeperEntries
    <3> QED
      BY <1>1, <1>2, <3>1, <3>2, Zenon DEF CallInv
  <2>2. \A f \in Entry : Passed(f)' => f = e \/ Passed(f)
    BY <1>1, <1>2 DEF Passed, Follows, Owner, Entry, ZooKeeperEntries
  <2> QED
    BY <2>1, <2>2, Zenon
<1>3. CASE /\ vault[e].version # 0 /\ ~needToRefreshCredentials
           /\ pc' = next
           /\ UNCHANGED <<vault, cacheVars, cur, mem>>
  <2>1. CacheKeeps'
    BY <1>1, <1>3, ZenonT(30) DEF cacheVars, CacheKeeps, NamesAccounted, CopyInv
  <2>2. \A s \in Service : Fresh(s)' <=> Fresh(s)
    BY <1>1, <1>3, Zenon DEF Fresh
  <2>3. CopyInv'
    BY <1>1, <1>3, <2>1, <2>2, Zenon DEF NamesAccounted, CopyInv, CacheKeeps
  <2>4. Fresh(Owner[e]) => mem[Owner[e]] = secrets[Owner[e]]
    BY <1>1, Zenon DEF NamesAccounted, CopyInv
  <2>5. Fresh(Owner[e]) => ~secrets[Owner[e]].refresh
    BY <1>1, <1>3, <2>4, Zenon DEF needToRefreshCredentials
  <2>6. NameInv'
    BY <1>1, <1>2, <1>3, <2>2, <2>5, OwnerFacts, Zenon DEF NamesAccounted, NameInv
  <2> QED
    BY <1>2, <1>3, <2>3, <2>6, Zenon DEF NamesAccounted
<1>4. CASE Fail(FALSE) /\ UNCHANGED vault
  BY <1>1, <1>4, FailNames, Zenon
<1>5. CASE /\ WriteVaultSecret(e)
           /\ pc' = next
           /\ UNCHANGED <<cacheVars, cur, mem>>
  <2>1. CacheKeeps'
    BY <1>1, <1>5, Zenon DEF cacheVars, CacheKeeps, NamesAccounted, CopyInv
  <2> QED
    BY <1>1, <1>2, <1>5, <2>1, WriteNames, Zenon DEF NamesAccounted
<1> QED
  BY <1>3, <1>4, <1>5, ZenonT(30) DEF ProcessEntry

\* A write whose version is never noted: the call panics, or its answer is lost.
LEMMA UnnotedNames ==
    ASSUME TypeOK, NamesAccounted, processCredentialsPanic \/ WriteVaultSecretUnanswered
    PROVE  NamesAccounted'
<1>1. /\ pc \in Entry /\ WriteVaultSecret(pc) /\ Returned
      /\ UNCHANGED <<secrets, wanted, cachedSecrets>>
  BY DEF processCredentialsPanic, WriteVaultSecretUnanswered, userVars, Entry
<1>2. mem' = [s \in Service |-> NoSecret] /\ pc' = "idle"
  BY <1>1, Zenon DEF Returned
<1>3. CacheKeeps'
  BY <1>1, Zenon DEF CacheKeeps, NamesAccounted, CopyInv
<1>4. CallInv'
  BY <1>2, Zenon DEF CallInv, Entry, ZooKeeperEntries
<1> QED
  BY <1>1, <1>2, <1>3, <1>4, WriteNames, Zenon DEF NamesAccounted

-----------------------------------------------------------------------------
(* The steps after the entries, users and informers.                       *)

\* When a secret is emptied, Vault has every name that was asked for.
LEMMA EmptiedSafe ==
    ASSUME TypeOK, NamesAccounted, pc = "clean", Fresh(cur),
           NEW e \in Entry, Owner[e] = cur, wanted[e] # 0
    PROVE  vault[e].name = wanted[e]
BY DEF NamesAccounted, NameInv, Passed

LEMMA EmptiedNames ==
    ASSUME TypeOK, NamesAccounted, pc = "clean", cur \in Service, Fresh(cur),
           secrets' = [secrets EXCEPT ![cur] = Cleaned(mem[cur])],
           UNCHANGED <<vault, wanted, cachedSecrets>>,
           \/ mem' = [mem EXCEPT ![cur] = Cleaned(mem[cur])] /\ pc' = "deploy"
           \/ mem' = [s \in Service |-> NoSecret] /\ pc' = "idle"
    PROVE  CopyInv' /\ NameInv'
<1> DEFINE clean == Cleaned(mem[cur])
<1>1. clean \in SecretObject /\ clean.rv = secrets[cur].rv + 1 /\ clean.names = NoNames
      /\ clean.rv # 0
  BY CleanedFacts DEF TypeOK, StoreType, CallType, Fresh, SecretObject
<1> HIDE DEF clean
<1>2. /\ secrets'[cur] = clean
      /\ \A s \in Service \ {cur} : secrets'[s] = secrets[s]
  BY DEF TypeOK, StoreType, clean
<1>3. \/ /\ mem'[cur] = clean
         /\ \A s \in Service \ {cur} : mem'[s] = mem[s]
      \/ \A s \in Service : mem'[s].rv = 0 /\ mem'[s].names = NoNames
  BY SecretFacts, Zenon DEF TypeOK, CallType, clean
<1>4. CopyInv'
  <2> SUFFICES ASSUME NEW s \in Service
               PROVE  /\ secrets'[s].rv = 0 => secrets'[s].names = NoNames
                      /\ secrets'[s].rv # 0 => /\ cachedSecrets'[s].rv # 0
                                               /\ mem'[s].rv <= secrets'[s].rv
                      /\ mem'[s].rv = 0 => mem'[s].names = NoNames
                      /\ Fresh(s)' => mem'[s] = secrets'[s]
                      /\ \A e \in Entry \ EntriesOf[s] : secrets'[s].names[e] = 0
    BY Zenon DEF CopyInv
  <2>1. CASE s = cur
    <3>1. cachedSecrets[cur].rv # 0
      BY Zenon DEF NamesAccounted, CopyInv, Fresh
    <3> QED
      BY <1>1, <1>2, <1>3, <2>1, <3>1 DEF Fresh, NoNames, SecretObject
  <2>2. CASE s # cur
    BY <1>2, <1>3, <2>2
    DEF NamesAccounted, CopyInv, Fresh, TypeOK, StoreType, SecretObject
  <2> QED
    BY <2>1, <2>2, Zenon
<1>5. NameInv'
  <2>1. \A e \in Entry : ~Passed(e)'
    BY Zenon DEF Passed
  <2> SUFFICES ASSUME NEW e \in Entry, wanted[e] # 0
               PROVE  NameOK(secrets'[Owner[e]], mem'[Owner[e]], vault[e], wanted[e], e,
                             Fresh(Owner[e])', Passed(e)')
    BY Zenon DEF NameInv, NameOK
  <2>2. CASE Owner[e] = cur
    <3>1. secrets'[cur].names = NoNames /\ mem'[cur].names = NoNames
      BY <1>1, <1>2, <1>3, Zenon
    <3>2. secrets'[Owner[e]].names[e] = 0 /\ mem'[Owner[e]].names[e] = 0
      BY <2>2, <3>1, OwnerNoNames, Zenon
    <3> QED
      BY <2>2, <3>2, EmptiedSafe, Zenon DEF NameOK
  <2>3. CASE Owner[e] # cur
    <3>1. /\ secrets'[Owner[e]] = secrets[Owner[e]]
          /\ \/ mem'[Owner[e]] = mem[Owner[e]]
             \/ mem'[Owner[e]].rv = 0 /\ mem'[Owner[e]].names[e] = 0
      <4>1. Owner[e] \in Service \ {cur}
        BY <2>3, OwnerNoNames, Zenon
      <4>2. \/ mem'[Owner[e]] = mem[Owner[e]]
            \/ mem'[Owner[e]].rv = 0 /\ mem'[Owner[e]].names = NoNames
        BY <1>3, <4>1, Zenon
      <4> QED
        BY <1>2, <4>1, <4>2, OwnerNoNames, Zenon
    <3>2. NameOK(secrets[Owner[e]], mem[Owner[e]], vault[e], wanted[e], e, Fresh(Owner[e]),
                 Passed(e))
      BY NameInvFor, Zenon
    <3>3. mem'[Owner[e]] = mem[Owner[e]] => (Fresh(Owner[e])' <=> Fresh(Owner[e]))
      BY <3>1, Zenon DEF Fresh
    <3> QED
      BY <2>1, <3>1, <3>2, <3>3, Zenon DEF NameOK
  <2> QED
    BY <2>2, <2>3, Zenon
<1> QED
  BY <1>4, <1>5, Zenon

LEMMA CleanNames ==
    ASSUME TypeOK, NamesAccounted, cleanSecretData
    PROVE  NamesAccounted'
<1>1. /\ cur \in Service /\ pc = "clean" /\ pc' = "deploy"
      /\ UNCHANGED <<vault, wanted, cachedSecrets, cur>>
  BY ServicesAssumption, Zenon
  DEF cleanSecretData, vaultVars, cacheVars, userVars, TypeOK, CallType
<1>2. CASE needToCleanSecret
  <2>1. /\ Fresh(cur)
        /\ secrets' = [secrets EXCEPT ![cur] = Cleaned(mem[cur])]
        /\ mem' = [mem EXCEPT ![cur] = Cleaned(mem[cur])]
    BY <1>2, Zenon DEF cleanSecretData, needToCleanSecret, Fresh, CleanedCopy
  <2>2. mem'[cur].rv # 0
    <3>1. Cleaned(mem[cur]).rv # 0
      BY <1>1, CleanedFacts DEF TypeOK, CallType, SecretObject
    <3> QED
      BY <1>1, <2>1, <3>1, Zenon DEF TypeOK, CallType
  <2>3. CallInv'
    BY <1>1, <2>2, Zenon DEF CallInv, Entry, ZooKeeperEntries
  <2> QED
    BY <1>1, <2>1, <2>3, EmptiedNames, Zenon DEF NamesAccounted
<1>3. CASE ~needToCleanSecret
  <2>1. UNCHANGED <<secrets, mem>>
    BY <1>3, Zenon DEF cleanSecretData
  <2>2. CacheKeeps' /\ \A e \in Entry : ~Passed(e)'
    BY <1>1, <2>1, Zenon DEF CacheKeeps, NamesAccounted, CopyInv, Passed
  <2>3. CallInv'
    BY <1>1, <2>1 DEF NamesAccounted, CallInv, Entry, ZooKeeperEntries
  <2> QED
    BY <1>1, <2>1, <2>2, <2>3, SameNames, Zenon DEF NamesAccounted
<1> QED
  BY <1>2, <1>3, Zenon

LEMMA CleanFailsNames ==
    ASSUME TypeOK, NamesAccounted, cleanSecretDataFails
    PROVE  NamesAccounted'
<1>1. /\ cur \in Service /\ pc = "clean" /\ UNCHANGED <<vault, wanted>>
  BY ServicesAssumption, Zenon DEF cleanSecretDataFails, vaultVars, userVars, TypeOK, CallType
<1>2. CASE UNCHANGED secrets /\ Fail(FALSE)
  BY <1>1, <1>2, FailNames, Zenon
<1>3. CASE /\ secrets[cur].rv = mem[cur].rv
           /\ secrets' = [secrets EXCEPT ![cur] = Cleaned(mem[cur])]
           /\ \E outage \in BOOLEAN : Fail(outage)
  <2>1. /\ mem' = [s \in Service |-> NoSecret] /\ pc' = "idle"
        /\ UNCHANGED cachedSecrets
    BY <1>3, Zenon DEF Fail, Returned
  <2>2. Fresh(cur)
    BY <1>3, Zenon DEF cleanSecretDataFails, needToCleanSecret, Fresh
  <2>3. CallInv'
    BY <2>1, Zenon DEF CallInv, Entry, ZooKeeperEntries
  <2> QED
    BY <1>1, <1>3, <2>1, <2>2, <2>3, EmptiedNames, Zenon DEF NamesAccounted
<1> QED
  BY <1>2, <1>3, Zenon DEF cleanSecretDataFails

\* The rest of Reconcile handles no names.
LEMMA RestNames ==
    ASSUME TypeOK, NamesAccounted,
           Deploy \/ UpdateServiceStatus \/ Annotate \/ Finish \/ CallFails
    PROVE  NamesAccounted'
<1>1. UNCHANGED <<secrets, vault, wanted, cachedSecrets>>
  BY Zenon DEF Deploy, UpdateServiceStatus, Annotate, Finish, CallFails, Fail, vaultVars,
         cacheVars, userVars
<1>2. CacheKeeps'
  BY <1>1, Zenon DEF CacheKeeps, NamesAccounted, CopyInv
<1>3. CASE \E outage \in BOOLEAN : Fail(outage)
  BY <1>1, <1>3, FailNames, Zenon
<1>4. CASE Returned
  BY <1>1, <1>2, <1>4, NoCopyNames, Zenon DEF Returned
<1>5. CASE /\ mem' = [s \in Service |-> NoSecret]
           /\ pc' \in {"finish", "watch"}
  BY <1>1, <1>2, <1>5, NoCopyNames, Zenon
<1>6. CASE /\ UNCHANGED <<mem, cur>>
           /\ pc \in {"deploy", "status", "annotate"}
           /\ pc' \in {"policies", "status", "annotate"}
  <2>1. \A e \in Entry : ~Passed(e)'
    BY <1>6, Zenon DEF Passed
  <2>2. CallInv'
    BY <1>1, <1>6, Zenon DEF NamesAccounted, CallInv, Entry, ZooKeeperEntries
  <2> QED
    BY <1>1, <1>2, <1>6, <2>1, <2>2, SameNames, Zenon DEF NamesAccounted
<1>7. CASE Deploy
  BY <1>6, <1>7, Zenon DEF Deploy, NextServer
<1>8. CASE UpdateServiceStatus
  BY <1>3, <1>6, <1>8, Zenon DEF UpdateServiceStatus
<1>9. CASE Annotate
  BY <1>5, <1>6, <1>9, Zenon DEF Annotate
<1>10. CASE Finish \/ CallFails
  BY <1>3, <1>4, <1>10, Zenon DEF Finish, CallFails
<1> QED
  BY <1>7, <1>8, <1>9, <1>10, Zenon

\* A user update that leaves a name in the secret without a request takes the wish for
\* it back; with a request, the next pass over a fresh copy writes it.
LEMMA UpdateNames ==
    ASSUME TypeOK, NamesAccounted, NEW s \in Service, UpdateSecret(s)
    PROVE  NamesAccounted'
<1>1. PICK given \in Supplies, request \in BOOLEAN :
        /\ secrets' = [secrets EXCEPT ![s] =
              [rv |-> secrets[s].rv + 1, names |-> UpdatedNames(s, given),
               refresh |-> request, owned |-> secrets[s].owned,
               filled |-> secrets[s].filled \/ given \cap EntriesOf[s] # {}]]
        /\ wanted' = [e \in Entry |-> IF \/ e \notin EntriesOf[s]
                                         \/ UpdatedNames(s, given)[e] = 0
                                      THEN wanted[e]
                                      ELSE IF request THEN UpdatedNames(s, given)[e] ELSE 0]
  BY Zenon DEF UpdateSecret, UpdatedNames
<1> DEFINE names == UpdatedNames(s, given)
<1>2. /\ secrets'[s].rv = secrets[s].rv + 1
      /\ secrets'[s].names = names
      /\ secrets'[s].refresh = request
      /\ \A u \in Service \ {s} : secrets'[u] = secrets[u]
  BY <1>1, Zenon DEF TypeOK, StoreType
<1>3. \A e \in Entry : /\ names[e] = 0 => secrets[s].names[e] = 0
                       /\ e \notin EntriesOf[s] => names[e] = secrets[s].names[e]
  BY DEF UpdatedNames, TypeOK, HistoryType
<1> HIDE DEF names
<1>4. /\ UNCHANGED <<vault, mem, pc, cur, cachedSecrets>> /\ secrets[s].rv # 0
  BY Zenon DEF UpdateSecret, vaultVars, callVars, cacheVars
<1>5. ~Fresh(s)' /\ \A u \in Service \ {s} : Fresh(u)' <=> Fresh(u)
  <2>1. \A m, n \in Nat : m <= n => m # n + 1
    OBVIOUS
  <2>2. mem[s].rv \in Nat /\ secrets[s].rv \in Nat /\ mem[s].rv <= secrets[s].rv
    BY <1>4, Zenon DEF NamesAccounted, CopyInv, TypeOK, StoreType, CallType, SecretObject
  <2>3. mem'[s].rv # secrets'[s].rv
    BY <1>2, <1>4, <2>1, <2>2, Zenon
  <2> QED
    BY <1>2, <1>4, <2>3, Zenon DEF Fresh
<1>6. CopyInv'
  <2> SUFFICES ASSUME NEW u \in Service
               PROVE  /\ secrets'[u].rv = 0 => secrets'[u].names = NoNames
                      /\ secrets'[u].rv # 0 => /\ cachedSecrets'[u].rv # 0
                                               /\ mem'[u].rv <= secrets'[u].rv
                      /\ mem'[u].rv = 0 => mem'[u].names = NoNames
                      /\ Fresh(u)' => mem'[u] = secrets'[u]
                      /\ \A e \in Entry \ EntriesOf[u] : secrets'[u].names[e] = 0
    BY Zenon DEF CopyInv
  <2>1. CASE u = s
    <3>1. mem[s].rv <= secrets'[s].rv /\ secrets'[s].rv # 0
      <4>1. mem[s].rv \in Nat /\ secrets[s].rv \in Nat
        BY Zenon DEF TypeOK, StoreType, CallType, MemoryType, SecretObject
      <4>2. mem[s].rv <= secrets[s].rv
        BY <1>4, Zenon DEF NamesAccounted, CopyInv
      <4> QED
        BY <1>2, <4>1, <4>2
    <3> QED
      BY <1>2, <1>3, <1>4, <1>5, <2>1, <3>1, Zenon DEF NamesAccounted, CopyInv
  <2>2. CASE u # s
    BY <1>2, <1>4, <1>5, <2>2, Zenon DEF NamesAccounted, CopyInv
  <2> QED
    BY <2>1, <2>2, Zenon
<1>7. CallInv'
  <2>1. pc \notin {"idle", "finish", "watch"} /\ mem[cur].rv = 0 => secrets'[cur].rv = 0
    <3>1. pc \notin {"idle", "finish", "watch"} => cur \in Service
      BY ServicesAssumption, Zenon DEF TypeOK, CallType
    <3> QED
      BY <1>2, <1>4, <3>1, Zenon DEF NamesAccounted, CallInv
  <2> QED
    BY <1>4, <2>1, Zenon DEF NamesAccounted, CallInv
<1>8. NameInv'
  <2> SUFFICES ASSUME NEW e \in Entry, wanted'[e] # 0
               PROVE  NameOK(secrets'[Owner[e]], mem[Owner[e]], vault[e], wanted'[e], e,
                             Fresh(Owner[e])', Passed(e)')
    BY <1>4, Zenon DEF NameInv, NameOK
  <2>1. Passed(e)' <=> Passed(e)
    BY <1>4, Zenon DEF Passed
  <2>2. wanted'[e] = IF e \notin EntriesOf[s] \/ names[e] = 0 THEN wanted[e]
                     ELSE IF request THEN names[e] ELSE 0
    BY <1>1, ZenonT(30) DEF names
  <2>3. CASE Owner[e] # s
    <3>1. /\ secrets'[Owner[e]] = secrets[Owner[e]] /\ wanted'[e] = wanted[e]
          /\ Fresh(Owner[e])' <=> Fresh(Owner[e])
      BY <1>2, <1>5, <2>2, <2>3, OwnerFacts, Zenon
    <3>2. NameOK(secrets[Owner[e]], mem[Owner[e]], vault[e], wanted[e], e, Fresh(Owner[e]),
                 Passed(e))
      BY <3>1, NameInvFor, Zenon
    <3> QED
      BY <2>1, <3>1, <3>2, Zenon DEF NameOK
  <2>4. CASE Owner[e] = s
    <3>1. ~Fresh(Owner[e])' /\ secrets'[Owner[e]].names[e] = names[e]
          /\ secrets'[Owner[e]].refresh = request
      BY <1>2, <1>5, <2>4, Zenon
    <3>2. CASE names[e] = 0
      <4>1. wanted'[e] = wanted[e] /\ secrets[Owner[e]].names[e] = 0
        BY <1>3, <2>2, <2>4, <3>2, Zenon
      <4>2. NameOK(secrets[Owner[e]], mem[Owner[e]], vault[e], wanted[e], e, Fresh(Owner[e]),
                   Passed(e))
        BY <4>1, NameInvFor, Zenon
      <4> QED
        BY <3>1, <3>2, <4>1, <4>2, Zenon DEF NameOK
    <3>3. CASE names[e] # 0
      <4>1. request /\ wanted'[e] = names[e]
        BY <2>2, <2>4, <3>3, OwnerFacts, Zenon
      <4> QED
        BY <3>1, <3>3, <4>1, Zenon DEF NameOK
    <3> QED
      BY <3>2, <3>3, Zenon
  <2> QED
    BY <2>3, <2>4, Zenon
<1> QED
  BY <1>6, <1>7, <1>8, Zenon DEF NamesAccounted

LEMMA RemoveNames ==
    ASSUME TypeOK, NamesAccounted, NEW s \in Service, RemoveSecret(s)
    PROVE  NamesAccounted'
<1>1. /\ secrets'[s].rv = 0 /\ secrets'[s].names = NoNames
      /\ \A u \in Service \ {s} : secrets'[u] = secrets[u]
  BY RemovedFacts, Zenon DEF RemoveSecret, TypeOK, StoreType
<1>2. \A e \in Entry : wanted'[e] = IF secrets[s].names[e] = 0 THEN wanted[e] ELSE 0
  BY Zenon DEF RemoveSecret
<1>3. UNCHANGED <<vault, mem, pc, cur, cachedSecrets>>
  BY Zenon DEF RemoveSecret, vaultVars, callVars, cacheVars
<1>4. ~Fresh(s)' /\ \A u \in Service \ {s} : Fresh(u)' <=> Fresh(u)
  BY <1>1, <1>3, Zenon DEF Fresh
<1>5. CopyInv'
  <2> SUFFICES ASSUME NEW u \in Service
               PROVE  /\ secrets'[u].rv = 0 => secrets'[u].names = NoNames
                      /\ secrets'[u].rv # 0 => /\ cachedSecrets'[u].rv # 0
                                               /\ mem'[u].rv <= secrets'[u].rv
                      /\ mem'[u].rv = 0 => mem'[u].names = NoNames
                      /\ Fresh(u)' => mem'[u] = secrets'[u]
                      /\ \A e \in Entry \ EntriesOf[u] : secrets'[u].names[e] = 0
    BY Zenon DEF CopyInv
  <2>1. CASE u = s
    BY <1>1, <1>3, <1>4, <2>1, ZenonT(30) DEF NamesAccounted, CopyInv, NoNames
  <2>2. CASE u # s
    BY <1>1, <1>3, <1>4, <2>2, ZenonT(30) DEF NamesAccounted, CopyInv
  <2> QED
    BY <2>1, <2>2, Zenon
<1>6. CallInv'
  <2>1. pc \notin {"idle", "finish", "watch"} => cur \in Service
    BY ServicesAssumption, Zenon DEF TypeOK, CallType
  <2> QED
    BY <1>1, <1>3, <2>1, Zenon DEF NamesAccounted, CallInv
<1>7. NameInv'
  <2> SUFFICES ASSUME NEW e \in Entry, wanted'[e] # 0
               PROVE  NameOK(secrets'[Owner[e]], mem[Owner[e]], vault[e], wanted'[e], e,
                             Fresh(Owner[e])', Passed(e)')
    BY <1>3, Zenon DEF NameInv, NameOK
  <2>1. (Passed(e)' <=> Passed(e)) /\ wanted'[e] = wanted[e]
    BY <1>2, <1>3, Zenon DEF Passed
  <2>4. NameOK(secrets[Owner[e]], mem[Owner[e]], vault[e], wanted[e], e, Fresh(Owner[e]),
               Passed(e))
    BY <2>1, NameInvFor, Zenon
  <2>2. CASE Owner[e] # s
    <3>1. /\ secrets'[Owner[e]] = secrets[Owner[e]]
          /\ Fresh(Owner[e])' <=> Fresh(Owner[e])
      BY <1>1, <1>4, <2>2, OwnerFacts, Zenon
    <3> QED
      BY <2>1, <2>4, <3>1, Zenon DEF NameOK
  <2>3. CASE Owner[e] = s
    <3>1. secrets'[Owner[e]].names[e] = 0 /\ secrets[Owner[e]].names[e] = 0
      BY <1>1, <1>2, <2>3, OwnerNoNames, Zenon
    <3> QED
      BY <2>1, <2>4, <3>1, Zenon DEF NameOK
  <2> QED
    BY <2>2, <2>3, Zenon
<1> QED
  BY <1>5, <1>6, <1>7, Zenon DEF NamesAccounted

\* Informers change only what later calls read; a restart forgets every copy.
LEMMA CacheNames ==
    ASSUME TypeOK, NamesAccounted, DeliverSecrets \/ DeliverStatus \/ Restart
    PROVE  NamesAccounted'
<1>1. UNCHANGED <<secrets, vault, wanted>>
  BY Zenon DEF DeliverSecrets, DeliverSecret, DeliverStatus, Restart, vaultVars, userVars
<1>2. CacheKeeps'
  <2>1. \A s \in Service : cachedSecrets'[s] \in {cachedSecrets[s], secrets[s]}
    BY Zenon DEF DeliverSecrets, DeliverSecret, DeliverStatus, Restart, TypeOK, CacheType
  <2> QED
    BY <1>1, <2>1, Zenon DEF CacheKeeps, NamesAccounted, CopyInv
<1>3. CASE DeliverSecrets \/ DeliverStatus
  <2>1. UNCHANGED <<mem, pc, cur>>
    BY <1>3, Zenon DEF DeliverSecrets, DeliverSecret, DeliverStatus, callVars
  <2>2. CallInv' /\ \A e \in Entry : Passed(e)' <=> Passed(e)
    BY <1>1, <2>1, Zenon DEF NamesAccounted, CallInv, Passed
  <2> QED
    BY <1>1, <1>2, <2>1, <2>2, SameNames, Zenon DEF NamesAccounted
<1>4. CASE Restart
  BY <1>1, <1>2, <1>4, NoCopyNames, Zenon DEF Restart, Returned
<1> QED
  BY <1>3, <1>4, Zenon

LEMMA InitNames == Init => NamesAccounted
<1> SUFFICES ASSUME Init PROVE NamesAccounted
  BY Zenon
<1>1. \A s \in Service : mem[s].rv = 0 /\ mem[s].names = NoNames /\ cachedSecrets[s] = secrets[s]
  BY SecretFacts, Zenon DEF Init
<1>2. \A s \in Service : \/ /\ s \in Services /\ secrets[s].rv = 1
                            /\ \A e \in Entry : secrets[s].names[e]
                                                = IF e \in EntriesOf[s] THEN 1 ELSE 0
                         \/ /\ s \notin Services
                            /\ secrets[s].rv = 0 /\ secrets[s].names = NoNames
  BY SecretFacts, Zenon DEF Init, NewSecret
<1>3. CopyInv
  <2> SUFFICES ASSUME NEW s \in Service
               PROVE  /\ secrets[s].rv = 0 => secrets[s].names = NoNames
                      /\ secrets[s].rv # 0 => /\ cachedSecrets[s].rv # 0
                                              /\ mem[s].rv <= secrets[s].rv
                      /\ mem[s].rv = 0 => mem[s].names = NoNames
                      /\ Fresh(s) => mem[s] = secrets[s]
                      /\ \A e \in Entry \ EntriesOf[s] : secrets[s].names[e] = 0
    BY Zenon DEF CopyInv
  <2>1. 0 <= 1 /\ 1 # 0
    OBVIOUS
  <2>2. secrets[s].rv # 0 => secrets[s].rv = 1
    BY <1>2, Zenon
  <2>3. \A e \in Entry \ EntriesOf[s] : secrets[s].names[e] = 0
    BY <1>2, Zenon DEF NoNames
  <2> QED
    BY <1>1, <1>2, <2>1, <2>2, <2>3, Zenon DEF Fresh
<1>4. CallInv
  BY Zenon DEF Init, CallInv, Entry, ZooKeeperEntries
<1>5. NameInv
  <2> SUFFICES ASSUME NEW e \in Entry, wanted[e] # 0
               PROVE  /\ secrets[Owner[e]].names[e] = wanted[e]
                      /\ vault[e].version = 0
    BY <1>1, OwnerFacts, Zenon DEF NameInv, Fresh
  <2>1. wanted[e] = 1 /\ ~Preloaded /\ \E s \in Services : e \in EntriesOf[s]
    BY Zenon DEF Init
  <2>2. Owner[e] \in Services /\ e \in EntriesOf[Owner[e]] /\ Owner[e] \in Service
    BY <2>1, OwnerFacts, ServicesAssumption, Zenon
  <2>3. vault[e].version = 0
    BY <2>1, Zenon DEF Init
  <2> QED
    BY <1>2, <2>1, <2>2, <2>3, Zenon
<1> QED
  BY <1>3, <1>4, <1>5, Zenon DEF NamesAccounted

LEMMA StepNames ==
    ASSUME TypeOK, NamesAccounted, [Next]_vars
    PROVE  NamesAccounted'
<1>1. CASE OperatorStep
  <2>1. CASE Begin \/ watchSecret \/ Gate
    BY <2>1, BeginNames, WatchNames, GateNames, Zenon
  <2>2. CASE watchSecretConflict
    BY <2>2, FailNames, Zenon DEF watchSecretConflict, vaultVars, userVars
  <2>3. CASE WritePoliciesAndRoles \/ NewPasswordGenerator
    BY <2>3, PoliciesNames, GeneratorNames, Zenon
  <2>4. CASE \/ processAdminCredentials \/ processClientCredentials
             \/ processAdditionalUsersCredentials \/ processCredentials
    BY <2>4, EntryNames, Zenon
    DEF processAdminCredentials, processClientCredentials, processCredentials,
        processAdditionalUsersCredentials, Entry, ZooKeeperEntries, Follows
  <2>5. CASE processCredentialsPanic \/ cleanSecretData \/ cleanSecretDataFails
    BY <2>5, UnnotedNames, CleanNames, CleanFailsNames, Zenon
  <2>6. CASE Deploy \/ UpdateServiceStatus \/ Annotate \/ Finish
    BY <2>6, RestNames, Zenon
  <2> QED
    BY <1>1, <2>1, <2>2, <2>3, <2>4, <2>5, <2>6, Zenon DEF OperatorStep
<1>2. CASE CallFails \/ WriteVaultSecretUnanswered \/ Restart \/ DeliverStatus \/ DeliverSecrets
  BY <1>2, RestNames, UnnotedNames, CacheNames, Zenon
<1>3. CASE \E s \in EditableSecrets : UpdateSecret(s) \/ RemoveSecret(s)
  BY <1>3, UpdateNames, RemoveNames, EditsAssumption, Zenon
<1>4. CASE UNCHANGED vars
  <2>1. UNCHANGED <<secrets, mem, vault, wanted, cachedSecrets, pc, cur>>
    BY <1>4, Zenon DEF vars, vaultVars, cacheVars, callVars, userVars
  <2>2. CacheKeeps' /\ CallInv' /\ \A e \in Entry : Passed(e)' <=> Passed(e)
    BY <2>1, Zenon DEF CacheKeeps, NamesAccounted, CopyInv, CallInv, Passed
  <2> QED
    BY <2>1, <2>2, SameNames, Zenon DEF NamesAccounted
<1> QED
  BY <1>1, <1>2, <1>3, <1>4, Zenon DEF Next

\* Every name that a user asked for is where the reconcilers will look for it.
THEOREM NamesAlwaysAccounted == Spec => []NamesAccounted
<1>1. Init => TypeOK /\ NamesAccounted
  BY InitType, InitNames, Zenon
<1>2. TypeOK /\ NamesAccounted /\ [Next]_vars => TypeOK' /\ NamesAccounted'
  BY StepType, StepNames
<1> QED
  BY <1>1, <1>2, PTL DEF Spec

-----------------------------------------------------------------------------
(* Deployments find what they read in Vault.                               *)

GrantSet(s) == {GrantsOf(s)[j] : j \in 1..Len(GrantsOf(s))}

\* All that processVaultSecrets makes for service s is in Vault.
Prepared(s) == /\ GrantSet(s) \subseteq granted
               /\ \A e \in EntriesOf[s] : vault[e].version # 0

\* The inductive invariant: a recorded hash, a Deployment and the last steps of a pass
\* each vouch for the service's part of Vault, and the services after ZooKeeper are
\* reached only when ZooKeeper's part is there.
VaultReady ==
    /\ ~WritePolicies => Grant \ {"passwordPolicy"} \subseteq granted
    /\ \A s \in hashed : Prepared(s)
    /\ \A d \in deployed : Prepared(d[1]) /\ Prepared("zooKeeper")
    /\ cur \in {"monitoring", "backupDaemon"} => Prepared("zooKeeper")
    /\ pc \in {"generator", "clean"} \cup Entry => GrantSet(cur) \subseteq granted
    /\ \A e \in Entry : Passed(e) => vault[e].version # 0
    /\ pc \in {"deploy", "status", "annotate"} => Prepared(cur)

LEMMA GrantSets ==
    /\ GrantSet("zooKeeper") = {"adminPolicy", "adminRole", "clientPolicy"}
    /\ GrantSet("monitoring") = {"monitoringPolicy", "monitoringRole"}
    /\ GrantSet("backupDaemon") = {"daemonPolicy", "daemonRole"}
    /\ \A s \in Service : GrantSet(s) \subseteq Grant \ {"passwordPolicy"}
<1>1. GrantSet("zooKeeper") = {"adminPolicy", "adminRole", "clientPolicy"}
  <2>1. GrantsOf("zooKeeper") = <<"adminPolicy", "adminRole", "clientPolicy">>
    BY DEF GrantsOf, ZooKeeperGrants, MonitoringGrants, BackupDaemonGrants
  <2>2. 1..Len(GrantsOf("zooKeeper")) = {1, 2, 3}
    <3>1. Len(GrantsOf("zooKeeper")) = 3
      BY <2>1
    <3>2. 1..3 = {1, 2, 3}
      OBVIOUS
    <3> QED
      BY <3>1, <3>2, Zenon
  <2> QED
    BY <2>1, <2>2 DEF GrantSet
<1>2. GrantSet("monitoring") = {"monitoringPolicy", "monitoringRole"}
  <2>1. GrantsOf("monitoring") = <<"monitoringPolicy", "monitoringRole">>
    BY DEF GrantsOf, ZooKeeperGrants, MonitoringGrants, BackupDaemonGrants
  <2>2. 1..Len(GrantsOf("monitoring")) = {1, 2}
    BY <2>1
  <2> QED
    BY <2>1, <2>2 DEF GrantSet
<1>3. GrantSet("backupDaemon") = {"daemonPolicy", "daemonRole"}
  <2>1. GrantsOf("backupDaemon") = <<"daemonPolicy", "daemonRole">>
    BY DEF GrantsOf, ZooKeeperGrants, MonitoringGrants, BackupDaemonGrants
  <2>2. 1..Len(GrantsOf("backupDaemon")) = {1, 2}
    BY <2>1
  <2> QED
    BY <2>1, <2>2 DEF GrantSet
<1> QED
  BY <1>1, <1>2, <1>3, Zenon DEF Service, Grant

\* Policies, roles and entries are never removed.
VaultGrows == /\ granted \subseteq granted'
              /\ \A e \in Entry : vault[e].version # 0 => vault'[e].version # 0

LEMMA PreparedStays ==
    ASSUME VaultGrows, NEW s \in Service, Prepared(s)
    PROVE  Prepared(s)'
BY OwnerFacts, Zenon DEF VaultGrows, Prepared

\* A step that records no hash, makes no Deployment and stays before a pass or in
\* the part of it that it is in.
LEMMA SameReady ==
    ASSUME TypeOK, VaultReady, VaultGrows, hashed' \subseteq hashed, deployed' = deployed,
           cur' \in {cur, "none", "zooKeeper"},
           \/ pc' \in {"idle", "watch", "watchShared", "gate", "policies", "finish"}
           \/ pc' = pc /\ cur' = cur
    PROVE  VaultReady'
<1>1. "zooKeeper" \in Service /\ hashed \subseteq Service
      /\ \A d \in deployed : d[1] \in Service
  BY Zenon DEF TypeOK, MemoryType, DeployType, Deployment, Service
<1>2. /\ ~WritePolicies => Grant \ {"passwordPolicy"} \subseteq granted'
      /\ \A s \in hashed' : Prepared(s)'
      /\ \A d \in deployed' : Prepared(d[1])' /\ Prepared("zooKeeper")'
      /\ cur' \in {"monitoring", "backupDaemon"} => Prepared("zooKeeper")'
  BY <1>1, PreparedStays, Zenon DEF VaultReady, VaultGrows
<1>3. /\ pc' \in {"generator", "clean"} \cup Entry => GrantSet(cur') \subseteq granted'
      /\ \A e \in Entry : Passed(e)' => vault'[e].version # 0
      /\ pc' \in {"deploy", "status", "annotate"} => Prepared(cur)'
  <2>1. CASE pc' \in {"idle", "watch", "watchShared", "gate", "policies", "finish"}
    BY <2>1, Zenon DEF Passed, Entry, ZooKeeperEntries
  <2>2. CASE pc' = pc /\ cur' = cur
    <3>1. pc \in {"deploy", "status", "annotate"} => cur \in Service
      BY ServicesAssumption, Zenon DEF TypeOK, CallType
    <3>2. pc' \in {"deploy", "status", "annotate"} => Prepared(cur)'
      BY <2>2, <3>1, PreparedStays, Zenon DEF VaultReady, Prepared
    <3>3. \A e \in Entry : Passed(e)' <=> Passed(e)
      BY <2>2 DEF Passed
    <3> QED
      BY <2>2, <3>2, <3>3, Zenon DEF VaultReady, VaultGrows
  <2> QED
    BY <2>1, <2>2, Zenon
<1> QED
  BY <1>2, <1>3, Zenon DEF VaultReady

LEMMA GateReady ==
    ASSUME TypeOK, VaultReady, Gate
    PROVE  VaultReady'
<1>1. /\ UNCHANGED <<vault, granted, hashed, deployed, cur>>
      /\ pc' = "policies" \/ (pc' = "annotate" /\ cur \in hashed)
  BY Zenon DEF Gate, vaultVars, deployVars, memoryVars
<1>2. VaultGrows /\ hashed \subseteq Service
  BY <1>1, Zenon DEF VaultGrows, TypeOK, MemoryType
<1>3. CASE pc' = "policies"
  BY <1>1, <1>2, <1>3, SameReady, Zenon
<1>4. CASE pc' = "annotate" /\ cur \in hashed
  <2>1. \A s \in Service : Prepared(s)' <=> Prepared(s)
    BY <1>1, Zenon DEF Prepared
  <2> QED
    BY <1>1, <1>2, <1>4, <2>1, Zenon
    DEF VaultReady, Passed, Entry, ZooKeeperEntries, Prepared
<1> QED
  BY <1>1, <1>3, <1>4, Zenon

LEMMA PoliciesReady ==
    ASSUME TypeOK, VaultReady, WritePoliciesAndRoles
    PROVE  VaultReady'
<1>1. cur \in Service /\ UNCHANGED <<vault, hashed, deployed>>
  BY ServicesAssumption, Zenon
  DEF WritePoliciesAndRoles, deployVars, memoryVars, TypeOK, CallType
<1>2. PICK k \in 0..Len(GrantsOf(cur)) :
        /\ granted' = IF WritePolicies
                      THEN granted \cup {GrantsOf(cur)[j] : j \in 1..k}
                      ELSE granted
        /\ \/ /\ k = Len(GrantsOf(cur))
              /\ pc' = IF EntriesOf[cur] = {} THEN "clean" ELSE "generator"
              /\ UNCHANGED cur
           \/ \E outage \in BOOLEAN : Fail(outage)
  BY Zenon DEF WritePoliciesAndRoles
<1>3. VaultGrows
  BY <1>1, <1>2, Zenon DEF VaultGrows
<1>4. CASE \E outage \in BOOLEAN : Fail(outage)
  BY <1>1, <1>3, <1>4, SameReady, Zenon DEF Fail, Returned
<1>5. CASE /\ k = Len(GrantsOf(cur))
           /\ pc' = IF EntriesOf[cur] = {} THEN "clean" ELSE "generator"
           /\ UNCHANGED cur
  <2>1. GrantSet(cur) \subseteq granted'
    BY <1>1, <1>2, <1>5, GrantSets, Zenon DEF GrantSet, VaultReady
  <2>2. \A s \in Service : Prepared(s) => Prepared(s)'
    BY <1>3, PreparedStays, Zenon
  <2>3. \A e \in Entry : ~Passed(e)'
    BY <1>1, <1>5, OwnerFacts, Zenon DEF Passed
  <2>4. /\ "zooKeeper" \in Service /\ hashed \subseteq Service
        /\ \A d \in deployed : d[1] \in Service
        /\ pc' \notin {"deploy", "status", "annotate"}
    BY <1>5, Zenon DEF TypeOK, MemoryType, DeployType, Deployment, Service
  <2>5. ~WritePolicies => Grant \ {"passwordPolicy"} \subseteq granted'
    BY <1>3, Zenon DEF VaultReady, VaultGrows
  <2> QED
    BY <1>1, <1>5, <2>1, <2>2, <2>3, <2>4, <2>5, Zenon DEF VaultReady
<1> QED
  BY <1>2, <1>4, <1>5, Zenon

LEMMA GeneratorReady ==
    ASSUME TypeOK, VaultReady, NewPasswordGenerator
    PROVE  VaultReady'
<1>1. /\ UNCHANGED <<vault, hashed, deployed, cur>> /\ granted \subseteq granted'
      /\ pc = "generator" /\ pc' \in {"admin", "daemon"}
  BY DEF NewPasswordGenerator, deployVars, memoryVars
<1>2. VaultGrows
  BY <1>1, Zenon DEF VaultGrows
<1>3. \A s \in Service : Prepared(s) => Prepared(s)'
  BY <1>2, PreparedStays, Zenon
<1>4. /\ "zooKeeper" \in Service /\ hashed \subseteq Service
      /\ \A d \in deployed : d[1] \in Service
  BY DEF TypeOK, MemoryType, DeployType, Deployment, Service
<1>5. \A e \in Entry : ~Passed(e)'
  BY <1>1 DEF Passed
<1> QED
  BY <1>1, <1>3, <1>4, <1>5, Zenon DEF VaultReady

\* An entry that a pass is over with is in Vault, written now or found there.
LEMMA EntryReady ==
    ASSUME TypeOK, VaultReady, NamesAccounted, NEW e \in Entry, NEW next,
           Follows(e, next), ProcessEntry(e, next)
    PROVE  VaultReady'
<1>1. UNCHANGED <<granted, hashed, deployed>> /\ pc = e /\ cur = Owner[e]
  BY Zenon DEF ProcessEntry, deployVars, memoryVars, NamesAccounted, CallInv
<1>2. CASE Fail(FALSE) /\ UNCHANGED vault
  <2>1. VaultGrows
    BY <1>1, <1>2, Zenon DEF VaultGrows
  <2> QED
    BY <1>1, <1>2, <2>1, SameReady, Zenon DEF Fail, Returned
<1>3. CASE /\ pc' = next /\ UNCHANGED cur
           /\ \/ vault[e].version # 0 /\ UNCHANGED vault
              \/ WriteVaultSecret(e)
  <2>1. vault'[e].version # 0 /\ VaultGrows
    <3>1. CASE vault[e].version # 0 /\ UNCHANGED vault
      BY <1>1, <3>1, Zenon DEF VaultGrows
    <3>2. CASE WriteVaultSecret(e)
      <4>1. /\ \A f \in Entry \ {e} : vault'[f] = vault[f]
            /\ vault'[e].version = IF vault[e].version < MaxVersion
                                   THEN vault[e].version + 1 ELSE vault[e].version
        BY <3>2, Zenon DEF WriteVaultSecret, TypeOK, StoreType
      <4>2. vault[e].version \in Nat
        BY Zenon DEF TypeOK, StoreType
      <4>3. vault'[e].version # 0
        BY <4>1, <4>2, BoundsAssumption
      <4> QED
        BY <1>1, <4>1, <4>3, Zenon DEF VaultGrows
    <3> QED
      BY <1>3, <3>1, <3>2, Zenon
  <2>2. \A f \in Entry : Passed(f)' => f = e \/ Passed(f)
    BY <1>1, <1>3 DEF Passed, Follows, Owner, Entry, ZooKeeperEntries
  <2>3. \A s \in Service : Prepared(s) => Prepared(s)'
    BY <2>1, PreparedStays, Zenon
  <2>4. /\ "zooKeeper" \in Service /\ hashed \subseteq Service
        /\ \A d \in deployed : d[1] \in Service
        /\ pc' \notin {"deploy", "status", "annotate"}
    BY <1>3, Zenon DEF TypeOK, MemoryType, DeployType, Deployment, Service, Follows
  <2>5. \A f \in Entry : Passed(f)' => vault'[f].version # 0
    BY <2>1, <2>2, Zenon DEF VaultReady, VaultGrows
  <2> QED
    BY <1>1, <1>3, <2>3, <2>4, <2>5, Zenon DEF VaultReady
<1> QED
  BY <1>2, <1>3, Zenon DEF ProcessEntry

LEMMA UnnotedReady ==
    ASSUME TypeOK, VaultReady, processCredentialsPanic \/ WriteVaultSecretUnanswered
    PROVE  VaultReady'
<1>1. /\ pc \in Entry /\ WriteVaultSecret(pc) /\ Returned
      /\ UNCHANGED <<granted, hashed, deployed>>
  BY Zenon DEF processCredentialsPanic, WriteVaultSecretUnanswered, deployVars, memoryVars, Entry
<1>2. /\ \A f \in Entry \ {pc} : vault'[f] = vault[f]
      /\ vault'[pc].version = IF vault[pc].version < MaxVersion
                              THEN vault[pc].version + 1 ELSE vault[pc].version
  BY <1>1, Zenon DEF WriteVaultSecret, TypeOK, StoreType
<1>3. vault[pc].version \in Nat
  BY <1>1, Zenon DEF TypeOK, StoreType
<1>4. VaultGrows
  BY <1>1, <1>2, <1>3 DEF VaultGrows
<1> QED
  BY <1>1, <1>4, SameReady, Zenon DEF Returned

\* Only a complete pass reaches the Deployment.
LEMMA CleanReady ==
    ASSUME TypeOK, VaultReady, cleanSecretData
    PROVE  VaultReady'
<1>1. /\ UNCHANGED <<vault, granted, hashed, deployed, cur>> /\ cur \in Service
      /\ pc = "clean" /\ pc' = "deploy"
  BY ServicesAssumption, Zenon
  DEF cleanSecretData, vaultVars, deployVars, TypeOK, CallType
<1>2. \A s \in Service : Prepared(s)' <=> Prepared(s)
  BY <1>1, Zenon DEF Prepared
<1>3. Prepared(cur)
  BY <1>1, OwnerFacts, Zenon DEF VaultReady, Prepared, Passed
<1>4. \A e \in Entry : ~Passed(e)'
  BY <1>1, Zenon DEF Passed
<1>5. /\ "zooKeeper" \in Service /\ hashed \subseteq Service
      /\ \A d \in deployed : d[1] \in Service
      /\ pc' \notin {"generator", "clean"} \cup Entry
  BY <1>1, Zenon
  DEF TypeOK, MemoryType, DeployType, Deployment, Service, Entry, ZooKeeperEntries
<1> QED
  BY <1>1, <1>2, <1>3, <1>4, <1>5, Zenon DEF VaultReady, Prepared

LEMMA DeployReady ==
    ASSUME TypeOK, VaultReady, Deploy
    PROVE  VaultReady'
<1>1. /\ UNCHANGED <<vault, granted, hashed, cur>> /\ cur \in Service
      /\ deployed' = deployed \cup {<<cur, server>>}
      /\ pc = "deploy" /\ pc' \in {"policies", "status"}
  BY ServicesAssumption, Zenon
  DEF Deploy, NextServer, vaultVars, memoryVars, TypeOK, CallType
<1>2. \A s : Prepared(s)' <=> Prepared(s)
  BY <1>1, Zenon DEF Prepared
<1>3. Prepared(cur) /\ Prepared("zooKeeper")
  BY <1>1, Zenon DEF VaultReady, Service
<1>4. \A e \in Entry : ~Passed(e)'
  BY <1>1, Zenon DEF Passed
<1>5. pc' \notin {"generator", "clean"} \cup Entry
  BY <1>1, Zenon DEF Entry, ZooKeeperEntries
<1>6. Prepared(cur)'
  BY <1>1, <1>3, Zenon DEF Prepared
<1> QED
  BY <1>1, <1>2, <1>3, <1>4, <1>5, <1>6 DEF VaultReady

LEMMA ServiceStatusReady ==
    ASSUME TypeOK, VaultReady, UpdateServiceStatus
    PROVE  VaultReady'
<1>1. UNCHANGED <<vault, granted, hashed, deployed>> /\ pc = "status"
  BY DEF UpdateServiceStatus, vaultVars, deployVars, memoryVars
<1>2. CASE Fail(FALSE)
  <2>1. VaultGrows
    BY <1>1, Zenon DEF VaultGrows
  <2> QED
    BY <1>1, <1>2, <2>1, SameReady, Zenon DEF Fail, Returned
<1>3. CASE pc' = "annotate" /\ UNCHANGED cur
  <2>1. \A s : Prepared(s)' <=> Prepared(s)
    BY <1>1, Zenon DEF Prepared
  <2>2. Prepared(cur)'
    BY <1>1, <1>3, Zenon DEF VaultReady, Prepared
  <2>3. pc' \notin {"generator", "clean"} \cup Entry /\ \A e \in Entry : ~Passed(e)'
    BY <1>3, Zenon DEF Entry, ZooKeeperEntries, Passed
  <2> QED
    BY <1>1, <1>3, <2>1, <2>2, <2>3, Zenon DEF VaultReady
<1> QED
  BY <1>2, <1>3, Zenon DEF UpdateServiceStatus

\* The hash is recorded, and the next service begun, when the service is prepared.
LEMMA AnnotateReady ==
    ASSUME TypeOK, VaultReady, Annotate
    PROVE  VaultReady'
<1>1. /\ UNCHANGED <<vault, granted, deployed>> /\ cur \in Service /\ pc = "annotate"
  BY ServicesAssumption, Zenon DEF Annotate, vaultVars, TypeOK, CallType
<1>2. Prepared(cur)
  BY <1>1, Zenon DEF VaultReady
<1>3. CASE UNCHANGED <<hashed, pc, cur>>
  <2>1. VaultGrows
    BY <1>1, Zenon DEF VaultGrows
  <2> QED
    BY <1>1, <1>3, <2>1, SameReady, Zenon
<1>4. CASE /\ hashed' = hashed \cup {cur}
           /\ pc' = IF After(cur) = "none" THEN "finish" ELSE "watch"
           /\ cur' = After(cur)
  <2>1. \A s : Prepared(s)' <=> Prepared(s)
    BY <1>1, Zenon DEF Prepared
  <2>2. Prepared("zooKeeper")
    BY <1>1, <1>2, Zenon DEF VaultReady, Service
  <2>3. /\ pc' \notin {"generator", "clean", "deploy", "status", "annotate"} \cup Entry
        /\ \A e \in Entry : ~Passed(e)'
    BY <1>4, Zenon DEF Entry, ZooKeeperEntries, Passed
  <2> QED
    BY <1>1, <1>2, <1>4, <2>1, <2>2, <2>3, Zenon DEF VaultReady
<1> QED
  BY <1>3, <1>4, Zenon DEF Annotate

LEMMA InitReady == Init => VaultReady
BY Zenon DEF Init, VaultReady, Entry, ZooKeeperEntries, Passed

LEMMA StepReady ==
    ASSUME TypeOK, NamesAccounted, VaultReady, [Next]_vars
    PROVE  VaultReady'
<1>1. CASE /\ UNCHANGED <<vault, granted, deployed>> /\ hashed' \subseteq hashed
           /\ cur' \in {cur, "none", "zooKeeper"}
           /\ \/ pc' \in {"idle", "watch", "watchShared", "gate", "policies", "finish"}
              \/ pc' = pc /\ cur' = cur
  BY <1>1, SameReady, Zenon DEF VaultGrows
<1>2. CASE OperatorStep
  <2>1. CASE Begin
    BY <1>1, <2>1, Zenon DEF Begin, After, vaultVars, deployVars, memoryVars
  <2>2. CASE watchSecret
    BY <1>1, <2>2, Zenon DEF watchSecret, vaultVars, deployVars, memoryVars
  <2>3. CASE watchSecretConflict \/ cleanSecretDataFails
    BY <1>1, <2>3, Zenon DEF watchSecretConflict, cleanSecretDataFails, Fail, Returned,
                      vaultVars, deployVars, memoryVars
  <2>4. CASE Gate \/ WritePoliciesAndRoles \/ NewPasswordGenerator
    BY <2>4, GateReady, PoliciesReady, GeneratorReady, Zenon
  <2>5. CASE \/ processAdminCredentials \/ processClientCredentials
             \/ processAdditionalUsersCredentials \/ processCredentials
    BY <2>5, EntryReady, Zenon
    DEF processAdminCredentials, processClientCredentials, processCredentials,
        processAdditionalUsersCredentials, Entry, ZooKeeperEntries, Follows
  <2>6. CASE processCredentialsPanic \/ cleanSecretData \/ Deploy
    BY <2>6, UnnotedReady, CleanReady, DeployReady, Zenon
  <2>7. CASE UpdateServiceStatus \/ Annotate
    BY <2>7, ServiceStatusReady, AnnotateReady, Zenon
  <2>8. CASE Finish
    BY <1>1, <2>8, Zenon DEF Finish, Returned, vaultVars, deployVars
  <2> QED
    BY <1>2, <2>1, <2>2, <2>3, <2>4, <2>5, <2>6, <2>7, <2>8, Zenon DEF OperatorStep
<1>3. CASE CallFails
  BY <1>1, <1>3, Zenon DEF CallFails, Fail, Returned, vaultVars, deployVars, memoryVars
<1>4. CASE WriteVaultSecretUnanswered
  BY <1>4, UnnotedReady, Zenon
<1>5. CASE Restart
  BY <1>1, <1>5, Zenon DEF Restart, Returned, vaultVars, deployVars
<1>6. CASE DeliverStatus \/ DeliverSecrets
  BY <1>1, <1>6, Zenon DEF DeliverStatus, DeliverSecrets, DeliverSecret, vaultVars, deployVars,
                    memoryVars, callVars
<1>7. CASE \E s \in EditableSecrets : UpdateSecret(s) \/ RemoveSecret(s)
  BY <1>1, <1>7, Zenon DEF UpdateSecret, RemoveSecret, vaultVars, deployVars, memoryVars, callVars
<1>8. CASE UNCHANGED vars
  BY <1>1, <1>8, Zenon DEF vars, vaultVars, deployVars, memoryVars, callVars
<1> QED
  BY <1>2, <1>3, <1>4, <1>5, <1>6, <1>7, <1>8, Zenon DEF Next

\* For every choice of services and servers, no Deployment exists before its role, the
\* policies that role names and the entries in its environment do, whichever
\* reconciler makes them and wherever the passes before it were cut short.
THEOREM DeploymentsRunnable == Spec => []RunnableWhenDeployed
<1>1. Init => VaultReady
  BY InitReady
<1>2. TypeOK /\ NamesAccounted /\ VaultReady /\ [Next]_vars => VaultReady'
  BY StepReady, Zenon
<1>3. TypeOK /\ VaultReady => RunnableWhenDeployed
  <2> SUFFICES ASSUME TypeOK, VaultReady, NEW d \in deployed
               PROVE  /\ GrantsRead(d[1]) \subseteq granted
                      /\ \A e \in EntriesRead(d[1]) : vault[e].version # 0
    BY Zenon DEF RunnableWhenDeployed
  <2>1. d[1] \in Service /\ Prepared(d[1]) /\ Prepared("zooKeeper")
    BY Zenon DEF TypeOK, DeployType, Deployment, VaultReady
  <2>2. GrantsRead(d[1]) \subseteq GrantSet(d[1]) \cup GrantSet("zooKeeper")
    BY <2>1, GrantSets, Zenon DEF GrantsRead, Service
  <2>3. EntriesRead(d[1]) \subseteq EntriesOf[d[1]] \cup EntriesOf["zooKeeper"]
    BY <2>1 DEF EntriesRead, ZooKeeperReads, MonitoringReads, BackupDaemonReads, EntriesOf,
       Service, ZooKeeperEntries
  <2> QED
    BY <2>1, <2>2, <2>3, Zenon DEF Prepared
<1>4. Spec => []TypeOK /\ []NamesAccounted
  BY TypeCorrect, NamesAlwaysAccounted
<1> QED
  BY <1>1, <1>2, <1>3, <1>4, PTL DEF Spec

-----------------------------------------------------------------------------
(* The copies of the secrets.                                              *)

CopyOK(secret, copy, cached) ==
    /\ copy.rv = 0 => ~copy.refresh
    /\ copy.rv # 0 => secret.owned
    /\ secret.rv # 0 => cached.rv <= secret.rv

\* Between two services there is no copy; a secret that has been read is owned, and
\* the cache is never ahead of the API server.
MemInv ==
    /\ pc \in {"idle", "finish", "watch"} => mem = [s \in Service |-> NoSecret]
    /\ \A s \in Service : CopyOK(secrets[s], mem[s], cachedSecrets[s])

LEMMA SameMem ==
    ASSUME MemInv, UNCHANGED <<secrets, cachedSecrets>>,
           \/ mem' = [s \in Service |-> NoSecret]
           \/ UNCHANGED mem /\ (pc' \in {"idle", "finish", "watch"} => pc' = pc \/ pc = "idle")
    PROVE  MemInv'
<1>1. CASE mem' = [s \in Service |-> NoSecret]
  BY <1>1, SecretFacts, Zenon DEF MemInv, CopyOK, NoSecret
<1>2. CASE UNCHANGED mem /\ (pc' \in {"idle", "finish", "watch"} => pc' = pc \/ pc = "idle")
  BY <1>2, Zenon DEF MemInv
<1> QED
  BY <1>1, <1>2, Zenon

LEMMA WatchMem ==
    ASSUME TypeOK, NamesAccounted, MemInv, watchSecret
    PROVE  MemInv'
<1> DEFINE t == Target
           own == WithOwner(secrets[t])
<1>1. /\ t \in Service /\ UNCHANGED cachedSecrets
      /\ pc' \notin {"idle", "finish", "watch"}
  BY ServicesAssumption, Zenon DEF watchSecret, Target, TypeOK, CallType, Service, cacheVars
<1>2. CASE /\ cachedSecrets[t].rv # 0
           /\ cachedSecrets[t].rv = secrets[t].rv
           /\ secrets' = [secrets EXCEPT ![t] = own]
           /\ mem' = [mem EXCEPT ![t] = own]
  <2> HIDE DEF t
  <2>1. own.rv # 0 /\ own.rv >= secrets[t].rv /\ own.owned
    <3>1. secrets[t].rv \in Nat /\ secrets[t].rv # 0
      BY <1>1, <1>2, Zenon DEF TypeOK, StoreType, SecretObject
    <3>2. (own.rv = secrets[t].rv \/ own.rv = secrets[t].rv + 1) /\ own.owned
      BY DEF WithOwner
    <3> HIDE DEF own
    <3> QED
      BY <3>1, <3>2
  <2> HIDE DEF own
  <2>2. /\ secrets'[t] = own /\ mem'[t] = own
        /\ \A s \in Service \ {t} : secrets'[s] = secrets[s] /\ mem'[s] = mem[s]
    BY <1>1, <1>2, Zenon DEF TypeOK, StoreType, CallType
  <2>3. CopyOK(own, own, cachedSecrets[t])
    BY <1>2, <2>1 DEF CopyOK
  <2> QED
    BY <1>1, <2>2, <2>3, Zenon DEF MemInv
<1>3. CASE UNCHANGED <<secrets, mem>>
  BY <1>1, <1>3, Zenon DEF MemInv
<1> QED
  BY <1>2, <1>3, Zenon DEF watchSecret

LEMMA CleanMem ==
    ASSUME TypeOK, NamesAccounted, MemInv, cleanSecretData \/ cleanSecretDataFails
    PROVE  MemInv'
<1>1. /\ cur \in Service /\ UNCHANGED cachedSecrets
      /\ \/ mem' = [s \in Service |-> NoSecret]
         \/ pc' = "deploy"
  BY ServicesAssumption, Zenon DEF cleanSecretData, cleanSecretDataFails, Fail, Returned, cacheVars,
                                   TypeOK, CallType
<1>2. CASE UNCHANGED secrets /\ (UNCHANGED mem \/ mem' = [s \in Service |-> NoSecret])
  BY <1>1, <1>2, SameMem, Zenon
<1>3. CASE /\ Fresh(cur)
           /\ secrets' = [secrets EXCEPT ![cur] = Cleaned(mem[cur])]
           /\ \/ mem' = [s \in Service |-> NoSecret]
              \/ mem' = [mem EXCEPT ![cur] = Cleaned(mem[cur])]
  <2> DEFINE clean == Cleaned(mem[cur])
  <2>1. clean.rv = secrets[cur].rv + 1 /\ clean.rv # 0 /\ clean.owned
    <3>1. mem[cur] = secrets[cur] /\ mem[cur].rv \in Nat /\ secrets[cur].owned
      BY <1>1, <1>3, Zenon DEF NamesAccounted, CopyInv, MemInv, CopyOK, Fresh, TypeOK, CallType,
                               SecretObject
    <3>2. \A n \in Nat : n + 1 # 0
      OBVIOUS
    <3>3. clean.rv = mem[cur].rv + 1 /\ clean.owned = mem[cur].owned
      BY Zenon DEF Cleaned
    <3> QED
      BY <3>1, <3>2, <3>3, Zenon
  <2> HIDE DEF clean
  <2>2. /\ secrets'[cur] = clean
        /\ \A s \in Service \ {cur} : secrets'[s] = secrets[s]
    BY <1>1, <1>3, Zenon DEF clean, TypeOK, StoreType
  <2>3. cachedSecrets[cur].rv <= clean.rv
    <3>1. cachedSecrets[cur].rv \in Nat /\ secrets[cur].rv \in Nat
      BY <1>1, Zenon DEF TypeOK, CacheType, StoreType, SecretObject
    <3>2. cachedSecrets[cur].rv <= secrets[cur].rv
      BY <1>1, <1>3, Zenon DEF MemInv, CopyOK, Fresh
    <3> QED
      BY <2>1, <3>1, <3>2
  <2>4. CASE mem' = [s \in Service |-> NoSecret]
    BY <1>1, <2>1, <2>2, <2>3, <2>4, SecretFacts, Zenon DEF MemInv, CopyOK, NoSecret
  <2>5. CASE mem' = [mem EXCEPT ![cur] = clean]
    <3>1. mem'[cur] = clean /\ \A s \in Service \ {cur} : mem'[s] = mem[s]
      BY <1>1, <2>5, Zenon DEF TypeOK, CallType
    <3>2. mem'[cur].rv # 0
      BY <2>1, <3>1, Zenon
    <3>3. pc' = "deploy"
      BY <1>1, <3>2, SecretFacts, Zenon
    <3> QED
      BY <1>1, <2>1, <2>2, <2>3, <3>1, <3>3, Zenon DEF MemInv, CopyOK
  <2> QED
    BY <1>3, <2>4, <2>5, Zenon DEF clean
<1>4. CASE cleanSecretData
  BY <1>2, <1>3, <1>4, Zenon DEF cleanSecretData, needToCleanSecret, CleanedCopy, Fresh
<1>5. CASE cleanSecretDataFails
  BY <1>2, <1>3, <1>5, Zenon DEF cleanSecretDataFails, needToCleanSecret, Fail, Returned, Fresh
<1> QED
  BY <1>4, <1>5, Zenon

\* What a user update does to the secret, besides the names in it.
LEMMA UpdateEffect ==
    ASSUME TypeOK, NEW s \in Service, UpdateSecret(s)
    PROVE  /\ secrets'[s].rv = secrets[s].rv + 1
           /\ secrets'[s].owned = secrets[s].owned
           /\ \A u \in Service \ {s} : secrets'[u] = secrets[u] /\ asked'[u] = asked[u]
           /\ \/ ~secrets'[s].refresh /\ asked'[s] = asked[s]
              \/ asked'[s] = asked[s] + 1
<1>1. PICK given \in Supplies, request \in BOOLEAN :
        /\ secrets' = [secrets EXCEPT ![s] =
              [rv |-> secrets[s].rv + 1, names |-> UpdatedNames(s, given),
               refresh |-> request, owned |-> secrets[s].owned,
               filled |-> secrets[s].filled \/ given \cap EntriesOf[s] # {}]]
        /\ asked' = [asked EXCEPT ![s] = IF request THEN asked[s] + 1 ELSE asked[s]]
  BY Zenon DEF UpdateSecret, UpdatedNames
<1>2. /\ secrets'[s].rv = secrets[s].rv + 1
      /\ secrets'[s].owned = secrets[s].owned
      /\ secrets'[s].refresh = request
      /\ \A u \in Service \ {s} : secrets'[u] = secrets[u]
  BY <1>1, Zenon DEF TypeOK, StoreType
<1>3. /\ asked'[s] = IF request THEN asked[s] + 1 ELSE asked[s]
      /\ \A u \in Service \ {s} : asked'[u] = asked[u]
  BY <1>1, Zenon DEF TypeOK, HistoryType
<1> QED
  BY <1>2, <1>3, Zenon

LEMMA UserMem ==
    ASSUME TypeOK, MemInv, NEW s \in Service, UpdateSecret(s) \/ RemoveSecret(s)
    PROVE  MemInv'
<1>1. UNCHANGED <<mem, pc, cachedSecrets>> /\ secrets[s].rv # 0
  BY Zenon DEF UpdateSecret, RemoveSecret, callVars, cacheVars
<1>2. /\ secrets'[s].rv \in {0, secrets[s].rv + 1}
      /\ secrets'[s].owned = secrets[s].owned
      /\ \A u \in Service \ {s} : secrets'[u] = secrets[u]
  <2>1. CASE UpdateSecret(s)
    BY <2>1, UpdateEffect, Zenon
  <2>2. CASE RemoveSecret(s)
    BY <2>2, Zenon DEF RemoveSecret, Removed, TypeOK, StoreType
  <2> QED
    BY <2>1, <2>2, Zenon
<1>3. cachedSecrets[s].rv <= secrets[s].rv + 1
  BY <1>1 DEF MemInv, CopyOK, TypeOK, CacheType, StoreType, SecretObject
<1>4. CopyOK(secrets'[s], mem[s], cachedSecrets[s])
  BY <1>2, <1>3, Zenon DEF MemInv, CopyOK
<1> QED
  BY <1>1, <1>2, <1>4, Zenon DEF MemInv

LEMMA CacheMem ==
    ASSUME TypeOK, MemInv, DeliverSecrets \/ Restart
    PROVE  MemInv'
<1>1. /\ UNCHANGED secrets
      /\ \A s \in Service : cachedSecrets'[s] \in {cachedSecrets[s], secrets[s]}
      /\ \/ UNCHANGED <<mem, pc>>
         \/ mem' = [s \in Service |-> NoSecret]
  BY Zenon DEF DeliverSecrets, DeliverSecret, Restart, Returned, callVars, TypeOK, CacheType
<1>2. \A s \in Service : secrets[s].rv <= secrets[s].rv
  BY DEF TypeOK, StoreType, SecretObject
<1> QED
  <2>1. \A s \in Service : CopyOK(secrets[s], mem[s], cachedSecrets'[s])
    BY <1>1, <1>2, Zenon DEF MemInv, CopyOK
  <2>2. CASE UNCHANGED <<mem, pc>>
    BY <1>1, <2>1, <2>2, Zenon DEF MemInv
  <2>3. CASE mem' = [s \in Service |-> NoSecret]
    BY <1>1, <2>1, <2>3, Zenon DEF MemInv, CopyOK, NoSecret
  <2> QED
    BY <1>1, <2>2, <2>3, Zenon

LEMMA InitMem == Init => MemInv
<1> SUFFICES ASSUME Init PROVE MemInv
  BY Zenon
<1>1. \A s \in Service : secrets[s].rv \in Nat
  BY SecretFacts DEF Init, SecretObject
<1>2. \A s \in Service : secrets[s].rv <= secrets[s].rv
  BY <1>1
<1> QED
  BY <1>2, Zenon DEF Init, MemInv, CopyOK, NoSecret

LEMMA StepMem ==
    ASSUME TypeOK, NamesAccounted, MemInv, [Next]_vars
    PROVE  MemInv'
<1>1. CASE /\ UNCHANGED <<secrets, cachedSecrets>>
           /\ \/ mem' = [s \in Service |-> NoSecret]
              \/ UNCHANGED mem /\ (pc' \in {"idle", "finish", "watch"} => pc' = pc \/ pc = "idle")
  BY <1>1, SameMem, Zenon
<1>2. CASE OperatorStep
  <2>1. CASE Begin \/ Gate \/ NewPasswordGenerator \/ Deploy
    BY <1>1, <2>1, Zenon DEF Begin, Gate, NewPasswordGenerator, Deploy, NextServer, cacheVars
  <2>2. CASE watchSecret \/ cleanSecretData \/ cleanSecretDataFails
    BY <2>2, WatchMem, CleanMem, Zenon
  <2>3. CASE watchSecretConflict \/ UpdateServiceStatus
    BY <1>1, <2>3, Zenon DEF watchSecretConflict, UpdateServiceStatus, Fail, Returned
  <2>4. CASE WritePoliciesAndRoles
    BY <1>1, <2>4, Zenon DEF WritePoliciesAndRoles, Fail, Returned, cacheVars
  <2>5. ASSUME NEW e, NEW next, Follows(e, next), ProcessEntry(e, next)
        PROVE  MemInv'
    BY <1>1, <2>5, Zenon DEF ProcessEntry, Follows, Fail, Returned, cacheVars
  <2>6. CASE processCredentialsPanic
    BY <1>1, <2>6, Zenon DEF processCredentialsPanic, Returned
  <2>7. CASE Annotate
    BY <1>1, <2>7, Zenon DEF Annotate, cacheVars
  <2>8. CASE Finish
    BY <1>1, <2>8, Zenon DEF Finish, Returned
  <2> QED
    BY <1>2, <2>1, <2>2, <2>3, <2>4, <2>5, <2>6, <2>7, <2>8, Zenon
    DEF OperatorStep, processAdminCredentials, processClientCredentials, processCredentials,
        processAdditionalUsersCredentials, Follows
<1>3. CASE CallFails \/ WriteVaultSecretUnanswered
  BY <1>1, <1>3, Zenon DEF CallFails, WriteVaultSecretUnanswered, Fail, Returned
<1>4. CASE Restart \/ DeliverSecrets
  BY <1>4, CacheMem, Zenon
<1>5. CASE DeliverStatus \/ UNCHANGED vars
  BY <1>1, <1>5, Zenon DEF DeliverStatus, vars, cacheVars, callVars
<1>6. CASE \E s \in EditableSecrets : UpdateSecret(s) \/ RemoveSecret(s)
  BY <1>6, UserMem, EditsAssumption, Zenon
<1> QED
  BY <1>2, <1>3, <1>4, <1>5, <1>6, Zenon DEF Next

LEMMA NoSecretFacts == NoSecret.rv = 0 /\ ~NoSecret.refresh
BY DEF NoSecret
=============================================================================
