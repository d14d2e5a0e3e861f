----------------------- MODULE VaultCredentialsProofs -----------------------
(***************************************************************************)
(* What VaultCredentials promises about what is in Vault, for every choice *)
(* of services, number of servers and bound: it implements                 *)
(* CredentialHandover, the status reports the versions in Vault, and       *)
(* passwords are generated once per request.                               *)
(***************************************************************************)
EXTENDS VaultNamesProofs

(* The reconcilers implement CredentialHandover.                           *)

LEMMA HandoverEntries == Handover!Entries = Entry
BY DEF Handover!Entries, EntriesOf, Entry, Service, ZooKeeperEntries

LEMMA GivenFacts ==
    ASSUME TypeOK
    PROVE  /\ GivenNames \in [Entry -> Nat] /\ KeptNames \in [Entry -> Nat]
           /\ \A e \in Entry : /\ GivenNames[e] = secrets[Owner[e]].names[e]
                               /\ KeptNames[e] = vault[e].name
<1>1. \A e \in Entry : secrets[Owner[e]].names[e] \in Nat /\ vault[e].name \in Nat
  BY OwnerFacts DEF TypeOK, StoreType, SecretObject
<1> QED
  BY <1>1, Zenon DEF GivenNames, KeptNames

\* A step that changes neither the names in the secrets nor those in Vault.
LEMMA HandoverStutters ==
    ASSUME TypeOK, UNCHANGED <<wanted, updates>>,
           \A s \in Service : secrets'[s].names = secrets[s].names,
           \A e \in Entry : vault'[e].name = vault[e].name
    PROVE  UNCHANGED Handover!handoverVars
BY OwnerFacts DEF Handover!handoverVars, GivenNames, KeptNames

\* Writing an entry is a Keep.
LEMMA WriteKeeps ==
    ASSUME TypeOK, TypeOK', NamesAccounted, pc \in Entry, WriteVaultSecret(pc),
           UNCHANGED <<secrets, wanted, updates>>
    PROVE  Handover!HandoverNext
<1>1. /\ vault'[pc].name = NameFor(pc)
      /\ \A f \in Entry \ {pc} : vault'[f] = vault[f]
  BY Zenon DEF WriteVaultSecret, TypeOK, StoreType
<1>2. KeptNames' \in [Entry -> Nat]
  BY OwnerFacts, Zenon DEF TypeOK, StoreType, KeptNames
<1>3. /\ \A f \in Entry \ {pc} : KeptNames'[f] = KeptNames[f]
      /\ KeptNames'[pc] = NameFor(pc)
  BY <1>1, Zenon DEF KeptNames
<1>4. GivenNames[pc] = 0 /\ wanted[pc] # 0 => KeptNames'[pc] = wanted[pc]
  BY <1>3, WrittenName, Zenon DEF GivenNames
<1>5. UNCHANGED GivenNames
  BY DEF GivenNames
<1>6. Handover!Keep(pc)
  BY <1>2, <1>3, <1>4, <1>5, HandoverEntries, Zenon DEF Handover!Keep
<1> QED
  BY <1>6, HandoverEntries, Zenon DEF Handover!HandoverNext

\* Emptying a secret is a Drop.
LEMMA CleanDrops ==
    ASSUME TypeOK, NamesAccounted, pc = "clean", cur \in Service, Fresh(cur),
           secrets' = [secrets EXCEPT ![cur] = Cleaned(mem[cur])],
           UNCHANGED <<vault, wanted, updates>>
    PROVE  Handover!HandoverNext
<1>1. /\ \A e \in Entry : Cleaned(mem[cur]).names[e] = 0
      /\ secrets'[cur] = Cleaned(mem[cur])
      /\ \A s \in Service \ {cur} : secrets'[s] = secrets[s]
  BY CleanedFacts DEF TypeOK, StoreType, CallType, NoNames
<1>2. GivenNames' = [e \in Entry |-> IF e \in EntriesOf[cur] THEN 0 ELSE GivenNames[e]]
  <2>1. \A e \in Entry : secrets'[Owner[e]].names[e]
                         = IF e \in EntriesOf[cur] THEN 0 ELSE GivenNames[e]
    BY <1>1, OwnerFacts DEF GivenNames
  <2> QED
    BY <2>1, Zenon DEF GivenNames
<1>3. \A e \in EntriesOf[cur] : wanted[e] # 0 => KeptNames[e] = wanted[e]
  BY EmptiedSafe, OwnerFacts DEF KeptNames
<1>4. UNCHANGED KeptNames
  BY DEF KeptNames
<1>5. Handover!Drop(cur)
  BY <1>2, <1>3, <1>4, HandoverEntries, Zenon DEF Handover!Drop
<1> QED
  BY <1>5, Zenon DEF Handover!HandoverNext

\* What users do to a secret is a Supply.
LEMMA UserSupplies ==
    ASSUME TypeOK, TypeOK', NamesAccounted, NEW s \in Service,
           UpdateSecret(s) \/ RemoveSecret(s)
    PROVE  Handover!HandoverNext
<1>1. updates' = updates + 1 /\ UNCHANGED vault
  BY Zenon DEF UpdateSecret, RemoveSecret, vaultVars
<1>2. GivenNames' \in [Entry -> Nat] /\ wanted' \in [Entry -> Nat]
  <2>1. \A e \in Entry : secrets'[Owner[e]].names[e] \in Nat
    BY OwnerFacts DEF TypeOK, StoreType, SecretObject
  <2> QED
    BY <2>1, Zenon DEF GivenNames, TypeOK, HistoryType
<1>3. ASSUME NEW e \in Entry
      PROVE  \/ e \in EntriesOf[s] /\ wanted'[e] \in {0, GivenNames'[e]}
             \/ wanted'[e] = wanted[e] /\ GivenNames'[e] = GivenNames[e]
  <2>1. /\ GivenNames'[e] = secrets'[Owner[e]].names[e]
        /\ GivenNames[e] = secrets[Owner[e]].names[e]
    BY Zenon DEF GivenNames
  <2>2. e \notin EntriesOf[s] => secrets[s].names[e] = 0 /\ Owner[e] # s
    BY OwnerFacts, Zenon DEF NamesAccounted, CopyInv
  <2>3. CASE UpdateSecret(s)
    <3>1. PICK given \in Supplies, request \in BOOLEAN :
            /\ secrets' = [secrets EXCEPT ![s] =
                  [rv |-> secrets[s].rv + 1, names |-> UpdatedNames(s, given),
                   refresh |-> request, owned |-> secrets[s].owned,
                   filled |-> secrets[s].filled \/ given \cap EntriesOf[s] # {}]]
            /\ wanted' = [f \in Entry |->
                             IF f \notin EntriesOf[s] \/ UpdatedNames(s, given)[f] = 0
                             THEN wanted[f]
                             ELSE IF request THEN UpdatedNames(s, given)[f] ELSE 0]
      BY <2>3, Zenon DEF UpdateSecret, UpdatedNames
    <3>2. /\ secrets'[s].names = UpdatedNames(s, given)
          /\ \A u \in Service \ {s} : secrets'[u] = secrets[u]
      BY <3>1, Zenon DEF TypeOK, StoreType
    <3>3. UpdatedNames(s, given)[e] = 0 => secrets[s].names[e] = 0
      BY DEF UpdatedNames, TypeOK, HistoryType
    <3>4. wanted'[e] = IF e \notin EntriesOf[s] \/ UpdatedNames(s, given)[e] = 0
                       THEN wanted[e]
                       ELSE IF request THEN UpdatedNames(s, given)[e] ELSE 0
      BY <3>1, Zenon
    <3> QED
      BY <2>1, <2>2, <3>2, <3>3, <3>4, OwnerFacts
  <2>4. CASE RemoveSecret(s)
    <3>1. /\ secrets'[s].names = NoNames
          /\ \A u \in Service \ {s} : secrets'[u] = secrets[u]
      BY <2>4, RemovedFacts, Zenon DEF RemoveSecret, TypeOK, StoreType
    <3>2. wanted'[e] = IF secrets[s].names[e] = 0 THEN wanted[e] ELSE 0
      BY <2>4 DEF RemoveSecret
    <3> QED
      BY <2>1, <2>2, <3>1, <3>2, OwnerFacts DEF NoNames
  <2> QED
    BY <2>3, <2>4, Zenon
<1>4. UNCHANGED KeptNames
  BY <1>1, Zenon DEF KeptNames
<1>5. Handover!Supply(s)
  BY <1>1, <1>2, <1>3, <1>4, HandoverEntries, Zenon DEF Handover!Supply
<1> QED
  BY <1>5, Zenon DEF Handover!HandoverNext

\* watchSecret gives a secret an owner and leaves its names alone.
LEMMA WatchStutters ==
    ASSUME TypeOK, watchSecret
    PROVE  UNCHANGED Handover!handoverVars
<1>1. UNCHANGED <<wanted, updates, vault>>
  BY Zenon DEF watchSecret, vaultVars, userVars
<1>2. Target \in Service
  BY ServicesAssumption, Zenon DEF watchSecret, Target, TypeOK, CallType, Service
<1>3. \A s \in Service : secrets'[s].names = secrets[s].names
  <2>1. \/ secrets' = [secrets EXCEPT ![Target] = WithOwner(secrets[Target])]
        \/ secrets' = secrets
    BY DEF watchSecret
  <2>2. WithOwner(secrets[Target]).names = secrets[Target].names
    BY <1>2, WithOwnerFacts, Zenon DEF TypeOK, StoreType
  <2> QED
    BY <1>2, <2>1, <2>2, Zenon DEF TypeOK, StoreType
<1> QED
  BY <1>1, <1>3, HandoverStutters, Zenon

LEMMA StepHandsOver ==
    ASSUME TypeOK, TypeOK', NamesAccounted, [Next]_vars
    PROVE  [Handover!HandoverNext]_(Handover!handoverVars)
<1>1. CASE UNCHANGED <<secrets, vault, wanted, updates>>
  BY <1>1, HandoverStutters
<1>2. CASE watchSecret
  BY <1>2, WatchStutters, Zenon
<1>3. CASE \/ Begin \/ watchSecretConflict \/ Gate \/ WritePoliciesAndRoles
           \/ NewPasswordGenerator \/ Deploy \/ UpdateServiceStatus \/ Annotate \/ Finish
           \/ CallFails \/ Restart \/ DeliverStatus \/ DeliverSecrets
  BY <1>1, <1>3, Zenon
  DEF Begin, watchSecretConflict, Gate, WritePoliciesAndRoles, NewPasswordGenerator, Deploy,
      UpdateServiceStatus, Annotate, Finish, CallFails, Restart, DeliverStatus,
      DeliverSecrets, DeliverSecret, vaultVars, userVars
<1>4. ASSUME NEW e \in Entry, NEW next, ProcessEntry(e, next)
      PROVE  [Handover!HandoverNext]_(Handover!handoverVars)
  <2>1. UNCHANGED <<secrets, wanted, updates>> /\ pc = e
    BY <1>4 DEF ProcessEntry, userVars
  <2>2. CASE UNCHANGED vault
    BY <1>1, <2>1, <2>2, Zenon
  <2>3. CASE WriteVaultSecret(e)
    BY <2>1, <2>3, WriteKeeps, Zenon
  <2> QED
    BY <1>4, <2>2, <2>3, Zenon DEF ProcessEntry
<1>5. CASE \/ processAdminCredentials \/ processClientCredentials
           \/ processAdditionalUsersCredentials \/ processCredentials
  BY <1>4, <1>5, Zenon
  DEF processAdminCredentials, processClientCredentials, processCredentials,
      processAdditionalUsersCredentials, Entry, ZooKeeperEntries
<1>6. CASE processCredentialsPanic \/ WriteVaultSecretUnanswered
  <2>1. pc \in Entry /\ WriteVaultSecret(pc) /\ UNCHANGED <<secrets, wanted, updates>>
    BY <1>6, Zenon DEF processCredentialsPanic, WriteVaultSecretUnanswered, userVars, Entry
  <2> QED
    BY <2>1, WriteKeeps, Zenon
<1>7. CASE cleanSecretData \/ cleanSecretDataFails
  <2>1. /\ cur \in Service /\ pc = "clean" /\ UNCHANGED <<vault, wanted, updates>>
    BY <1>7, ServicesAssumption, Zenon
    DEF cleanSecretData, cleanSecretDataFails, vaultVars, userVars, TypeOK, CallType
  <2>2. CASE UNCHANGED secrets
    BY <1>1, <2>1, <2>2, Zenon
  <2>3. CASE Fresh(cur) /\ secrets' = [secrets EXCEPT ![cur] = Cleaned(mem[cur])]
    BY <2>1, <2>3, CleanDrops, Zenon
  <2> QED
    BY <1>7, <2>2, <2>3, Zenon
    DEF cleanSecretData, cleanSecretDataFails, needToCleanSecret, Fresh
<1>8. CASE \E s \in EditableSecrets : UpdateSecret(s) \/ RemoveSecret(s)
  BY <1>8, UserSupplies, EditsAssumption, Zenon
<1>9. CASE UNCHANGED vars
  BY <1>1, <1>9 DEF vars, vaultVars, userVars
<1> QED
  BY <1>2, <1>3, <1>5, <1>6, <1>7, <1>8, <1>9, Zenon DEF Next, OperatorStep

\* The reconcilers, with their lagging caches, lost answers, conflicts, panics and
\* restarts, take no step that CredentialHandover does not allow.
THEOREM HandoverImplemented == Spec => HandoverKept
<1>1. Init => Handover!HandoverInit
  <2> SUFFICES ASSUME Init PROVE Handover!HandoverInit
    OBVIOUS
  <2>1. TypeOK
    BY InitType, Zenon
  <2>2. \A e \in Entry : wanted[e] \in {0, GivenNames[e]}
    <3> SUFFICES ASSUME NEW e \in Entry, wanted[e] # 0
                 PROVE  secrets[Owner[e]].names[e] = wanted[e]
      BY <2>1, GivenFacts, Zenon
    <3>1. wanted[e] = 1 /\ \E s \in Services : e \in EntriesOf[s]
      BY Zenon DEF Init
    <3>2. Owner[e] \in Services /\ e \in EntriesOf[Owner[e]] /\ Owner[e] \in Service
      BY <3>1, OwnerFacts, ServicesAssumption, Zenon
    <3> QED
      BY <3>1, <3>2, Zenon DEF Init, NewSecret
  <2>3. wanted \in [Entry -> Nat] /\ updates = 0
    BY <2>1 DEF TypeOK, HistoryType, Init
  <2> QED
    BY <2>1, <2>2, <2>3, GivenFacts, HandoverEntries, Zenon DEF Handover!HandoverInit
<1>2. TypeOK /\ TypeOK' /\ NamesAccounted /\ [Next]_vars
      => [Handover!HandoverNext]_(Handover!handoverVars)
  BY StepHandsOver
<1>3. Spec => []TypeOK /\ []NamesAccounted
  BY TypeCorrect, NamesAlwaysAccounted
<1> QED
  BY <1>1, <1>2, <1>3, PTL DEF Spec, HandoverKept, Handover!HandoverSpec

\* No name that a user asked for is lost between the secret and Vault.
COROLLARY NoNameLost == Spec => []Handover!NothingLost
BY HandoverImplemented, Handover!NamesSurvive, PTL DEF HandoverKept

-----------------------------------------------------------------------------
(* The status reports the versions that Vault has.                         *)

Noted(e, v) == v = vault[e].version \/ (Preloaded /\ v = 0)

\* The steps between the first entry of a service and its status update.
InPass == pc \in {"policies", "generator", "clean", "deploy", "status"} \cup Entry

\* The inductive invariant: what the status lacks is in the instance of the running
\* call, and only an instance that is up to date is ever written.
ReportInv ==
    ~lost => /\ \A e \in Entry : \/ Noted(e, reported[e])
                                 \/ InPass /\ versions[e] = vault[e].version
             /\ upToDate => \A e \in Entry : Noted(e, versions[e])
             /\ ~statusLag => cachedReported = reported

\* A step that neither writes an entry or a status nor ends a pass.
LEMMA SameReport ==
    ASSUME ReportInv, UNCHANGED <<vault, reported, versions, lost, upToDate,
                                  cachedReported, statusLag>>,
           InPass => InPass'
    PROVE  ReportInv'
BY Zenon DEF ReportInv, Noted

\* A call ends: its status update has what it noted, or nothing is missing, or a
\* version is lost.
LEMMA ReturnReport ==
    ASSUME ReportInv, Returned, UNCHANGED <<vault, cachedReported>>,
           \/ StatusUpdate /\ UNCHANGED lost
           \/ /\ \/ lost' = (lost \/ Unreported)
                 \/ ~InPass /\ UNCHANGED lost
              /\ UNCHANGED <<reported, statusLag>>
    PROVE  ReportInv'
<1> SUFFICES ASSUME ~lost'
             PROVE  /\ \A e \in Entry : Noted(e, reported[e])'
                    /\ ~statusLag' => cachedReported' = reported'
  BY Zenon DEF ReportInv, Returned
<1>1. ~lost
  BY Zenon
<1>2. CASE StatusUpdate
  BY <1>1, <1>2, Zenon DEF ReportInv, StatusUpdate, Noted
<1>3. CASE /\ ~Unreported \/ ~InPass
           /\ UNCHANGED <<reported, statusLag>>
  BY <1>1, <1>3, Zenon DEF ReportInv, Unreported, Noted
<1> QED
  BY <1>2, <1>3, Zenon

LEMMA FailReport ==
    ASSUME ReportInv, NEW o \in BOOLEAN, Fail(o), UNCHANGED vault
    PROVE  ReportInv'
BY ReturnReport, Zenon DEF Fail, writeFailedStatus

LEMMA BeginReport ==
    ASSUME ReportInv, Begin
    PROVE  ReportInv'
<1>1. /\ UNCHANGED <<vault, reported, lost, cachedReported>>
      /\ versions' = cachedReported
      /\ upToDate' => ~statusLag
      /\ ~statusLag' => ~statusLag
      /\ ~InPass
  BY Zenon DEF Begin, vaultVars, InPass, Entry, ZooKeeperEntries
<1> QED
  BY <1>1, Zenon DEF ReportInv, Noted

LEMMA EntryReport ==
    ASSUME TypeOK, ReportInv, NEW e \in Entry, NEW next, Follows(e, next),
           ProcessEntry(e, next)
    PROVE  ReportInv'
<1>1. InPass /\ (pc' = next => InPass')
  BY Zenon DEF InPass, ProcessEntry, Follows, Entry, ZooKeeperEntries
<1>2. CASE /\ pc' = next
           /\ UNCHANGED <<vault, reported, cacheVars, instVars, lost>>
  BY <1>1, <1>2, SameReport, Zenon DEF cacheVars, instVars
<1>3. CASE Fail(FALSE) /\ UNCHANGED vault
  BY <1>3, FailReport, Zenon
<1>4. CASE /\ WriteVaultSecret(e)
           /\ versions' = [versions EXCEPT ![e] = vault'[e].version]
           /\ pc' = next
           /\ UNCHANGED <<reported, cacheVars, upToDate, lost>>
  <2>1. /\ versions'[e] = vault'[e].version
        /\ \A f \in Entry \ {e} : versions'[f] = versions[f] /\ vault'[f] = vault[f]
    BY <1>4, Zenon DEF WriteVaultSecret, TypeOK, CallType, StoreType
  <2>2. UNCHANGED <<reported, cachedReported, statusLag, upToDate, lost>>
    BY <1>4, Zenon DEF cacheVars
  <2>3. InPass'
    BY <1>1, <1>4, Zenon
  <2>4. ASSUME ~lost, NEW f \in Entry
        PROVE  /\ Noted(f, reported[f])' \/ versions'[f] = vault'[f].version
               /\ upToDate => Noted(f, versions[f])'
    <3>1. CASE f = e
      BY <2>1, <3>1, Zenon DEF Noted
    <3>2. CASE f # e
      BY <2>1, <2>2, <2>4, <3>2, Zenon DEF ReportInv, Noted
    <3> QED
      BY <3>1, <3>2, Zenon
  <2> QED
    BY <2>2, <2>3, <2>4, Zenon DEF ReportInv
<1> QED
  BY <1>2, <1>3, <1>4, Zenon DEF ProcessEntry

LEMMA ServiceStatusReport ==
    ASSUME ReportInv, UpdateServiceStatus
    PROVE  ReportInv'
<1>1. UNCHANGED vault
  BY Zenon DEF UpdateServiceStatus, vaultVars
<1>2. CASE /\ StatusUpdate
           /\ UNCHANGED <<cachedReported, instVars, lost>>
  BY <1>1, <1>2, Zenon DEF StatusUpdate, instVars, ReportInv, Noted
<1> QED
  BY <1>1, <1>2, FailReport, Zenon DEF UpdateServiceStatus

LEMMA InitReport == Init => ReportInv
<1> SUFFICES ASSUME Init PROVE ReportInv
  BY Zenon
<1>1. \A e \in Entry : Noted(e, reported[e])
  BY Zenon DEF Init, Noted, NoVersions
<1> QED
  BY <1>1, Zenon DEF Init, ReportInv

LEMMA StepReport ==
    ASSUME TypeOK, ReportInv, [Next]_vars
    PROVE  ReportInv'
<1>1. CASE /\ UNCHANGED <<vault, reported, versions, lost, upToDate, cachedReported, statusLag>>
           /\ InPass => InPass'
  BY <1>1, SameReport, Zenon
<1>2. CASE OperatorStep
  <2>1. CASE Begin
    BY <2>1, BeginReport, Zenon
  <2>2. CASE watchSecret \/ Gate
    BY <1>1, <2>2, Zenon DEF watchSecret, Gate, vaultVars, cacheVars, instVars, InPass, Entry,
                             ZooKeeperEntries
  <2>3. CASE watchSecretConflict \/ cleanSecretDataFails
    BY <2>3, FailReport, Zenon DEF watchSecretConflict, cleanSecretDataFails, vaultVars
  <2>4. CASE WritePoliciesAndRoles
    <3>1. CASE \E outage \in BOOLEAN : Fail(outage)
      BY <2>4, <3>1, FailReport, Zenon DEF WritePoliciesAndRoles
    <3>2. CASE /\ pc' = IF EntriesOf[cur] = {} THEN "clean" ELSE "generator"
               /\ UNCHANGED <<reported, cacheVars, versions, upToDate, lost>>
      BY <1>1, <2>4, <3>2, Zenon DEF WritePoliciesAndRoles, cacheVars, InPass
    <3> QED
      BY <2>4, <3>1, <3>2, Zenon DEF WritePoliciesAndRoles
  <2>5. CASE NewPasswordGenerator
    BY <1>1, <2>5, Zenon DEF NewPasswordGenerator, cacheVars, instVars, InPass, Entry,
                             ZooKeeperEntries
  <2>6. CASE \/ processAdminCredentials \/ processClientCredentials
             \/ processAdditionalUsersCredentials \/ processCredentials
    BY <2>6, EntryReport, Zenon
    DEF processAdminCredentials, processClientCredentials, processCredentials,
        processAdditionalUsersCredentials, Entry, ZooKeeperEntries, Follows
  <2>7. CASE processCredentialsPanic
    BY <2>7, Zenon DEF processCredentialsPanic, ReportInv
  <2>8. CASE cleanSecretData \/ Deploy
    BY <1>1, <2>8, Zenon DEF cleanSecretData, Deploy, NextServer, vaultVars, cacheVars, instVars,
                             InPass
  <2>9. CASE UpdateServiceStatus
    BY <2>9, ServiceStatusReport, Zenon
  <2>10. CASE Annotate
    BY <1>1, <2>10, Zenon DEF Annotate, vaultVars, cacheVars, instVars, InPass, Entry,
                              ZooKeeperEntries
  <2>11. CASE Finish
    <3>1. ~InPass /\ UNCHANGED <<vault, cachedReported, lost>> /\ Returned
      BY <2>11, Zenon DEF Finish, vaultVars, InPass, Entry, ZooKeeperEntries
    <3> QED
      BY <2>11, <3>1, ReturnReport, Zenon DEF Finish
  <2> QED
    BY <1>2, <2>1, <2>2, <2>3, <2>4, <2>5, <2>6, <2>7, <2>8, <2>9, <2>10, <2>11, Zenon
    DEF OperatorStep
<1>3. CASE CallFails
  <2>1. UNCHANGED vault
    BY <1>3, Zenon DEF CallFails, vaultVars
  <2>2. CASE \E outage \in BOOLEAN : Fail(outage)
    BY <2>1, <2>2, FailReport, Zenon
  <2>3. CASE /\ pc = "finish" /\ Returned
             /\ UNCHANGED <<reported, cachedReported, statusLag, lost>>
    BY <2>1, <2>3, ReturnReport, Zenon DEF InPass, Entry, ZooKeeperEntries
  <2> QED
    BY <1>3, <2>2, <2>3, Zenon DEF CallFails
<1>4. CASE WriteVaultSecretUnanswered
  BY <1>4, Zenon DEF WriteVaultSecretUnanswered, ReportInv
<1>5. CASE Restart
  <2>1. /\ UNCHANGED <<vault, reported>> /\ cachedReported' = reported /\ ~upToDate'
        /\ ~lost' => ~lost /\ ~Unreported
    BY <1>5, Zenon DEF Restart, Returned, vaultVars
  <2> QED
    BY <2>1, Zenon DEF ReportInv, Unreported, Noted
<1>6. CASE DeliverStatus
  <2>1. /\ UNCHANGED <<vault, reported, versions, lost, upToDate, pc>>
        /\ cachedReported' = reported
    BY <1>6, Zenon DEF DeliverStatus, vaultVars, callVars, instVars
  <2> QED
    BY <2>1, Zenon DEF ReportInv, Noted, InPass
<1>7. CASE DeliverSecrets \/ \E s \in EditableSecrets : UpdateSecret(s) \/ RemoveSecret(s)
  BY <1>1, <1>7, Zenon DEF DeliverSecrets, DeliverSecret, UpdateSecret, RemoveSecret, vaultVars,
                           cacheVars, callVars, instVars, InPass
<1>8. CASE UNCHANGED vars
  BY <1>1, <1>8, Zenon DEF vars, vaultVars, cacheVars, callVars, instVars, InPass
<1> QED
  BY <1>2, <1>3, <1>4, <1>5, <1>6, <1>7, <1>8, Zenon DEF Next

\* At rest the status has the versions in Vault, unless a status update that carried
\* one failed: a cycle that read a lagging status cannot overwrite newer versions.
THEOREM VersionsReported == Spec => []ReportedAtRest
<1>1. Init => ReportInv
  BY InitReport
<1>2. TypeOK /\ ReportInv /\ [Next]_vars => ReportInv'
  BY StepReport, Zenon
<1>3. ReportInv => ReportedAtRest
  BY Zenon DEF ReportInv, ReportedAtRest, AtRest, InPass, Entry, ZooKeeperEntries, Noted
<1> QED
  BY <1>1, <1>2, <1>3, TypeCorrect, PTL DEF Spec

-----------------------------------------------------------------------------
(* Passwords are generated once per request.                               *)

Count(b) == IF b THEN 1 ELSE 0
Total(a, b, c) == Count(a) + Count(b) + Count(c)

\* The running call will rewrite e: its copy has a request and e is still to come.
CopyDue(e) == cur = Owner[e] /\ mem[cur].refresh /\ ~Passed(e)

\* A later call will: the secret has a request that is not the copy's.
SecretDue(e) == secrets[Owner[e]].refresh /\ ~(cur = Owner[e] /\ Fresh(cur))

\* The password policy could not be written, so the call may fail at a later entry
\* without another fault.
PolicyDue(e) == /\ cur = Owner[e] /\ pc \in Entry
                /\ VaultGenerates /\ "passwordPolicy" \notin granted

Due(e) == Total(CopyDue(e), SecretDue(e), PolicyDue(e))

Covered(version, due, requests, failures) ==
    /\ version + due <= 1 + requests + failures
    /\ due <= requests + failures

\* The inductive invariant: requests and faults pay for the versions that exist and
\* for those that are still due.
RotationInv ==
    ~panicked => \A e \in Entry :
       Covered(vault[e].version, Due(e), asked[Owner[e]], faults)

LEMMA TotalFacts ==
    ASSUME NEW a, NEW b, NEW c
    PROVE  /\ Total(a, b, c) = Count(a) + Count(b) + Count(c)
           /\ Count(a) \in {0, 1} /\ Count(b) \in {0, 1} /\ Count(c) \in {0, 1}
           /\ a => Count(a) = 1
           /\ ~a => Count(a) = 0
           /\ b => Count(b) = 1
           /\ ~b => Count(b) = 0
           /\ c => Count(c) = 1
           /\ ~c => Count(c) = 0
BY Zenon DEF Count, Total

\* A step that writes no version may let what is due fall or move from the secret to
\* the copy and back; a fault or a request adds one.
LEMMA StillCovered ==
    ASSUME NEW v, NEW r, NEW f, NEW p, NEW g, NEW a, NEW b, NEW c, NEW x, NEW y, NEW z,
           Covered(v, Total(a, b, c), r, f),
           v \in Nat /\ r \in Nat /\ f \in Nat /\ p \in Nat /\ g \in Nat, r <= p, f <= g,
           \/ (x => a) /\ (y => b) /\ (z => c)
           \/ ~x /\ ~z /\ (y => a \/ b \/ c)
           \/ (x => b) /\ ~y /\ ~z
           \/ p + g = r + f + 1 /\ (x => a) /\ (y => b)
           \/ p + g = r + f + 1 /\ (x => a) /\ (z => c)
    PROVE  Covered(v, Total(x, y, z), p, g)
<1> DEFINE old == Total(a, b, c)
           new == Total(x, y, z)
<1>1. old \in Nat /\ new \in Nat
  BY TotalFacts
<1>2. new <= old \/ (p + g = r + f + 1 /\ new <= old + 1)
  BY TotalFacts
<1> HIDE DEF old, new
<1> QED
  BY <1>1, <1>2 DEF Covered, old, new

\* WriteVaultSecret has a reason: the copy's request, or that the entry is missing.
Writable(a, v) == a \/ v = 0

\* A version is written: the copy's request is served, or the entry was missing.
LEMMA WriteCovered ==
    ASSUME NEW v, NEW w, NEW r, NEW f, NEW a, NEW b, NEW c, NEW x, NEW y, NEW z,
           Covered(v, Total(a, b, c), r, f),
           v \in Nat /\ w \in Nat /\ r \in Nat /\ f \in Nat, w <= v + 1, Writable(a, v),
           ~x /\ (y => b) /\ (z => c)
    PROVE  Covered(w, Total(x, y, z), r, f)
<1> DEFINE old == Total(a, b, c)
           new == Total(x, y, z)
<1>1. old \in Nat /\ new \in Nat
  BY TotalFacts
<1>2. \/ new + 1 <= old
      \/ new <= old /\ v = 0
  BY TotalFacts DEF Writable
<1> HIDE DEF old, new
<1> QED
  BY <1>1, <1>2 DEF Covered, old, new

\* The answer is lost, and the request goes back to the secret: the fault pays.
LEMMA LostCovered ==
    ASSUME NEW v, NEW w, NEW r, NEW f, NEW a, NEW b, NEW c, NEW x, NEW y, NEW z,
           Covered(v, Total(a, b, c), r, f),
           v \in Nat /\ w \in Nat /\ r \in Nat /\ f \in Nat, w <= v + 1,
           ~x /\ (y => a \/ b) /\ ~z
    PROVE  Covered(w, Total(x, y, z), r, f + 1)
<1> DEFINE old == Total(a, b, c)
           new == Total(x, y, z)
<1>1. old \in Nat /\ new \in Nat
  BY TotalFacts
<1>2. new <= old
  BY TotalFacts
<1> HIDE DEF old, new
<1> QED
  BY <1>1, <1>2 DEF Covered, old, new

LEMMA OwnerService == \A e \in Entry : Owner[e] \in Service
BY OwnerFacts

\* How what is due for entry e may change in a step that is neither request nor fault.
Moves(e) ==
    \/ /\ CopyDue(e)' => CopyDue(e)
       /\ SecretDue(e)' => SecretDue(e)
       /\ PolicyDue(e)' => PolicyDue(e)
    \/ /\ ~CopyDue(e)' /\ ~PolicyDue(e)'
       /\ SecretDue(e)' => CopyDue(e) \/ SecretDue(e) \/ PolicyDue(e)
    \/ /\ CopyDue(e)' => SecretDue(e)
       /\ ~SecretDue(e)' /\ ~PolicyDue(e)'

LEMMA MovesRotation ==
    ASSUME TypeOK, RotationInv, UNCHANGED <<vault, asked, faults, panicked>>,
           \A e \in Entry : Moves(e)
    PROVE  RotationInv'
<1> SUFFICES ASSUME ~panicked, NEW e \in Entry
             PROVE  Covered(vault[e].version,
                            Total(CopyDue(e)', SecretDue(e)', PolicyDue(e)'),
                            asked[Owner[e]], faults)
  BY Zenon DEF RotationInv, Due
<1>1. Covered(vault[e].version, Total(CopyDue(e), SecretDue(e), PolicyDue(e)),
              asked[Owner[e]], faults)
  BY Zenon DEF RotationInv, Due
<1>2. /\ vault[e].version \in Nat /\ asked[Owner[e]] \in Nat /\ faults \in Nat
  BY OwnerFacts, Zenon DEF TypeOK, StoreType, HistoryType
<1>3. asked[Owner[e]] <= asked[Owner[e]] /\ faults <= faults
  BY <1>2
<1> QED
  BY <1>1, <1>2, <1>3, StillCovered, ZenonT(60) DEF Moves

\* A fault that ends the call, or that leaves the password policy unwritten.
LEMMA FaultRotation ==
    ASSUME TypeOK, RotationInv, UNCHANGED <<vault, asked, panicked>>, faults' = faults + 1,
           \A e \in Entry : /\ CopyDue(e)' => CopyDue(e)
                            /\ (SecretDue(e)' => SecretDue(e)) \/ ~PolicyDue(e)'
    PROVE  RotationInv'
<1> SUFFICES ASSUME ~panicked, NEW e \in Entry
             PROVE  Covered(vault[e].version,
                            Total(CopyDue(e)', SecretDue(e)', PolicyDue(e)'),
                            asked[Owner[e]], faults')
  BY Zenon DEF RotationInv, Due
<1>1. Covered(vault[e].version, Total(CopyDue(e), SecretDue(e), PolicyDue(e)),
              asked[Owner[e]], faults)
  BY Zenon DEF RotationInv, Due
<1>2. /\ vault[e].version \in Nat /\ asked[Owner[e]] \in Nat /\ faults \in Nat
  BY OwnerFacts, Zenon DEF TypeOK, StoreType, HistoryType
<1>3. /\ asked[Owner[e]] <= asked[Owner[e]] /\ faults <= faults' /\ faults' \in Nat
      /\ asked[Owner[e]] + faults' = asked[Owner[e]] + faults + 1
  BY <1>2
<1> QED
  BY <1>1, <1>2, <1>3, StillCovered, Zenon

\* No copy is left when a call, or the work on a service, is over.
LEMMA NothingCopied ==
    ASSUME mem' = [s \in Service |-> NoSecret], pc' \in {"idle", "finish", "watch"}
    PROVE  \A e \in Entry : ~CopyDue(e)' /\ ~PolicyDue(e)'
<1>1. \A e \in Entry : cur' = Owner[e] => ~mem'[cur'].refresh
  BY OwnerService, NoSecretFacts, Zenon
<1> QED
  BY <1>1, Zenon DEF CopyDue, PolicyDue, Entry, ZooKeeperEntries

\* It is over without a fault: where a fresh copy's request was half served, the lack
\* of the password policy was a fault.
LEMMA OverRotation ==
    ASSUME TypeOK, NamesAccounted, RotationInv,
           UNCHANGED <<vault, secrets, asked, faults, panicked>>,
           mem' = [s \in Service |-> NoSecret], pc' \in {"idle", "finish", "watch"},
           \A e \in Entry : cur = Owner[e] /\ Fresh(cur) /\ Passed(e) => PolicyDue(e)
    PROVE  RotationInv'
<1> SUFFICES ASSUME NEW e \in Entry PROVE Moves(e)
  BY MovesRotation, Zenon
<1>1. ~CopyDue(e)' /\ ~PolicyDue(e)'
  BY NothingCopied, Zenon
<1>2. SecretDue(e)' => CopyDue(e) \/ SecretDue(e) \/ PolicyDue(e)
  <2>1. cur = Owner[e] /\ Fresh(cur) => mem[cur] = secrets[cur]
    BY OwnerService, Zenon DEF NamesAccounted, CopyInv
  <2>2. SecretDue(e)' => secrets[Owner[e]].refresh
    BY Zenon DEF SecretDue
  <2> QED
    BY <2>1, <2>2, Zenon DEF SecretDue, CopyDue
<1> QED
  BY <1>1, <1>2, Zenon DEF Moves

\* A step within a call that leaves the secrets and the copies alone.
LEMMA WithinRotation ==
    ASSUME TypeOK, RotationInv, UNCHANGED <<vault, secrets, asked, faults, panicked, mem, cur>>,
           granted \subseteq granted',
           pc' \notin Entry \/ pc' = pc,
           \A e \in Entry : cur = Owner[e] /\ Passed(e) => Passed(e)'
    PROVE  RotationInv'
<1> SUFFICES ASSUME NEW e \in Entry PROVE Moves(e)
  BY MovesRotation, Zenon
<1>1. SecretDue(e)' => SecretDue(e)
  BY Zenon DEF SecretDue, Fresh
<1>2. CopyDue(e)' => CopyDue(e)
  BY Zenon DEF CopyDue
<1>3. PolicyDue(e)' => PolicyDue(e)
  BY Zenon DEF PolicyDue
<1> QED
  BY <1>1, <1>2, <1>3, Zenon DEF Moves

LEMMA WatchRotation ==
    ASSUME TypeOK, NamesAccounted, MemInv, RotationInv, watchSecret
    PROVE  RotationInv'
<1> DEFINE t == Target
           own == WithOwner(secrets[t])
<1>1. /\ UNCHANGED <<vault, asked, faults, panicked, cur>> /\ pc' \in {"watchShared", "gate"}
      /\ t \in Service /\ (pc = "watch" => t = cur) /\ (pc # "watch" => pc = "watchShared")
  BY ServicesAssumption, Zenon
  DEF watchSecret, Target, TypeOK, CallType, Service, vaultVars, userVars
<1>2. \A e \in Entry : ~PolicyDue(e)' /\ ~Passed(e)' /\ ~Passed(e)
  BY <1>1, Zenon DEF PolicyDue, Passed, Entry, ZooKeeperEntries
<1> SUFFICES ASSUME NEW e \in Entry PROVE Moves(e)
  BY <1>1, MovesRotation, Zenon
<1>3. CASE UNCHANGED <<secrets, mem>>
  BY <1>1, <1>2, <1>3, Zenon DEF Moves, CopyDue, SecretDue, Fresh
<1>4. CASE /\ secrets[t].rv # 0
           /\ secrets' = [secrets EXCEPT ![t] = own]
           /\ mem' = [mem EXCEPT ![t] = own]
  <2> HIDE DEF t
  <2>1. own.rv # 0 /\ own.refresh = secrets[t].refresh
    BY <1>1, <1>4, WithOwnerFacts DEF TypeOK, StoreType, SecretObject
  <2> HIDE DEF own
  <2>2. /\ secrets'[t] = own /\ mem'[t] = own
        /\ \A s \in Service \ {t} : secrets'[s] = secrets[s] /\ mem'[s] = mem[s]
    BY <1>1, <1>4, Zenon DEF TypeOK, StoreType, CallType
  <2>3. CASE cur = Owner[e] /\ t = cur
    <3>1. ~SecretDue(e)'
      BY <1>1, <2>1, <2>2, <2>3, Zenon DEF SecretDue, Fresh
    <3>2. CopyDue(e)' => secrets[cur].refresh
      BY <1>1, <2>1, <2>2, <2>3, Zenon DEF CopyDue
    <3>3. CASE pc = "watch"
      <4>1. mem[cur].rv = 0
        BY <1>1, <2>3, <3>3, NoSecretFacts, Zenon DEF MemInv
      <4>2. CopyDue(e)' => SecretDue(e)
        BY <2>3, <3>2, <4>1, Zenon DEF SecretDue, Fresh
      <4> QED
        BY <1>2, <3>1, <4>2, Zenon DEF Moves
    <3>4. CASE pc = "watchShared"
      <4>1. CopyDue(e)' => CopyDue(e) \/ SecretDue(e)
        <5>1. Fresh(cur) => mem[cur] = secrets[cur]
          BY <1>1, <2>3, Zenon DEF NamesAccounted, CopyInv
        <5> QED
          BY <1>2, <2>3, <3>2, <5>1, Zenon DEF CopyDue, SecretDue
      <4> QED
        BY <1>2, <3>1, <4>1, Zenon DEF Moves
    <3> QED
      BY <1>1, <3>3, <3>4, Zenon
  <2>4. CASE ~(cur = Owner[e] /\ t = cur)
    <3>1. CopyDue(e)' => CopyDue(e)
      BY <1>1, <1>2, <2>2, <2>4, OwnerService, Zenon DEF CopyDue
    <3>2. SecretDue(e)' => SecretDue(e)
      BY <1>1, <2>1, <2>2, <2>4, OwnerService, Zenon DEF SecretDue, Fresh
    <3> QED
      BY <1>2, <3>1, <3>2, Zenon DEF Moves
  <2> QED
    BY <2>3, <2>4, Zenon
<1> QED
  BY <1>3, <1>4, Zenon DEF watchSecret

LEMMA FailRotation ==
    ASSUME TypeOK, NamesAccounted, RotationInv, NEW o \in BOOLEAN, Fail(o),
           UNCHANGED <<vault, asked, panicked>>,
           \/ faults' = faults + 1
           \/ /\ UNCHANGED <<secrets, faults>>
              /\ \A e \in Entry : cur = Owner[e] /\ Fresh(cur) /\ Passed(e) => PolicyDue(e)
    PROVE  RotationInv'
<1>1. mem' = [s \in Service |-> NoSecret] /\ pc' = "idle"
  BY Zenon DEF Fail, Returned
<1>2. \A e \in Entry : ~CopyDue(e)' /\ ~PolicyDue(e)'
  BY <1>1, NothingCopied, Zenon
<1>3. CASE faults' = faults + 1
  BY <1>2, <1>3, FaultRotation, Zenon
<1>4. CASE /\ UNCHANGED <<secrets, faults>>
           /\ \A e \in Entry : cur = Owner[e] /\ Fresh(cur) /\ Passed(e) => PolicyDue(e)
  BY <1>1, <1>4, OverRotation, Zenon
<1> QED
  BY <1>3, <1>4, Zenon

LEMMA GeneratorRotation ==
    ASSUME TypeOK, RotationInv, NewPasswordGenerator
    PROVE  RotationInv'
<1>1. /\ UNCHANGED <<vault, secrets, asked, panicked, mem, cur>> /\ pc = "generator"
      /\ pc' \in Entry
  BY Zenon DEF NewPasswordGenerator, userVars, Entry, ZooKeeperEntries
<1>2. \A e \in Entry : /\ CopyDue(e)' => CopyDue(e)
                       /\ SecretDue(e)' => SecretDue(e)
  BY <1>1, Zenon DEF CopyDue, SecretDue, Fresh, Passed
<1>3. CASE /\ granted' = IF VaultGenerates THEN granted \cup {"passwordPolicy"} ELSE granted
           /\ UNCHANGED faults
  <2>1. \A e \in Entry : ~PolicyDue(e)'
    BY <1>3, Zenon DEF PolicyDue
  <2> QED
    BY <1>1, <1>2, <1>3, <2>1, MovesRotation, Zenon DEF Moves
<1>4. CASE faults' = faults + 1
  BY <1>1, <1>2, <1>4, FaultRotation, Zenon
<1> QED
  BY <1>3, <1>4, Zenon DEF NewPasswordGenerator

\* The version that a write leaves.
LEMMA WriteVersion ==
    ASSUME TypeOK, NEW e \in Entry, WriteVaultSecret(e)
    PROVE  /\ vault'[e].version \in Nat
           /\ vault'[e].version <= vault[e].version + 1
           /\ \A f \in Entry \ {e} : vault'[f] = vault[f]
<1>1. /\ \A f \in Entry \ {e} : vault'[f] = vault[f]
      /\ vault'[e].version = IF vault[e].version < MaxVersion
                             THEN vault[e].version + 1 ELSE vault[e].version
  BY Zenon DEF WriteVaultSecret, TypeOK, StoreType
<1>2. vault[e].version \in Nat
  BY Zenon DEF TypeOK, StoreType
<1> QED
  BY <1>1, <1>2

\* A write is paid for by the request it serves or by the entry's absence.
LEMMA WriteRotation ==
    ASSUME TypeOK, NamesAccounted, RotationInv, NEW e \in Entry, pc = e,
           vault[e].version = 0 \/ needToRefreshCredentials, WriteVaultSecret(e),
           UNCHANGED <<granted, secrets, asked, panicked>>,
           \/ /\ UNCHANGED <<faults, mem, cur>> /\ Passed(e)'
              /\ \A f \in Entry : cur = Owner[f] /\ Passed(f) => Passed(f)'
           \/ /\ mem' = [s \in Service |-> NoSecret] /\ pc' = "idle"
              /\ faults' = faults + 1
    PROVE  RotationInv'
<1>1. cur = Owner[e] /\ Owner[e] \in Service
  BY OwnerService, Zenon DEF NamesAccounted, CallInv
<1>2. Writable(CopyDue(e), vault[e].version)
  BY <1>1, Zenon DEF Writable, needToRefreshCredentials, CopyDue, Passed, Entry, ZooKeeperEntries
<1>3. /\ faults \in Nat
      /\ \A f \in Entry : vault[f].version \in Nat /\ asked[Owner[f]] \in Nat
  BY OwnerService, Zenon DEF TypeOK, StoreType, HistoryType
<1>4. /\ vault'[e].version \in Nat /\ vault'[e].version <= vault[e].version + 1
      /\ vault[e].version \in Nat /\ asked[Owner[e]] \in Nat /\ faults \in Nat
  BY <1>3, WriteVersion, Zenon
<1> SUFFICES ASSUME ~panicked, NEW f \in Entry
             PROVE  Covered(vault'[f].version,
                            Total(CopyDue(f)', SecretDue(f)', PolicyDue(f)'),
                            asked[Owner[f]], faults')
  BY Zenon DEF RotationInv, Due
<1>5. Covered(vault[f].version, Total(CopyDue(f), SecretDue(f), PolicyDue(f)),
              asked[Owner[f]], faults)
  BY Zenon DEF RotationInv, Due
<1>6. faults' \in Nat /\ faults <= faults' /\ asked[Owner[f]] <= asked[Owner[f]]
      /\ (faults' = faults + 1 => asked[Owner[f]] + faults' = asked[Owner[f]] + faults + 1)
  BY <1>3
<1>7. CASE f = e
  <2>1. Covered(vault[e].version, Total(CopyDue(e), SecretDue(e), PolicyDue(e)),
                asked[Owner[e]], faults)
    BY <1>5, <1>7, Zenon
  <2>2. CASE UNCHANGED <<faults, mem, cur>> /\ Passed(e)'
    <3>1. /\ ~CopyDue(e)'
          /\ SecretDue(e)' => SecretDue(e)
          /\ PolicyDue(e)' => PolicyDue(e)
      BY <2>2, Zenon DEF CopyDue, PolicyDue, SecretDue, Fresh
    <3>2. Covered(vault'[e].version, Total(CopyDue(e)', SecretDue(e)', PolicyDue(e)'),
                  asked[Owner[e]], faults)
      BY <1>2, <1>4, <2>1, <3>1, WriteCovered, Zenon
    <3> QED
      BY <1>7, <2>2, <3>2, Zenon
  <2>3. CASE /\ mem' = [s \in Service |-> NoSecret] /\ pc' = "idle"
             /\ faults' = faults + 1
    <3>1. ~CopyDue(e)' /\ ~PolicyDue(e)'
      BY <2>3, NothingCopied, Zenon
    <3>2. SecretDue(e)' => secrets[Owner[e]].refresh
      BY Zenon DEF SecretDue
    <3>3. Fresh(cur) => mem[cur] = secrets[cur]
      BY <1>1, Zenon DEF NamesAccounted, CopyInv
    <3>4. ~Passed(e)
      BY Zenon DEF Passed, Entry, ZooKeeperEntries
    <3>5. /\ ~CopyDue(e)'
          /\ SecretDue(e)' => CopyDue(e) \/ SecretDue(e)
          /\ ~PolicyDue(e)'
      BY <1>1, <2>3, <3>1, <3>2, <3>3, <3>4, Zenon DEF SecretDue, CopyDue
    <3>6. Covered(vault'[e].version, Total(CopyDue(e)', SecretDue(e)', PolicyDue(e)'),
                  asked[Owner[e]], faults + 1)
      BY <1>4, <2>1, <3>5, LostCovered, Zenon
    <3> QED
      BY <1>7, <2>3, <3>6, Zenon
  <2> QED
    BY <2>2, <2>3, Zenon
<1>8. CASE f # e
  <2>1. vault'[f].version = vault[f].version
    BY <1>8, WriteVersion, Zenon
  <2>2. CASE /\ UNCHANGED <<faults, mem, cur>>
             /\ cur = Owner[f] /\ Passed(f) => Passed(f)'
    <3>1. /\ CopyDue(f)' => CopyDue(f)
          /\ SecretDue(f)' => SecretDue(f)
          /\ PolicyDue(f)' => PolicyDue(f)
      BY <2>2, Zenon DEF CopyDue, SecretDue, PolicyDue, Fresh
    <3> QED
      BY <1>3, <1>5, <1>6, <2>1, <3>1, StillCovered, ZenonT(30)
  <2>3. CASE /\ mem' = [s \in Service |-> NoSecret] /\ pc' = "idle"
             /\ faults' = faults + 1
    <3>1. ~CopyDue(f)' /\ ~PolicyDue(f)'
      BY <2>3, NothingCopied, Zenon
    <3> QED
      BY <1>3, <1>5, <1>6, <2>1, <2>3, <3>1, StillCovered, Zenon
  <2> QED
    BY <2>2, <2>3, Zenon
<1> QED
  BY <1>7, <1>8, Zenon

LEMMA EntryRotation ==
    ASSUME TypeOK, NamesAccounted, RotationInv, NEW e \in Entry, NEW next, Follows(e, next),
           ProcessEntry(e, next)
    PROVE  RotationInv'
<1>1. /\ UNCHANGED <<granted, secrets, asked, faults>> /\ pc = e
      /\ cur = Owner[e]
  BY Zenon DEF ProcessEntry, userVars, NamesAccounted, CallInv
<1>2. ASSUME pc' = next, UNCHANGED cur
      PROVE  /\ Passed(e)'
             /\ \A f \in Entry : cur = Owner[f] /\ Passed(f) => Passed(f)'
  BY <1>1, <1>2 DEF Passed, Follows, Owner, Entry, ZooKeeperEntries
<1>3. CASE /\ vault[e].version # 0 /\ ~needToRefreshCredentials
           /\ pc' = next
           /\ UNCHANGED <<vault, cur, mem, panicked>>
  <2>1. \A f \in Entry : /\ ~CopyDue(f)'
                         /\ SecretDue(f)' => SecretDue(f)
                         /\ PolicyDue(f)' => PolicyDue(f)
    BY <1>1, <1>3, Zenon DEF needToRefreshCredentials, CopyDue, SecretDue, PolicyDue, Fresh
  <2> QED
    BY <1>1, <1>3, <2>1, MovesRotation, Zenon DEF Moves
<1>4. CASE /\ ~GeneratePasswordForPolicy(e)
           /\ Fail(FALSE)
           /\ UNCHANGED <<vault, panicked>>
  <2>1. \A f \in Entry : cur = Owner[f] => PolicyDue(f)
    BY <1>1, <1>4, Zenon DEF GeneratePasswordForPolicy, PolicyDue
  <2> QED
    BY <1>1, <1>4, <2>1, FailRotation, Zenon
<1>5. CASE /\ vault[e].version = 0 \/ needToRefreshCredentials
           /\ WriteVaultSecret(e)
           /\ pc' = next
           /\ UNCHANGED <<cur, mem, panicked>>
  BY <1>1, <1>2, <1>5, WriteRotation, Zenon
<1> QED
  BY <1>3, <1>4, <1>5, Zenon DEF ProcessEntry

LEMMA UnansweredRotation ==
    ASSUME TypeOK, NamesAccounted, RotationInv, WriteVaultSecretUnanswered
    PROVE  RotationInv'
<1>1. /\ pc \in Entry /\ WriteVaultSecret(pc) /\ faults' = faults + 1
      /\ vault[pc].version = 0 \/ needToRefreshCredentials
      /\ UNCHANGED <<granted, secrets, asked, panicked>>
      /\ mem' = [s \in Service |-> NoSecret] /\ pc' = "idle"
  BY Zenon DEF WriteVaultSecretUnanswered, Returned, userVars
<1> QED
  BY <1>1, WriteRotation, Zenon

\* Emptying the secret takes the request back that the pass has served.
LEMMA CleanRotation ==
    ASSUME TypeOK, NamesAccounted, MemInv, RotationInv, cleanSecretData
    PROVE  RotationInv'
<1>1. /\ cur \in Service /\ pc = "clean" /\ pc' = "deploy"
      /\ UNCHANGED <<vault, asked, faults, panicked, cur>>
  BY ServicesAssumption, Zenon
  DEF cleanSecretData, vaultVars, userVars, TypeOK, CallType
<1>2. ~mem'[cur].refresh /\ (secrets'[cur].refresh => secrets[cur].refresh)
      /\ (Fresh(cur) => ~secrets'[cur].refresh \/ Fresh(cur)')
      /\ (secrets'[cur].refresh => UNCHANGED <<secrets, mem>>)
      /\ \A s \in Service \ {cur} : secrets'[s] = secrets[s]
  <2>1. CASE needToCleanSecret
    <3>1. ~Cleaned(mem[cur]).refresh
      BY <1>1, CleanedFacts, Zenon DEF TypeOK, CallType
    <3>2. /\ secrets' = [secrets EXCEPT ![cur] = Cleaned(mem[cur])]
          /\ mem' = [mem EXCEPT ![cur] = Cleaned(mem[cur])]
      BY <2>1, Zenon DEF cleanSecretData, CleanedCopy
    <3>3. /\ secrets'[cur] = Cleaned(mem[cur]) /\ mem'[cur] = Cleaned(mem[cur])
          /\ \A s \in Service \ {cur} : secrets'[s] = secrets[s]
      BY <1>1, <3>2, Zenon DEF TypeOK, StoreType, CallType
    <3> QED
      BY <3>1, <3>3, Zenon
  <2>2. CASE ~needToCleanSecret
    <3>1. UNCHANGED <<secrets, mem>>
      BY <2>2, Zenon DEF cleanSecretData
    <3>2. ~mem[cur].refresh
      BY <1>1, <2>2, Zenon DEF needToCleanSecret, MemInv, CopyOK
    <3> QED
      BY <1>1, <3>1, <3>2, Zenon DEF Fresh
  <2> QED
    BY <2>1, <2>2, Zenon
<1> SUFFICES ASSUME NEW e \in Entry PROVE Moves(e)
  BY <1>1, MovesRotation, Zenon
<1>3. ~CopyDue(e)' /\ ~PolicyDue(e)'
  BY <1>1, <1>2, Zenon DEF CopyDue, PolicyDue, Entry, ZooKeeperEntries
<1>4. SecretDue(e)' => SecretDue(e)
  <2>1. CASE Owner[e] = cur
    BY <1>1, <1>2, <2>1, Zenon DEF SecretDue, Fresh
  <2>2. CASE Owner[e] # cur
    BY <1>1, <1>2, <2>2, OwnerService, Zenon DEF SecretDue
  <2> QED
    BY <2>1, <2>2, Zenon
<1> QED
  BY <1>3, <1>4, Zenon DEF Moves

LEMMA CleanFailsRotation ==
    ASSUME TypeOK, NamesAccounted, RotationInv, cleanSecretDataFails
    PROVE  RotationInv'
<1>1. UNCHANGED <<vault, asked, panicked>>
  BY Zenon DEF cleanSecretDataFails, vaultVars, userVars
<1>2. CASE secrets[cur].rv # mem[cur].rv /\ UNCHANGED <<secrets, faults>> /\ Fail(FALSE)
  <2>1. ~Fresh(cur)
    BY <1>2, Zenon DEF Fresh
  <2> QED
    BY <1>1, <1>2, <2>1, FailRotation, Zenon
<1>3. CASE faults' = faults + 1 /\ \E outage \in BOOLEAN : Fail(outage)
  BY <1>1, <1>3, FailRotation, Zenon
<1> QED
  BY <1>2, <1>3, Zenon DEF cleanSecretDataFails

\* The next service begins: a request that is still in the secret was not served.
LEMMA AnnotateRotation ==
    ASSUME TypeOK, NamesAccounted, RotationInv, Annotate
    PROVE  RotationInv'
<1>1. /\ UNCHANGED <<vault, granted, secrets, asked, faults, panicked>> /\ pc = "annotate"
  BY Zenon DEF Annotate, vaultVars, userVars
<1>2. \A e \in Entry : ~Passed(e)
  BY <1>1, Zenon DEF Passed
<1>3. CASE UNCHANGED <<pc, cur, mem>>
  BY <1>1, <1>2, <1>3, WithinRotation, Zenon
<1>4. CASE pc' \in {"finish", "watch"} /\ mem' = [s \in Service |-> NoSecret]
  BY <1>1, <1>2, <1>4, OverRotation, Zenon
<1> QED
  BY <1>3, <1>4, Zenon DEF Annotate

\* A request adds one version to those due; an update without one revokes the request.
LEMMA UserRotation ==
    ASSUME TypeOK, TypeOK', NamesAccounted, RotationInv, NEW s \in Service,
           UpdateSecret(s) \/ RemoveSecret(s)
    PROVE  RotationInv'
<1>1. UNCHANGED <<vault, granted, faults, panicked, mem, pc, cur>>
  BY Zenon DEF UpdateSecret, RemoveSecret, vaultVars, callVars
<1>2. /\ \A u \in Service \ {s} : secrets'[u] = secrets[u] /\ asked'[u] = asked[u]
      /\ \/ ~secrets'[s].refresh /\ asked'[s] = asked[s]
         \/ asked'[s] = asked[s] + 1
  <2>1. CASE UpdateSecret(s)
    BY <2>1, UpdateEffect, Zenon
  <2>2. CASE RemoveSecret(s)
    BY <2>2, Zenon DEF RemoveSecret, Removed, TypeOK, StoreType
  <2> QED
    BY <2>1, <2>2, Zenon
<1> SUFFICES ASSUME ~panicked, NEW e \in Entry
             PROVE  Covered(vault[e].version,
                            Total(CopyDue(e)', SecretDue(e)', PolicyDue(e)'),
                            asked'[Owner[e]], faults)
  BY <1>1, Zenon DEF RotationInv, Due
<1>3. Covered(vault[e].version, Total(CopyDue(e), SecretDue(e), PolicyDue(e)),
              asked[Owner[e]], faults)
  BY Zenon DEF RotationInv, Due
<1>4. /\ vault[e].version \in Nat /\ asked[Owner[e]] \in Nat /\ faults \in Nat
      /\ asked'[Owner[e]] \in Nat
  BY OwnerService, Zenon DEF TypeOK, StoreType, HistoryType
<1>5. (CopyDue(e)' => CopyDue(e)) /\ (PolicyDue(e)' => PolicyDue(e))
  BY <1>1, Zenon DEF CopyDue, PolicyDue, Passed
<1>6. CASE asked'[Owner[e]] = asked[Owner[e]] + 1
  <2>1. /\ asked[Owner[e]] <= asked'[Owner[e]] /\ faults <= faults
        /\ asked'[Owner[e]] + faults = asked[Owner[e]] + faults + 1
    BY <1>4, <1>6
  <2> QED
    BY <1>3, <1>4, <1>5, <2>1, StillCovered, Zenon
<1>7. CASE asked'[Owner[e]] = asked[Owner[e]] /\ (SecretDue(e)' => SecretDue(e))
  <2>1. asked[Owner[e]] <= asked[Owner[e]] /\ faults <= faults
    BY <1>4
  <2>2. Covered(vault[e].version, Total(CopyDue(e)', SecretDue(e)', PolicyDue(e)'),
                asked[Owner[e]], faults)
    <3>1. SecretDue(e)' => SecretDue(e)
      BY <1>7, Zenon
    <3>2. vault[e].version \in Nat /\ asked[Owner[e]] \in Nat /\ faults \in Nat
      BY <1>4, Zenon
    <3> QED
      BY <1>3, <1>5, <2>1, <3>1, <3>2, StillCovered, ZenonT(30)
  <2> QED
    BY <1>7, <2>2, Zenon
<1>8. CASE Owner[e] # s
  <2>1. secrets'[Owner[e]] = secrets[Owner[e]] /\ asked'[Owner[e]] = asked[Owner[e]]
    BY <1>2, <1>8, OwnerService, Zenon
  <2> QED
    BY <1>1, <1>7, <2>1, Zenon DEF SecretDue, Fresh
<1>9. CASE Owner[e] = s /\ ~secrets'[s].refresh /\ asked'[s] = asked[s]
  BY <1>7, <1>9, Zenon DEF SecretDue
<1> QED
  BY <1>2, <1>6, <1>8, <1>9, Zenon

LEMMA InitRotation == Init => RotationInv
<1> SUFFICES ASSUME Init, NEW e \in Entry
             PROVE  Covered(vault[e].version,
                            Total(CopyDue(e), SecretDue(e), PolicyDue(e)),
                            asked[Owner[e]], faults)
  BY Zenon DEF RotationInv, Due
<1>1. ~secrets[Owner[e]].refresh /\ asked[Owner[e]] = 0 /\ faults = 0
  BY OwnerService, NoSecretFacts, Zenon DEF Init, NewSecret
<1>2. vault[e].version \in {0, 1}
  BY Zenon DEF Init
<1>3. ~CopyDue(e) /\ ~SecretDue(e) /\ ~PolicyDue(e)
  BY <1>1, OwnerService, Zenon DEF Init, CopyDue, SecretDue, PolicyDue, Service, Entry,
                                   ZooKeeperEntries
<1>4. Total(CopyDue(e), SecretDue(e), PolicyDue(e)) = 0
  BY <1>3, TotalFacts
<1> QED
  BY <1>1, <1>2, <1>4 DEF Covered

LEMMA StepRotation ==
    ASSUME TypeOK, TypeOK', NamesAccounted, MemInv, RotationInv, [Next]_vars
    PROVE  RotationInv'
<1>1. CASE /\ UNCHANGED <<vault, secrets, asked, faults, panicked, mem, cur>>
           /\ granted \subseteq granted'
           /\ pc' \notin Entry \/ pc' = pc
           /\ \A e \in Entry : cur = Owner[e] /\ Passed(e) => Passed(e)'
  BY <1>1, WithinRotation, Zenon
<1>2. CASE OperatorStep
  <2>1. CASE Begin
    <3>1. /\ UNCHANGED <<vault, secrets, asked, faults, panicked>> /\ pc = "idle" /\ pc' = "watch"
          /\ UNCHANGED mem
      BY <2>1, Zenon DEF Begin, vaultVars, userVars
    <3>2. mem' = [s \in Service |-> NoSecret] /\ \A e \in Entry : ~Passed(e)
      BY <3>1, Zenon DEF MemInv, Passed
    <3> QED
      BY <3>1, <3>2, OverRotation, Zenon
  <2>2. CASE watchSecret
    BY <2>2, WatchRotation, Zenon
  <2>3. CASE watchSecretConflict
    <3>1. \A e \in Entry : ~Passed(e)
      BY <2>3, Zenon DEF watchSecretConflict, Passed
    <3> QED
      BY <2>3, <3>1, FailRotation, Zenon DEF watchSecretConflict, vaultVars, userVars
  <2>4. CASE Gate
    BY <1>1, <2>4, Zenon DEF Gate, vaultVars, userVars, Passed, Entry, ZooKeeperEntries
  <2>5. CASE WritePoliciesAndRoles
    <3>1. CASE faults' = faults + 1 /\ \E outage \in BOOLEAN : Fail(outage)
      BY <2>5, <3>1, FailRotation, Zenon DEF WritePoliciesAndRoles, userVars
    <3>2. CASE /\ pc' = IF EntriesOf[cur] = {} THEN "clean" ELSE "generator"
               /\ UNCHANGED <<cur, mem, faults>>
      <4>1. /\ UNCHANGED <<vault, secrets, asked, panicked>> /\ granted \subseteq granted'
            /\ \A e \in Entry : ~Passed(e)
        BY <2>5, Zenon DEF WritePoliciesAndRoles, userVars, Passed
      <4>2. pc' \notin Entry
        BY <3>2, Zenon DEF Entry, ZooKeeperEntries
      <4> QED
        BY <1>1, <3>2, <4>1, <4>2, Zenon
    <3> QED
      BY <2>5, <3>1, <3>2, Zenon DEF WritePoliciesAndRoles
  <2>6. CASE NewPasswordGenerator
    BY <2>6, GeneratorRotation, Zenon
  <2>7. CASE \/ processAdminCredentials \/ processClientCredentials
             \/ processAdditionalUsersCredentials \/ processCredentials
    BY <2>7, EntryRotation, Zenon
    DEF processAdminCredentials, processClientCredentials, processCredentials,
        processAdditionalUsersCredentials, Entry, ZooKeeperEntries, Follows
  <2>8. CASE processCredentialsPanic
    BY <2>8, Zenon DEF processCredentialsPanic, RotationInv
  <2>9. CASE cleanSecretData \/ cleanSecretDataFails \/ Annotate
    BY <2>9, CleanRotation, CleanFailsRotation, AnnotateRotation, Zenon
  <2>10. CASE Deploy
    BY <1>1, <2>10, Zenon DEF Deploy, NextServer, vaultVars, userVars, Passed, Entry,
                              ZooKeeperEntries
  <2>11. CASE UpdateServiceStatus
    <3>1. /\ UNCHANGED <<vault, granted, secrets, asked, faults, panicked>>
          /\ \A e \in Entry : ~Passed(e)
      BY <2>11, Zenon DEF UpdateServiceStatus, vaultVars, userVars, Passed
    <3>2. CASE Fail(FALSE)
      BY <3>1, <3>2, FailRotation, Zenon
    <3>3. CASE pc' = "annotate" /\ UNCHANGED <<cur, mem>>
      BY <1>1, <3>1, <3>3, Zenon DEF Entry, ZooKeeperEntries
    <3> QED
      BY <2>11, <3>2, <3>3, Zenon DEF UpdateServiceStatus
  <2>12. CASE Finish
    <3>1. \A e \in Entry : ~Passed(e)
      BY <2>12, Zenon DEF Finish, Passed
    <3> QED
      BY <2>12, <3>1, OverRotation, Zenon DEF Finish, Returned, vaultVars, userVars
  <2> QED
    BY <1>2, <2>1, <2>2, <2>3, <2>4, <2>5, <2>6, <2>7, <2>8, <2>9, <2>10, <2>11, <2>12, Zenon
    DEF OperatorStep
<1>3. CASE CallFails \/ Restart
  <2>1. /\ UNCHANGED <<vault, asked, panicked>> /\ faults' = faults + 1
        /\ mem' = [s \in Service |-> NoSecret] /\ pc' = "idle"
    BY <1>3, Zenon DEF CallFails, Restart, Fail, Returned, vaultVars, userVars
  <2> QED
    BY <2>1, NothingCopied, FaultRotation, Zenon
<1>4. CASE WriteVaultSecretUnanswered
  BY <1>4, UnansweredRotation, Zenon
<1>5. CASE DeliverStatus \/ DeliverSecrets \/ UNCHANGED vars
  <2>1. UNCHANGED <<vault, granted, secrets, asked, faults, panicked, mem, cur, pc>>
    BY <1>5, Zenon DEF DeliverStatus, DeliverSecrets, DeliverSecret, vars, vaultVars, callVars,
                       userVars
  <2> QED
    BY <1>1, <2>1, Zenon DEF Passed
<1>6. CASE \E s \in EditableSecrets : UpdateSecret(s) \/ RemoveSecret(s)
  BY <1>6, UserRotation, EditsAssumption, Zenon
<1> QED
  BY <1>2, <1>3, <1>4, <1>5, <1>6, Zenon DEF Next

\* However users, lagging caches, lost answers and restarts interleave with the passes
\* over any number of servers, an entry has at most one version for its installation,
\* one per request and one per fault.
THEOREM OneRotationPerRequest == Spec => []RotatedOnRequest
<1>1. Init => MemInv /\ RotationInv
  BY InitMem, InitRotation, Zenon
<1>2. TypeOK /\ TypeOK' /\ NamesAccounted /\ MemInv /\ RotationInv /\ [Next]_vars
      => MemInv' /\ RotationInv'
  BY StepMem, StepRotation, Zenon
<1>3. TypeOK /\ RotationInv => RotatedOnRequest
  <2> SUFFICES ASSUME TypeOK, RotationInv, ~panicked, NEW s \in Service, NEW e \in EntriesOf[s]
               PROVE  vault[e].version <= 1 + asked[s] + faults
    BY Zenon DEF RotatedOnRequest
  <2>1. e \in Entry /\ Owner[e] = s
    BY OwnerFacts, Zenon
  <2>2. Covered(vault[e].version, Total(CopyDue(e), SecretDue(e), PolicyDue(e)), asked[s], faults)
    BY <2>1, Zenon DEF RotationInv, Due
  <2>3. vault[e].version \in Nat /\ asked[s] \in Nat /\ faults \in Nat
    BY <2>1, Zenon DEF TypeOK, StoreType, HistoryType
  <2> DEFINE due == Total(CopyDue(e), SecretDue(e), PolicyDue(e))
  <2>4. due \in Nat
    BY TotalFacts
  <2> HIDE DEF due
  <2>5. vault[e].version + due <= 1 + asked[s] + faults
    BY <2>2, Zenon DEF Covered, due
  <2> QED
    BY <2>3, <2>4, <2>5
<1>4. Spec => []TypeOK /\ []NamesAccounted
  BY TypeCorrect, NamesAlwaysAccounted
<1> QED
  BY <1>1, <1>2, <1>3, <1>4, PTL DEF Spec
=============================================================================
