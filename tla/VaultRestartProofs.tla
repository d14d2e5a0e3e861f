------------------------- MODULE VaultRestartProofs -------------------------
(***************************************************************************)
(* What VaultCredentials promises about the pods, for every choice of      *)
(* services, number of servers and bound: they are replaced after a        *)
(* rotation of the credentials that they use.                              *)
(***************************************************************************)
EXTENDS VaultNamesProofs

(* How secrets and their copies change.                                    *)

\* A secret stays, is removed, or gets a new version.
SecretMoves(s) ==
    \/ secrets'[s] = secrets[s]
    \/ secrets'[s].rv = 0 /\ secrets'[s].owned = secrets[s].owned
    \/ /\ secrets[s].rv # 0 /\ secrets'[s].rv = secrets[s].rv + 1
       /\ secrets[s].owned => secrets'[s].owned

\* A copy stays, is dropped, or becomes the secret.
CopyMoves(s) ==
    \/ mem'[s] = mem[s]
    \/ mem'[s] = NoSecret
    \/ secrets[s].rv # 0 /\ secrets'[s].rv # 0 /\ mem'[s] = secrets'[s]

LEMMA WithOwnerMoves ==
    ASSUME NEW o \in SecretObject
    PROVE  /\ WithOwner(o).owned
           /\ \/ WithOwner(o) = o
              \/ WithOwner(o).rv = o.rv + 1
BY DEF WithOwner, SecretObject

LEMMA WatchMoves ==
    ASSUME TypeOK, watchSecret
    PROVE  /\ \A s \in Service : SecretMoves(s) /\ CopyMoves(s)
           /\ \A s \in Service \ {Target} : secrets'[s] = secrets[s] /\ mem'[s] = mem[s]
<1> DEFINE t == Target
           own == WithOwner(secrets[t])
<1>1. t \in Service
  BY ServicesAssumption, Zenon DEF watchSecret, Target, TypeOK, CallType, Service
<1>2. CASE UNCHANGED <<secrets, mem>>
  BY <1>2, Zenon DEF SecretMoves, CopyMoves
<1>3. CASE /\ secrets[t].rv # 0
           /\ secrets' = [secrets EXCEPT ![t] = own]
           /\ mem' = [mem EXCEPT ![t] = own]
  <2> HIDE DEF t
  <2>1. own.rv # 0 /\ own.owned /\ (own = secrets[t] \/ own.rv = secrets[t].rv + 1)
    <3>1. own.owned /\ (own = secrets[t] \/ own.rv = secrets[t].rv + 1)
      BY <1>1, WithOwnerMoves, Zenon DEF TypeOK, StoreType
    <3>2. secrets[t].rv \in Nat
      BY <1>1, Zenon DEF TypeOK, StoreType, SecretObject
    <3>3. secrets[t].rv + 1 # 0
      BY <3>2
    <3> QED
      BY <1>3, <3>1, <3>3, Zenon
  <2> HIDE DEF own
  <2>2. /\ secrets'[t] = own /\ mem'[t] = own
        /\ \A s \in Service \ {t} : secrets'[s] = secrets[s] /\ mem'[s] = mem[s]
    BY <1>1, <1>3, Zenon DEF TypeOK, StoreType, CallType
  <2>3. SecretMoves(t) /\ CopyMoves(t)
    BY <1>3, <2>1, <2>2, Zenon DEF SecretMoves, CopyMoves
  <2> QED
    BY <2>2, <2>3, Zenon DEF SecretMoves, CopyMoves, t
<1> QED
  BY <1>2, <1>3, Zenon DEF watchSecret

LEMMA CleanMoves ==
    ASSUME TypeOK, NamesAccounted, MemInv, cleanSecretData \/ cleanSecretDataFails
    PROVE  /\ \A s \in Service : SecretMoves(s) /\ CopyMoves(s)
           /\ \A s \in Service \ {cur} : secrets'[s] = secrets[s]
           /\ cleanSecretData => ~mem'[cur].refresh
           /\ secrets'[cur] = secrets[cur] \/ secrets'[cur].rv = secrets[cur].rv + 1
<1>1. cur \in Service
  BY ServicesAssumption, Zenon DEF cleanSecretData, cleanSecretDataFails, TypeOK, CallType
<1>2. CASE UNCHANGED secrets /\ (mem' = [s \in Service |-> NoSecret] \/ UNCHANGED mem)
  <2>1. \A s \in Service : SecretMoves(s) /\ CopyMoves(s)
    BY <1>2, Zenon DEF SecretMoves, CopyMoves
  <2>2. cleanSecretData => ~mem'[cur].refresh
    <3>1. CASE mem' = [s \in Service |-> NoSecret]
      BY <1>1, <3>1, NoSecretFacts, Zenon
    <3>2. CASE UNCHANGED mem /\ ~needToCleanSecret
      BY <1>1, <3>2, Zenon DEF needToCleanSecret, MemInv, CopyOK
    <3>3. CASE UNCHANGED mem /\ UNCHANGED secrets /\ needToCleanSecret /\ cleanSecretData
      <4>1. secrets'[cur] = Cleaned(mem[cur]) /\ secrets[cur].rv = mem[cur].rv
        BY <1>1, <3>3, Zenon DEF cleanSecretData, TypeOK, StoreType
      <4>2. Cleaned(mem[cur]).rv = mem[cur].rv + 1 /\ mem[cur].rv \in Nat
        BY <1>1, CleanedFacts, Zenon DEF TypeOK, CallType, SecretObject
      <4>3. mem[cur].rv = mem[cur].rv + 1
        BY <3>3, <4>1, <4>2, Zenon
      <4> QED
        BY <4>2, <4>3
    <3> QED
      BY <1>2, <3>1, <3>2, <3>3, Zenon
  <2> QED
    BY <1>2, <2>1, <2>2, Zenon
<1>3. CASE /\ Fresh(cur)
           /\ secrets' = [secrets EXCEPT ![cur] = Cleaned(mem[cur])]
           /\ \/ mem' = [s \in Service |-> NoSecret]
              \/ mem' = [mem EXCEPT ![cur] = Cleaned(mem[cur])]
  <2> DEFINE clean == Cleaned(mem[cur])
  <2>1. /\ clean.rv = secrets[cur].rv + 1 /\ clean.rv # 0 /\ clean.owned /\ ~clean.refresh
        /\ secrets[cur].rv # 0
    <3>1. /\ mem[cur] = secrets[cur] /\ mem[cur].rv \in Nat /\ secrets[cur].owned
          /\ mem[cur].rv # 0
      BY <1>1, <1>3, Zenon DEF NamesAccounted, CopyInv, MemInv, CopyOK, Fresh, TypeOK, CallType,
                               SecretObject
    <3> QED
      BY <3>1 DEF Cleaned
  <2> HIDE DEF clean
  <2>2. /\ secrets'[cur] = clean
        /\ \A s \in Service \ {cur} : secrets'[s] = secrets[s]
    BY <1>1, <1>3, Zenon DEF clean, TypeOK, StoreType
  <2>3. /\ \A s \in Service : CopyMoves(s)
        /\ ~mem'[cur].refresh
    <3>1. CASE mem' = [s \in Service |-> NoSecret]
      BY <1>1, <3>1, NoSecretFacts, Zenon DEF CopyMoves
    <3>2. CASE mem' = [mem EXCEPT ![cur] = clean]
      <4>1. mem'[cur] = clean /\ \A s \in Service \ {cur} : mem'[s] = mem[s]
        BY <1>1, <3>2, Zenon DEF TypeOK, CallType
      <4> QED
        BY <1>1, <2>1, <2>2, <4>1, Zenon DEF CopyMoves
    <3> QED
      BY <1>3, <3>1, <3>2, Zenon DEF clean
  <2> QED
    BY <2>1, <2>2, <2>3, Zenon DEF SecretMoves
<1>4. CASE cleanSecretData
  BY <1>2, <1>3, <1>4, Zenon DEF cleanSecretData, needToCleanSecret, CleanedCopy, Fresh
<1>5. CASE cleanSecretDataFails
  BY <1>2, <1>3, <1>5, Zenon DEF cleanSecretDataFails, needToCleanSecret, Fail, Returned, Fresh
<1> QED
  BY <1>4, <1>5, Zenon

LEMMA UserMoves ==
    ASSUME TypeOK, NEW s \in Service, UpdateSecret(s) \/ RemoveSecret(s)
    PROVE  \A u \in Service : SecretMoves(u) /\ CopyMoves(u)
<1>1. UNCHANGED mem /\ secrets[s].rv # 0
  BY Zenon DEF UpdateSecret, RemoveSecret, callVars
<1>2. CASE UpdateSecret(s)
  BY <1>1, <1>2, UpdateEffect, Zenon DEF SecretMoves, CopyMoves
<1>3. CASE RemoveSecret(s)
  <2>1. /\ secrets'[s].rv = 0 /\ secrets'[s].owned = secrets[s].owned
        /\ \A u \in Service \ {s} : secrets'[u] = secrets[u]
    BY <1>3, Zenon DEF RemoveSecret, Removed, TypeOK, StoreType
  <2> QED
    BY <1>1, <2>1, Zenon DEF SecretMoves, CopyMoves
<1> QED
  BY <1>2, <1>3, Zenon

-----------------------------------------------------------------------------
(* The pods are replaced after a rotation.                                 *)

AnnotOK(secret, copy, version) ==
    /\ secret.rv # 0 => version <= secret.rv
    /\ copy.rv # 0 => version <= copy.rv

\* The restart annotation of a service's own secret is never ahead of the secret nor
\* of the copy that the running call has: whatever changes the secret is noticed.
AnnotInv == \A d \in Deployment : AnnotOK(secrets[d[1]], mem[d[1]], annotated[d][d[1]])

\* The Deployment that the loop over the servers is at.
Handled == <<cur, server>>

LEMMA HandledFacts ==
    ASSUME TypeOK, pc \notin {"idle", "finish"}
    PROVE  /\ Handled \in Deployment /\ Handled[1] = cur /\ cur \in Services /\ cur \in Service
           /\ cur \in Watched(cur)
<1>1. cur \in Services /\ cur \in Service
  BY ServicesAssumption, Zenon DEF TypeOK, CallType
<1>2. server \in 1..Units(cur) /\ Units(cur) \in {1, Servers}
  BY Zenon DEF TypeOK, CallType, Units
<1>3. Handled \in Deployment
  BY <1>1, <1>2, ServersAssumption DEF Handled, Deployment
<1> QED
  BY <1>1, <1>3, Zenon DEF Handled, Watched

LEMMA VersionFacts ==
    ASSUME TypeOK, NEW d \in Deployment
    PROVE  /\ d[1] \in Service
           /\ annotated[d][d[1]] \in Nat /\ secrets[d[1]].rv \in Nat /\ mem[d[1]].rv \in Nat
           /\ recorded[d[1]] \in Nat /\ cachedSecrets[d[1]].rv \in Nat
<1>1. d[1] \in Service
  BY Zenon DEF Deployment
<1> QED
  BY <1>1, ZenonT(30) DEF TypeOK, StoreType, DeployType, CallType, MemoryType, CacheType, SecretObject

\* What Deploy does to the Deployments.
LEMMA DeployEffect ==
    ASSUME TypeOK, Deploy
    PROVE  /\ deployed' = deployed \cup {Handled}
           /\ \A d \in Deployment \ {Handled} : annotated'[d] = annotated[d]
           /\ annotated'[Handled][cur] = mem[cur].rv
           /\ \/ /\ UNCHANGED restarted
                 /\ Handled \in deployed /\ annotated'[Handled] = annotated[Handled]
              \/ restarted' = restarted \cup {Handled}
<1> DEFINE built == [s \in Service |-> IF s \in Watched(cur) THEN mem[s].rv ELSE 0]
<1>1. Handled \in Deployment /\ cur \in Service /\ cur \in Watched(cur)
  BY HandledFacts, Zenon DEF Deploy
<1>2. built[cur] = mem[cur].rv
  BY <1>1, Zenon
<1>3. /\ deployed' = deployed \cup {Handled}
      /\ annotated' = [annotated EXCEPT ![Handled] = built]
      /\ \/ UNCHANGED restarted /\ Handled \in deployed /\ annotated[Handled] = built
         \/ restarted' = restarted \cup {Handled}
  BY Zenon DEF Deploy, Handled
<1> HIDE DEF built
<1>4. /\ annotated'[Handled] = built
      /\ \A d \in Deployment \ {Handled} : annotated'[d] = annotated[d]
  BY <1>1, <1>3, Zenon DEF TypeOK, DeployType
<1> QED
  BY <1>2, <1>3, <1>4, Zenon

\* What Annotate does to the Deployments.
LEMMA AnnotateEffect ==
    ASSUME TypeOK, Annotate
    PROVE  /\ UNCHANGED deployed
           /\ \A d \in Deployment \ {Handled} : annotated'[d] = annotated[d]
           /\ mem[cur].rv = 0 \/ Handled \notin deployed
              => annotated'[Handled][cur] = annotated[Handled][cur]
           /\ mem[cur].rv # 0 /\ Handled \in deployed => annotated'[Handled][cur] = mem[cur].rv
           /\ \/ UNCHANGED <<restarted, annotated>>
              \/ Handled \in deployed /\ restarted' = restarted \cup {Handled}
<1> DEFINE built == RestartAnnotations(Handled)
<1>1. Handled \in Deployment /\ cur \in Service /\ cur \in Watched(cur)
  BY HandledFacts, Zenon DEF Annotate
<1>2. built[cur] = IF mem[cur].rv # 0 THEN mem[cur].rv ELSE annotated[Handled][cur]
  BY <1>1, Zenon DEF RestartAnnotations
<1> HIDE DEF built
<1>3. CASE /\ Handled \in deployed
           /\ annotated' = [annotated EXCEPT ![Handled] = built]
           /\ restarted' = restarted \cup {Handled}
  <2>1. /\ annotated'[Handled] = built
        /\ \A d \in Deployment \ {Handled} : annotated'[d] = annotated[d]
    BY <1>1, <1>3, Zenon DEF TypeOK, DeployType
  <2> QED
    BY <1>2, <1>3, <2>1, Zenon DEF Annotate
<1>4. CASE /\ UNCHANGED <<annotated, restarted>>
           /\ Handled \notin deployed \/ annotated[Handled] = built
  BY <1>2, <1>4, Zenon DEF Annotate
<1> QED
  BY <1>3, <1>4, Zenon DEF Annotate, Handled, built

LEMMA SameAnnot ==
    ASSUME TypeOK, TypeOK', AnnotInv, \A s \in Service : SecretMoves(s) /\ CopyMoves(s),
           UNCHANGED annotated
    PROVE  AnnotInv'
<1> SUFFICES ASSUME NEW d \in Deployment
             PROVE  AnnotOK(secrets[d[1]], mem[d[1]], annotated[d][d[1]])'
  BY Zenon DEF AnnotInv
<1> DEFINE s == d[1]
           v == annotated[d][s]
<1>1. /\ s \in Service /\ v \in Nat /\ secrets[s].rv \in Nat /\ mem[s].rv \in Nat
      /\ annotated'[d][s] = v
  BY VersionFacts, Zenon
<1>2. AnnotOK(secrets[s], mem[s], v)
  BY Zenon DEF AnnotInv
<1> HIDE DEF s, v
<1>3. secrets[s].rv # 0 => v <= secrets[s].rv + 1
  BY <1>1, <1>2 DEF AnnotOK
<1>4. secrets'[s].rv # 0 => v <= secrets'[s].rv
  BY <1>1, <1>2, <1>3, Zenon DEF SecretMoves, AnnotOK
<1>5. mem'[s].rv # 0 => v <= mem'[s].rv
  BY <1>1, <1>2, <1>4, NoSecretFacts, Zenon DEF CopyMoves, AnnotOK
<1> QED
  BY <1>1, <1>4, <1>5, Zenon DEF AnnotOK, s

LEMMA NewAnnot ==
    ASSUME TypeOK, NamesAccounted, AnnotInv, Deploy \/ Annotate
    PROVE  AnnotInv'
<1>1. /\ Handled \in Deployment /\ Handled[1] = cur /\ cur \in Service
      /\ UNCHANGED secrets
      /\ UNCHANGED mem \/ mem' = [s \in Service |-> NoSecret]
  BY HandledFacts, Zenon DEF Deploy, Annotate
<1>2. /\ \A d \in Deployment \ {Handled} : annotated'[d] = annotated[d]
      /\ annotated'[Handled][cur] \in {mem[cur].rv, annotated[Handled][cur]}
  BY DeployEffect, AnnotateEffect, Zenon
<1>3. AnnotOK(secrets[cur], mem[cur], annotated'[Handled][cur])
  <2>1. AnnotOK(secrets[cur], mem[cur], annotated[Handled][cur])
    BY <1>1, Zenon DEF AnnotInv
  <2>2. secrets[cur].rv # 0 => mem[cur].rv <= secrets[cur].rv
    BY <1>1, Zenon DEF NamesAccounted, CopyInv
  <2>3. mem[cur].rv <= mem[cur].rv
    BY <1>1 DEF TypeOK, CallType, SecretObject
  <2> QED
    BY <1>2, <2>1, <2>2, <2>3, Zenon DEF AnnotOK
<1>4. ASSUME NEW d \in Deployment
      PROVE  AnnotOK(secrets[d[1]], mem[d[1]], annotated'[d][d[1]])
  BY <1>1, <1>2, <1>3, Zenon DEF AnnotInv
<1>5. ASSUME NEW d \in Deployment
      PROVE  AnnotOK(secrets[d[1]], mem[d[1]], annotated[d][d[1]])'
  <2>1. mem'[d[1]] = mem[d[1]] \/ mem'[d[1]].rv = 0
    BY <1>1, VersionFacts, NoSecretFacts, Zenon
  <2> QED
    BY <1>1, <1>4, <2>1, Zenon DEF AnnotOK
<1> QED
  BY <1>5, Zenon DEF AnnotInv

\* Every other step leaves the annotations alone.
LEMMA StepMoves ==
    ASSUME TypeOK, NamesAccounted, MemInv, [Next]_vars
    PROVE  /\ \A s \in Service : SecretMoves(s) /\ CopyMoves(s)
           /\ UNCHANGED annotated \/ Deploy \/ Annotate
<1>1. ASSUME UNCHANGED secrets, UNCHANGED mem \/ mem' = [s \in Service |-> NoSecret]
      PROVE  \A s \in Service : SecretMoves(s) /\ CopyMoves(s)
  BY <1>1, Zenon DEF SecretMoves, CopyMoves
<1>2. CASE watchSecret
  BY <1>2, WatchMoves, Zenon DEF watchSecret, deployVars
<1>3. CASE cleanSecretData \/ cleanSecretDataFails
  <2>1. UNCHANGED annotated
    BY <1>3, Zenon DEF cleanSecretData, cleanSecretDataFails, deployVars
  <2> QED
    BY <1>3, <2>1, CleanMoves, Zenon
<1>4. CASE \E s \in EditableSecrets : UpdateSecret(s) \/ RemoveSecret(s)
  BY <1>4, UserMoves, EditsAssumption, ZenonT(30) DEF UpdateSecret, RemoveSecret, deployVars
<1>5. CASE Deploy \/ Annotate
  BY <1>1, <1>5, Zenon DEF Deploy, Annotate
<1>6. CASE \/ Begin \/ watchSecretConflict \/ Gate \/ WritePoliciesAndRoles
           \/ NewPasswordGenerator \/ UpdateServiceStatus \/ Finish
  BY <1>1, <1>6, Zenon DEF Begin, watchSecretConflict, Gate, WritePoliciesAndRoles,
     NewPasswordGenerator, UpdateServiceStatus, Finish, Fail, Returned, deployVars
<1>7. CASE \/ processAdminCredentials \/ processClientCredentials \/ processCredentials
           \/ processAdditionalUsersCredentials \/ processCredentialsPanic
           \/ WriteVaultSecretUnanswered
  BY <1>1, <1>7, Zenon DEF processAdminCredentials, processClientCredentials,
     processCredentials, processAdditionalUsersCredentials, processCredentialsPanic,
     WriteVaultSecretUnanswered, ProcessEntry, Fail, Returned, deployVars
<1>8. CASE CallFails \/ Restart
  BY <1>1, <1>8, Zenon DEF CallFails, Restart, Fail, Returned, deployVars
<1>9. CASE DeliverStatus \/ DeliverSecrets \/ UNCHANGED vars
  BY <1>1, <1>9, Zenon DEF DeliverStatus, DeliverSecrets, DeliverSecret, vars, deployVars,
                           callVars
<1> QED
  BY <1>2, <1>3, <1>4, <1>5, <1>6, <1>7, <1>8, <1>9, Zenon DEF Next, OperatorStep

LEMMA InitAnnot == Init => AnnotInv
<1> SUFFICES ASSUME Init, NEW d \in Deployment
             PROVE  AnnotOK(secrets[d[1]], mem[d[1]], annotated[d][d[1]])
  BY Zenon DEF AnnotInv
<1>1. d[1] \in Service
  BY Zenon DEF Deployment
<1>2. annotated[d][d[1]] = 0 /\ mem[d[1]] = NoSecret
  BY <1>1, Zenon DEF Init
<1>3. secrets[d[1]].rv \in Nat
  BY <1>1, InitType, Zenon DEF TypeOK, StoreType, SecretObject
<1> QED
  BY <1>2, <1>3, NoSecretFacts DEF AnnotOK

LEMMA StepAnnot ==
    ASSUME TypeOK, TypeOK', NamesAccounted, MemInv, AnnotInv, [Next]_vars
    PROVE  AnnotInv'
BY StepMoves, SameAnnot, NewAnnot, Zenon

\* The Deployment has the secret as it is now.
Caught(d) == secrets[d[1]].rv # 0 /\ annotated[d][d[1]] = secrets[d[1]].rv

\* The steps of a pass before the secret is cleaned.
Opening == {"policies", "generator"} \cup Entry

\* A request that the pods have seen is still to be noticed, or has been seen by the
\* gate as well and is of no effect.
SeenRequest(d) ==
    Caught(d) /\ secrets[d[1]].refresh
    => d[1] \notin hashed \/ (settled /\ recorded[d[1]] = secrets[d[1]].rv)

\* Only a request that the gate will let through leaves a Deployment to be restarted
\* that has the secret's version already.
Unnoticed(d) == d \notin restarted /\ Caught(d) => secrets[d[1]].refresh /\ d[1] \notin hashed

\* A pass on such a request is one of a service whose hash is not recorded.
OpenedFor(d) ==
    pc \in Opening /\ cur = d[1] /\ cur # "monitoring" /\ Caught(d) /\ secrets[cur].refresh
    => cur \notin hashed

\* A copy with a request gets past the gate as far as the cleaning; behind a closed
\* gate its version is the recorded one.
CopyServed ==
    /\ pc \in {"deploy", "status"} => ~mem[cur].refresh
    /\ pc = "annotate" => \/ ~mem[cur].refresh
                          \/ settled /\ cur \in hashed /\ recorded[cur] = mem[cur].rv

\* The inductive invariant: a Deployment whose pods were not replaced after a rotation
\* lacks the secret's version, or the request for the rotation is still there and the
\* next cycle serves it again.
RestartInv ==
    /\ \A d \in deployed : /\ d[1] \in Services
                           /\ d[1] = "monitoring" => d \in restarted
                           /\ SeenRequest(d) /\ Unnoticed(d) /\ OpenedFor(d)
    /\ CopyServed

\* A secret that changes is caught by no Deployment.
LEMMA CaughtBefore ==
    ASSUME TypeOK, AnnotInv, NEW d \in Deployment, SecretMoves(d[1]),
           annotated'[d] = annotated[d], Caught(d)'
    PROVE  Caught(d) /\ secrets'[d[1]] = secrets[d[1]]
<1> DEFINE s == d[1]
           v == annotated[d][s]
<1>1. /\ v \in Nat /\ secrets[s].rv \in Nat
      /\ secrets'[s].rv # 0 /\ v = secrets'[s].rv
  BY VersionFacts, Zenon DEF Caught
<1>2. secrets[s].rv # 0 => v <= secrets[s].rv
  BY Zenon DEF AnnotInv, AnnotOK
<1> HIDE DEF v
<1>3. secrets[s].rv # 0 => v # secrets[s].rv + 1
  BY <1>1, <1>2
<1>4. secrets'[s] = secrets[s]
  BY <1>1, <1>3, Zenon DEF SecretMoves
<1> QED
  BY <1>1, <1>4, Zenon DEF Caught, v

\* The copy of a secret that has been caught is fresh.
LEMMA CaughtFresh ==
    ASSUME TypeOK, NamesAccounted, AnnotInv, NEW d \in Deployment, Caught(d), mem[d[1]].rv # 0
    PROVE  mem[d[1]] = secrets[d[1]]
<1>1. /\ d[1] \in Service
      /\ annotated[d][d[1]] \in Nat /\ secrets[d[1]].rv \in Nat /\ mem[d[1]].rv \in Nat
  BY VersionFacts, Zenon
<1>2. /\ annotated[d][d[1]] <= mem[d[1]].rv /\ mem[d[1]].rv <= secrets[d[1]].rv
      /\ annotated[d][d[1]] = secrets[d[1]].rv
  BY <1>1, Zenon DEF Caught, AnnotInv, AnnotOK, NamesAccounted, CopyInv
<1>3. mem[d[1]].rv = secrets[d[1]].rv
  BY <1>1, <1>2
<1> QED
  BY <1>1, <1>3, Zenon DEF NamesAccounted, CopyInv, Fresh

LEMMA CurCaught ==
    ASSUME TypeOK, NamesAccounted, AnnotInv, NEW d \in Deployment, Caught(d), d[1] = cur,
           pc \notin {"idle", "finish", "watch"}
    PROVE  mem[cur] = secrets[cur] /\ mem[cur].rv # 0
BY CaughtFresh, Zenon DEF NamesAccounted, CallInv, Caught

\* A step that makes no Deployment and writes no entry.
LEMMA SameRestart ==
    ASSUME TypeOK, AnnotInv, RestartInv, \A s \in Service : SecretMoves(s),
           UNCHANGED <<annotated, deployed, restarted, recorded, hashed>>, settled => settled',
           \/ pc' \in {"idle", "watch", "watchShared", "gate", "finish"}
           \/ /\ UNCHANGED <<cur, mem, settled>>
              /\ \/ pc' = pc \/ pc' = "clean"
                 \/ pc \in Opening /\ pc' \in Opening
                 \/ pc = "status" /\ pc' = "annotate"
    PROVE  RestartInv'
<1>1. ASSUME NEW d \in deployed
      PROVE  /\ d \in Deployment
             /\ Caught(d)' => Caught(d) /\ secrets'[d[1]] = secrets[d[1]]
  BY CaughtBefore, VersionFacts, Zenon DEF TypeOK, DeployType
<1>2. ASSUME NEW d \in deployed
      PROVE  SeenRequest(d)' /\ Unnoticed(d)'
  <2>1. SeenRequest(d) /\ Unnoticed(d)
    BY Zenon DEF RestartInv
  <2> QED
    BY <1>1, <2>1, Zenon DEF SeenRequest, Unnoticed
<1>3. pc' \in Opening => pc \in Opening /\ UNCHANGED cur
  BY Zenon DEF Opening, Entry, ZooKeeperEntries
<1>4. ASSUME NEW d \in deployed
      PROVE  OpenedFor(d)'
  <2>1. OpenedFor(d)
    BY Zenon DEF RestartInv
  <2> QED
    BY <1>1, <1>3, <2>1, Zenon DEF OpenedFor
<1>5. CopyServed'
  <2>1. pc' \in {"deploy", "status"} => pc' = pc /\ UNCHANGED <<cur, mem>>
    BY Zenon DEF Opening, Entry, ZooKeeperEntries
  <2>2. pc' = "annotate" => pc \in {"status", "annotate"} /\ UNCHANGED <<cur, mem, settled>>
    BY Zenon DEF Opening, Entry, ZooKeeperEntries
  <2> QED
    BY <2>1, <2>2, Zenon DEF RestartInv, CopyServed
<1>6. \A d \in deployed : d[1] \in Services /\ (d[1] = "monitoring" => d \in restarted)
  BY Zenon DEF RestartInv
<1> QED
  BY <1>2, <1>4, <1>5, <1>6, Zenon DEF RestartInv

\* The gate is closed only to a request that has been recorded.
LEMMA GateRestart ==
    ASSUME TypeOK, NamesAccounted, MemInv, AnnotInv, RestartInv, Gate
    PROVE  RestartInv'
<1>1. /\ UNCHANGED <<secrets, annotated, deployed, restarted, recorded, hashed, settled, cur, mem>>
      /\ pc = "gate"
  BY Zenon DEF Gate, deployVars, memoryVars
<1>2. cur \in Watched(cur) /\ cur \in Service
  BY <1>1, HandledFacts, Zenon
<1>3. CASE pc' = "policies"
  <2>1. cur \notin hashed \/ ~settled \/ \E s \in Watched(cur) : secretVersionChanged(s)
    BY <1>3, Zenon DEF Gate
  <2>2. ASSUME NEW d \in deployed, cur = d[1], cur # "monitoring", Caught(d), secrets[cur].refresh
        PROVE  cur \notin hashed
    <3>1. Watched(cur) = {cur}
      BY <2>2, Zenon DEF Watched
    <3>2. d \in Deployment
      BY Zenon DEF TypeOK, DeployType
    <3>3. mem[cur] = secrets[cur]
      BY <1>1, <2>2, <3>2, CurCaught, Zenon
    <3>4. cur \notin hashed \/ (settled /\ recorded[cur] = secrets[cur].rv)
      BY <2>2, Zenon DEF RestartInv, SeenRequest
    <3> QED
      BY <2>1, <3>1, <3>3, <3>4, Zenon DEF secretVersionChanged
  <2>3. \A d \in deployed : OpenedFor(d)'
    BY <1>1, <2>2, Zenon DEF OpenedFor, Caught
  <2>4. CopyServed'
    BY <1>3, Zenon DEF CopyServed
  <2> QED
    BY <1>1, <2>3, <2>4, Zenon DEF RestartInv, SeenRequest, Unnoticed, Caught
<1>4. CASE pc' = "annotate" /\ cur \in hashed /\ settled /\ ~secretVersionChanged(cur)
  <2>1. \A d \in deployed : OpenedFor(d)'
    BY <1>4, Zenon DEF OpenedFor, Opening, Entry, ZooKeeperEntries
  <2>2. mem[cur].rv = 0 => ~mem[cur].refresh
    BY <1>2, Zenon DEF MemInv, CopyOK
  <2>3. CopyServed'
    BY <1>1, <1>4, <2>2, Zenon DEF CopyServed, secretVersionChanged
  <2> QED
    BY <1>1, <2>1, <2>3, Zenon DEF RestartInv, SeenRequest, Unnoticed, Caught
<1> QED
  BY <1>2, <1>3, <1>4, Zenon DEF Gate

\* A pass that writes an entry of a service with Deployments was asked to, by a copy
\* with a request.
LEMMA WriteRestart ==
    ASSUME TypeOK, NamesAccounted, VaultReady, AnnotInv, RestartInv, NEW e \in Entry, pc = e,
           vault[e].version = 0 \/ needToRefreshCredentials, WriteVaultSecret(e),
           UNCHANGED <<secrets, annotated, deployed, recorded, hashed, settled>>,
           pc' = "idle" \/ (pc' \in Entry \cup {"clean"} /\ UNCHANGED cur)
    PROVE  RestartInv'
<1>1. cur = Owner[e] /\ e \in EntriesOf[cur] /\ cur # "monitoring" /\ cur \in Service
  <2>1. cur = Owner[e]
    BY Zenon DEF NamesAccounted, CallInv
  <2> QED
    BY <2>1, OwnerFacts, Zenon DEF Owner
<1>2. restarted' = restarted \ DeploymentsOf(cur)
  BY Zenon DEF WriteVaultSecret
<1>3. ASSUME NEW d \in deployed, d[1] = cur, Caught(d)
      PROVE  secrets[cur].refresh /\ cur \notin hashed
  <2>1. vault[e].version # 0
    BY <1>1, <1>3, Zenon DEF VaultReady, Prepared
  <2>2. d \in Deployment /\ pc \notin {"idle", "finish", "watch"}
    BY Zenon DEF TypeOK, DeployType, Entry, ZooKeeperEntries
  <2>3. secrets[cur].refresh
    BY <1>3, <2>1, <2>2, CurCaught, Zenon DEF needToRefreshCredentials
  <2> QED
    BY <1>1, <1>3, <2>3, Zenon DEF RestartInv, OpenedFor, Opening
<1>4. ASSUME NEW d \in deployed
      PROVE  /\ d[1] \in Services
             /\ d[1] = "monitoring" => d \in restarted'
             /\ SeenRequest(d)' /\ Unnoticed(d)' /\ OpenedFor(d)'
  <2>1. /\ d[1] \in Services /\ (d[1] = "monitoring" => d \in restarted)
        /\ SeenRequest(d) /\ Unnoticed(d) /\ OpenedFor(d)
    BY Zenon DEF RestartInv
  <2>2. d[1] = "monitoring" => d \in restarted'
    BY <1>1, <1>2, <2>1, Zenon DEF DeploymentsOf
  <2>3. SeenRequest(d)'
    BY <2>1, Zenon DEF SeenRequest, Caught
  <2>4. Unnoticed(d)'
    <3>1. CASE d[1] = cur
      BY <1>3, <3>1, Zenon DEF Unnoticed, Caught
    <3>2. CASE d[1] # cur
      BY <1>2, <2>1, <3>2, Zenon DEF Unnoticed, Caught, DeploymentsOf
    <3> QED
      BY <3>1, <3>2, Zenon
  <2>5. OpenedFor(d)'
    BY <1>3, Zenon DEF OpenedFor, Caught, Opening, Entry, ZooKeeperEntries
  <2> QED
    BY <2>1, <2>2, <2>3, <2>4, <2>5, Zenon
<1>5. CopyServed'
  BY Zenon DEF CopyServed, Entry, ZooKeeperEntries
<1> QED
  BY <1>4, <1>5, Zenon DEF RestartInv

\* Cleaning the secret gives it a version that no Deployment has.
LEMMA CleanRestart ==
    ASSUME TypeOK, NamesAccounted, MemInv, AnnotInv, RestartInv, cleanSecretData
    PROVE  RestartInv'
<1>1. /\ \A s \in Service : SecretMoves(s)
      /\ ~mem'[cur].refresh
      /\ secrets'[cur] = secrets[cur] \/ secrets'[cur].rv = secrets[cur].rv + 1
  BY CleanMoves, Zenon
<1>2. /\ UNCHANGED <<annotated, deployed, restarted, hashed, settled, cur>>
      /\ pc' = "deploy" /\ cur \in Service
      /\ \A s \in Service \ {cur} : recorded'[s] = recorded[s]
      /\ secrets'[cur] = secrets[cur] => recorded'[cur] = recorded[cur]
  <2>1. /\ UNCHANGED <<annotated, deployed, restarted, hashed, settled, cur>>
        /\ pc = "clean" /\ pc' = "deploy"
    BY Zenon DEF cleanSecretData, deployVars
  <2>2. cur \in Service
    BY <2>1, HandledFacts, Zenon
  <2>3. CASE UNCHANGED recorded
    BY <2>1, <2>2, <2>3, Zenon
  <2>4. CASE /\ secrets[cur].rv = mem[cur].rv
             /\ secrets' = [secrets EXCEPT ![cur] = Cleaned(mem[cur])]
             /\ recorded' = [recorded EXCEPT ![cur] = mem[cur].rv + 1]
    <3>1. secrets'[cur] = Cleaned(mem[cur]) /\ mem[cur] \in SecretObject
      BY <2>2, <2>4, Zenon DEF TypeOK, StoreType, CallType
    <3>2. secrets'[cur].rv = secrets[cur].rv + 1 /\ secrets[cur].rv \in Nat
      BY <2>2, <2>4, <3>1, CleanedFacts, Zenon DEF TypeOK, StoreType, SecretObject
    <3>3. secrets'[cur].rv # secrets[cur].rv
      BY <3>2
    <3>4. \A s \in Service \ {cur} : recorded'[s] = recorded[s]
      BY <2>4, Zenon DEF TypeOK, MemoryType
    <3> QED
      BY <2>1, <2>2, <3>3, <3>4, Zenon
  <2> QED
    BY <2>3, <2>4, Zenon DEF cleanSecretData
<1>3. ASSUME NEW d \in deployed
      PROVE  SeenRequest(d)' /\ Unnoticed(d)' /\ OpenedFor(d)'
  <2>1. SeenRequest(d) /\ Unnoticed(d) /\ d \in Deployment /\ d[1] \in Service
    BY VersionFacts, Zenon DEF RestartInv, TypeOK, DeployType
  <2>2. Caught(d)' => Caught(d) /\ secrets'[d[1]] = secrets[d[1]]
    BY <1>1, <1>2, <2>1, CaughtBefore, Zenon
  <2>3. Unnoticed(d)'
    BY <1>2, <2>1, <2>2, Zenon DEF Unnoticed
  <2>4. OpenedFor(d)'
    BY <1>2, Zenon DEF OpenedFor, Opening, Entry, ZooKeeperEntries
  <2>5. Caught(d)' => recorded'[d[1]] = recorded[d[1]]
    <3>1. CASE d[1] # cur
      BY <1>2, <2>1, <3>1, Zenon
    <3>2. CASE d[1] = cur
      BY <1>2, <2>2, <3>2, Zenon
    <3> QED
      BY <3>1, <3>2, Zenon
  <2>6. SeenRequest(d)'
    BY <1>2, <2>1, <2>2, <2>5, Zenon DEF SeenRequest
  <2> QED
    BY <2>3, <2>4, <2>6, Zenon
<1>4. CopyServed'
  BY <1>1, <1>2, Zenon DEF CopyServed
<1> QED
  BY <1>2, <1>3, <1>4, Zenon DEF RestartInv

\* Deploy gives the Deployment the version of a copy without a request.
LEMMA DeployRestart ==
    ASSUME TypeOK, NamesAccounted, AnnotInv, RestartInv, Deploy
    PROVE  RestartInv'
<1> DEFINE h == Handled
<1>1. /\ UNCHANGED <<secrets, recorded, hashed, settled, cur, mem>>
      /\ pc = "deploy" /\ pc' \in {"policies", "status"}
  BY Zenon DEF Deploy, NextServer, memoryVars
<1>2. h \in Deployment /\ h[1] = cur /\ cur \in Services /\ cur \in Service
  BY <1>1, HandledFacts, Zenon
<1>3. ~mem[cur].refresh
  BY <1>1, Zenon DEF RestartInv, CopyServed
<1>4. /\ deployed' = deployed \cup {h}
      /\ \A d \in Deployment \ {h} : annotated'[d] = annotated[d]
      /\ annotated'[h][cur] = mem[cur].rv
      /\ \/ UNCHANGED restarted /\ h \in deployed /\ annotated'[h] = annotated[h]
         \/ restarted' = restarted \cup {h}
  BY DeployEffect, Zenon
<1> HIDE DEF h
<1>5. ASSUME NEW d \in deployed'
      PROVE  d \in Deployment /\ (d \in deployed \/ d = h)
  BY <1>2, <1>4, Zenon DEF TypeOK, DeployType
<1>6. ASSUME NEW d \in deployed', d[1] = cur, Caught(d)'
      PROVE  ~secrets[cur].refresh
  <2>1. CASE d = h
    <3>1. mem[cur].rv # 0 /\ mem[cur].rv = secrets[cur].rv
      BY <1>1, <1>4, <1>6, <2>1, Zenon DEF Caught
    <3> QED
      BY <1>2, <1>3, <3>1, Zenon DEF NamesAccounted, CopyInv, Fresh
  <2>2. CASE d # h
    <3>1. Caught(d)
      BY <1>1, <1>4, <1>5, <1>6, <2>2, Zenon DEF Caught
    <3>2. mem[cur] = secrets[cur]
      BY <1>1, <1>5, <1>6, <3>1, CurCaught, Zenon
    <3> QED
      BY <1>3, <3>2, Zenon
  <2> QED
    BY <2>1, <2>2, Zenon
<1>7. ASSUME NEW d \in deployed'
      PROVE  /\ d[1] \in Services
             /\ d[1] = "monitoring" => d \in restarted'
             /\ SeenRequest(d)' /\ Unnoticed(d)' /\ OpenedFor(d)'
  <2>1. d \in deployed => /\ d[1] \in Services /\ (d[1] = "monitoring" => d \in restarted)
                          /\ SeenRequest(d) /\ Unnoticed(d) /\ OpenedFor(d)
    BY Zenon DEF RestartInv
  <2>2. d[1] \in Services /\ (d[1] = "monitoring" => d \in restarted')
    BY <1>2, <1>4, <1>5, <2>1, Zenon
  <2>3. d \notin restarted' => d \in deployed /\ d \notin restarted /\ annotated'[d] = annotated[d]
    BY <1>4, <1>5, Zenon
  <2>4. Unnoticed(d)'
    BY <1>1, <2>1, <2>3, Zenon DEF Unnoticed, Caught
  <2>5. SeenRequest(d)'
    <3>1. CASE d[1] = cur
      BY <1>1, <1>6, <3>1, Zenon DEF SeenRequest
    <3>2. CASE d[1] # cur
      BY <1>1, <1>2, <1>4, <1>5, <2>1, <3>2, Zenon DEF SeenRequest, Caught
    <3> QED
      BY <3>1, <3>2, Zenon
  <2>6. OpenedFor(d)'
    BY <1>1, <1>6, Zenon DEF OpenedFor
  <2> QED
    BY <2>2, <2>4, <2>5, <2>6, Zenon
<1>8. CopyServed'
  BY <1>1, <1>3, Zenon DEF CopyServed
<1> QED
  BY <1>7, <1>8, Zenon DEF RestartInv

\* Annotate gives the Deployment the version of the copy, and records that version.
LEMMA AnnotateRestart ==
    ASSUME TypeOK, NamesAccounted, AnnotInv, RestartInv, Annotate
    PROVE  RestartInv'
<1> DEFINE h == Handled
<1>1. /\ UNCHANGED <<secrets, settled>> /\ pc = "annotate"
      /\ \/ UNCHANGED <<recorded, hashed, pc, cur, mem>>
         \/ /\ recorded' = [s \in Service |-> IF s \in Watched(cur) /\ mem[s].rv # 0
                                              THEN mem[s].rv ELSE recorded[s]]
            /\ hashed' = hashed \cup {cur}
            /\ pc' \in {"finish", "watch"}
  BY Zenon DEF Annotate
<1>2. /\ h \in Deployment /\ h[1] = cur /\ cur \in Service /\ cur \in Watched(cur)
      /\ pc \notin {"idle", "finish", "watch"}
  BY <1>1, HandledFacts, Zenon
<1>3. /\ UNCHANGED deployed
      /\ \A d \in Deployment \ {h} : annotated'[d] = annotated[d]
      /\ mem[cur].rv # 0 /\ h \in deployed => annotated'[h][cur] = mem[cur].rv
      /\ \/ UNCHANGED <<restarted, annotated>>
         \/ h \in deployed /\ restarted' = restarted \cup {h}
  BY AnnotateEffect, Zenon
<1> HIDE DEF h
<1>4. \/ ~mem[cur].refresh
      \/ settled /\ cur \in hashed /\ recorded[cur] = mem[cur].rv
  BY <1>1, Zenon DEF RestartInv, CopyServed
<1>5. ASSUME NEW d \in deployed, d[1] = cur, Caught(d)'
      PROVE  mem[cur] = secrets[cur] /\ mem[cur].rv # 0
  <2>1. d \in Deployment
    BY Zenon DEF TypeOK, DeployType
  <2>2. mem[cur].rv # 0
    BY <1>1, <1>2, <1>5, Zenon DEF NamesAccounted, CallInv, Caught
  <2>3. CASE d = h
    <3>1. mem[cur].rv = secrets[cur].rv
      BY <1>1, <1>3, <1>5, <2>2, <2>3, Zenon DEF Caught
    <3> QED
      BY <1>2, <2>2, <3>1, Zenon DEF NamesAccounted, CopyInv, Fresh
  <2>4. CASE d # h
    <3>1. Caught(d)
      BY <1>1, <1>3, <1>5, <2>1, <2>4, Zenon DEF Caught
    <3> QED
      BY <1>2, <1>5, <2>1, <3>1, CurCaught, Zenon
  <2> QED
    BY <2>3, <2>4, Zenon
<1>6. mem[cur].rv # 0 /\ recorded[cur] = mem[cur].rv => recorded'[cur] = mem[cur].rv
  BY <1>1, <1>2, Zenon
<1>7. \A s \in Service \ {cur} : s \in hashed' <=> s \in hashed
  BY <1>1, Zenon
<1>8. ASSUME NEW s \in Service, s # cur
      PROVE  recorded'[s] = recorded[s] \/ (mem[s].rv # 0 /\ recorded'[s] = mem[s].rv)
  BY <1>1, Zenon
<1>9. ASSUME NEW d \in deployed
      PROVE  /\ d[1] \in Services
             /\ d[1] = "monitoring" => d \in restarted'
             /\ SeenRequest(d)' /\ Unnoticed(d)' /\ OpenedFor(d)'
  <2>1. /\ d[1] \in Services /\ (d[1] = "monitoring" => d \in restarted)
        /\ SeenRequest(d) /\ Unnoticed(d) /\ d \in Deployment /\ d[1] \in Service
    BY VersionFacts, Zenon DEF RestartInv, TypeOK, DeployType
  <2>2. d[1] = "monitoring" => d \in restarted'
    BY <1>3, <2>1, Zenon
  <2>3. OpenedFor(d)'
    BY <1>1, Zenon DEF OpenedFor, Opening, Entry, ZooKeeperEntries
  <2>4. CASE d[1] = cur
    <3>1. SeenRequest(d)'
      <4> SUFFICES ASSUME Caught(d)', secrets[cur].refresh
                   PROVE  settled /\ recorded'[cur] = secrets[cur].rv
        BY <1>1, <2>4, Zenon DEF SeenRequest
      <4> QED
        BY <1>4, <1>5, <1>6, <2>4, Zenon
    <3>2. ASSUME Caught(d)', d \notin restarted'
          PROVE  FALSE
      <4>1. d \notin restarted /\ annotated'[d] = annotated[d]
        BY <1>3, <2>1, <3>2, Zenon
      <4>2. Caught(d)
        BY <1>1, <3>2, <4>1, Zenon DEF Caught
      <4>3. secrets[cur].refresh /\ cur \notin hashed
        BY <2>1, <2>4, <4>1, <4>2, Zenon DEF Unnoticed
      <4> QED
        BY <1>4, <1>5, <2>4, <3>2, <4>3, Zenon
    <3> QED
      BY <2>1, <2>2, <2>3, <3>1, <3>2, Zenon DEF Unnoticed
  <2>5. CASE d[1] # cur
    <3>1. annotated'[d] = annotated[d] /\ (Caught(d)' <=> Caught(d))
      BY <1>1, <1>2, <1>3, <2>1, <2>5, Zenon DEF Caught
    <3>2. Unnoticed(d)'
      BY <1>1, <1>3, <1>7, <2>1, <2>5, <3>1, Zenon DEF Unnoticed
    <3>3. ASSUME Caught(d), recorded[d[1]] = secrets[d[1]].rv
          PROVE  recorded'[d[1]] = secrets[d[1]].rv
      BY <1>8, <2>1, <2>5, <3>3, CaughtFresh, Zenon
    <3>4. SeenRequest(d)'
      BY <1>1, <1>7, <2>1, <2>5, <3>1, <3>3, Zenon DEF SeenRequest
    <3> QED
      BY <2>1, <2>2, <2>3, <3>2, <3>4, Zenon
  <2> QED
    BY <2>4, <2>5, Zenon
<1>10. CopyServed'
  BY <1>1, <1>4, Zenon DEF CopyServed
<1> QED
  BY <1>3, <1>9, <1>10, Zenon DEF RestartInv

LEMMA InitRestart == Init => RestartInv
BY Zenon DEF Init, RestartInv, CopyServed

LEMMA StepRestart ==
    ASSUME TypeOK, NamesAccounted, VaultReady, MemInv, AnnotInv, RestartInv, [Next]_vars
    PROVE  RestartInv'
<1> DEFINE outside == {"idle", "watch", "watchShared", "gate", "finish"}
<1>1. ASSUME UNCHANGED <<annotated, deployed, restarted, recorded, hashed>>, settled => settled',
             \/ pc' \in outside
             \/ /\ UNCHANGED <<cur, mem, settled>>
                /\ \/ pc' = pc \/ pc' = "clean"
                   \/ pc \in Opening /\ pc' \in Opening
                   \/ pc = "status" /\ pc' = "annotate"
      PROVE  RestartInv'
  BY <1>1, StepMoves, SameRestart, Zenon
<1>2. CASE \/ Begin \/ watchSecret \/ watchSecretConflict \/ cleanSecretDataFails
           \/ CallFails \/ Finish
  <2>1. /\ UNCHANGED <<annotated, deployed, restarted, recorded, hashed>>
        /\ UNCHANGED settled \/ settled' = TRUE
    BY <1>2, Zenon DEF Begin, watchSecret, watchSecretConflict, cleanSecretDataFails,
       CallFails, Finish, deployVars, memoryVars
  <2>2. pc' \in outside
    BY <1>2, Zenon DEF Begin, watchSecret, watchSecretConflict, cleanSecretDataFails,
       CallFails, Finish, Fail, Returned
  <2> QED
    BY <1>1, <2>1, <2>2, Zenon
<1>3. CASE Gate
  BY <1>3, GateRestart, Zenon
<1>4. CASE WritePoliciesAndRoles \/ NewPasswordGenerator \/ UpdateServiceStatus
  <2>1. UNCHANGED <<annotated, deployed, restarted, recorded, hashed, settled>>
    BY <1>4, Zenon DEF WritePoliciesAndRoles, NewPasswordGenerator, UpdateServiceStatus,
       deployVars, memoryVars
  <2>2. \/ pc' = "idle"
        \/ /\ UNCHANGED <<cur, mem>>
           /\ \/ pc' = "clean" \/ (pc = "policies" /\ pc' = "generator")
              \/ pc = "generator" /\ pc' \in {"admin", "daemon"}
              \/ pc = "status" /\ pc' = "annotate"
    BY <1>4, Zenon DEF WritePoliciesAndRoles, NewPasswordGenerator, UpdateServiceStatus, Fail,
       Returned
  <2> QED
    BY <1>1, <2>1, <2>2, Zenon DEF Opening, Entry, ZooKeeperEntries
<1>5. ASSUME NEW e \in Entry, NEW next, Follows(e, next), ProcessEntry(e, next)
      PROVE  RestartInv'
  <2>1. /\ UNCHANGED <<secrets, annotated, deployed, recorded, hashed, settled>> /\ pc = e
        /\ next \in Entry \cup {"clean"}
    BY <1>5, Zenon DEF ProcessEntry, deployVars, memoryVars, Follows, Entry, ZooKeeperEntries
  <2>2. CASE UNCHANGED restarted /\ (pc' = "idle" \/ (pc' = next /\ UNCHANGED <<cur, mem>>))
    BY <1>1, <2>1, <2>2, Zenon DEF Opening
  <2>3. CASE /\ vault[e].version = 0 \/ needToRefreshCredentials
             /\ WriteVaultSecret(e) /\ pc' = next /\ UNCHANGED cur
    BY <2>1, <2>3, WriteRestart, Zenon
  <2> QED
    BY <1>5, <2>2, <2>3, Zenon DEF ProcessEntry, Fail, Returned
<1>6. CASE \/ processAdminCredentials \/ processClientCredentials
           \/ processAdditionalUsersCredentials \/ processCredentials
  BY <1>5, <1>6, Zenon
  DEF processAdminCredentials, processClientCredentials, processCredentials,
      processAdditionalUsersCredentials, Entry, ZooKeeperEntries, Follows
<1>7. CASE processCredentialsPanic \/ WriteVaultSecretUnanswered
  <2>1. /\ UNCHANGED <<secrets, annotated, deployed, recorded, hashed, settled>> /\ pc' = "idle"
        /\ pc \in Entry /\ (vault[pc].version = 0 \/ needToRefreshCredentials)
        /\ WriteVaultSecret(pc)
    BY <1>7, Zenon DEF processCredentialsPanic, WriteVaultSecretUnanswered, Returned, deployVars,
                       memoryVars, Entry
  <2> QED
    BY <2>1, WriteRestart, Zenon
<1>8. CASE cleanSecretData \/ Deploy \/ Annotate
  BY <1>8, CleanRestart, DeployRestart, AnnotateRestart, Zenon
<1>9. CASE Restart
  <2>1. /\ UNCHANGED <<secrets, annotated, deployed, restarted>> /\ hashed' = {}
        /\ pc' = "idle"
    BY <1>9, Zenon DEF Restart, Returned, deployVars
  <2>2. \A d \in deployed : SeenRequest(d)' /\ Unnoticed(d)' /\ OpenedFor(d)'
    BY <2>1, Zenon DEF RestartInv, SeenRequest, Unnoticed, OpenedFor, Caught
  <2> QED
    BY <2>1, <2>2, Zenon DEF RestartInv, CopyServed
<1>10. CASE \/ DeliverStatus \/ DeliverSecrets \/ UNCHANGED vars
            \/ \E s \in EditableSecrets : UpdateSecret(s) \/ RemoveSecret(s)
  <2>1. UNCHANGED <<annotated, deployed, restarted, recorded, hashed, settled, pc, cur, mem>>
    BY <1>10, Zenon DEF DeliverStatus, DeliverSecrets, DeliverSecret, UpdateSecret, RemoveSecret,
       vars, deployVars, memoryVars, callVars
  <2> QED
    BY <1>1, <2>1, Zenon
<1> QED
  BY <1>2, <1>3, <1>4, <1>6, <1>7, <1>8, <1>9, <1>10, Zenon DEF Next, OperatorStep

-----------------------------------------------------------------------------
(* Nothing is at rest before the pods have the present secret.             *)

\* The informer has yet to deliver a change that reaches the queue.
Undelivered(s) == secrets[s].owned /\ cachedSecrets[s] # secrets[s]

\* The services that the running cycle has dealt with, or the last one.
Behind(s) == \/ pc \in {"idle", "finish"}
             \/ cur = "monitoring" /\ s = "zooKeeper"
             \/ cur = "backupDaemon" /\ s # "backupDaemon"

Found(s) == Fresh(s) \/ Undelivered(s) \/ secrets[s].rv = 0
Current(s) == \/ Undelivered(s) \/ secrets[s].rv = 0
              \/ \A d \in deployed : d[1] = s => annotated[d][s] = secrets[s].rv

HashedOwned == \A s \in hashed : secrets[s].rv = 0 \/ secrets[s].owned
LoopStarts == pc \in {"idle", "watch", "watchShared", "gate", "status", "finish"} => server = 1
LoopAnnotates == pc = "annotate" /\ mem[cur].rv # 0
                 => \A d \in deployed : d[1] = cur /\ d[2] < server
                                        => annotated[d][cur] = mem[cur].rv
CopyFound == ~queued /\ pc \notin {"idle", "finish", "watch"} /\ mem[cur].rv # 0 => Found(cur)
BehindCurrent == ~queued => \A s \in Services : Behind(s) => s \in hashed /\ Current(s)

\* The inductive invariant: with no cycle queued, a service that has been dealt with
\* has its Deployments annotated with the secret as it is, unless the change since
\* then is still to be delivered, and will queue a cycle.
CatchInv == HashedOwned /\ LoopStarts /\ LoopAnnotates /\ CopyFound /\ BehindCurrent

\* A secret of which the operator is the owner does not change without an event.
LEMMA ChangeNoticed ==
    ASSUME TypeOK, TypeOK', MemInv, NEW s \in Service, SecretMoves(s),
           cachedSecrets'[s] = cachedSecrets[s], secrets[s].rv = 0 \/ secrets[s].owned
    PROVE  secrets'[s] = secrets[s] \/ secrets'[s].rv = 0 \/ Undelivered(s)'
<1> SUFFICES ASSUME /\ secrets[s].rv # 0 /\ secrets'[s].rv = secrets[s].rv + 1
                    /\ secrets[s].owned => secrets'[s].owned
             PROVE  Undelivered(s)'
  BY Zenon DEF SecretMoves
<1>1. /\ cachedSecrets[s].rv \in Nat /\ secrets[s].rv \in Nat
      /\ cachedSecrets[s].rv <= secrets[s].rv
  BY Zenon DEF TypeOK, CacheType, StoreType, SecretObject, MemInv, CopyOK
<1>2. cachedSecrets[s].rv # secrets[s].rv + 1
  BY <1>1
<1>3. cachedSecrets'[s].rv # secrets'[s].rv
  BY <1>2, Zenon
<1> QED
  BY <1>3, Zenon DEF Undelivered

LEMMA HashedMoves ==
    ASSUME TypeOK, HashedOwned, \A s \in Service : SecretMoves(s), hashed' \subseteq hashed
    PROVE  HashedOwned'
BY Zenon DEF HashedOwned, SecretMoves, TypeOK, MemoryType

\* The Deployments of a service are left alone.
Kept(s) == \A d \in deployed' : d[1] = s => d \in deployed /\ annotated'[d] = annotated[d]

LEMMA CurrentStays ==
    ASSUME TypeOK, TypeOK', MemInv, HashedOwned, NEW s \in hashed, SecretMoves(s),
           cachedSecrets'[s] = cachedSecrets[s], Kept(s), Current(s)
    PROVE  Current(s)'
<1>1. s \in Service
  BY Zenon DEF TypeOK, MemoryType
<1>2. secrets'[s] = secrets[s] \/ secrets'[s].rv = 0 \/ Undelivered(s)'
  BY <1>1, ChangeNoticed, Zenon DEF HashedOwned
<1>3. CASE secrets'[s] = secrets[s]
  BY <1>3, Zenon DEF Current, Undelivered, Kept
<1> QED
  BY <1>2, <1>3, Zenon DEF Current

\* A call ends and is retried.
LEMMA RetryCatch ==
    ASSUME TypeOK, CatchInv, \A s \in Service : SecretMoves(s), hashed' \subseteq hashed,
           queued', pc' = "idle", server' = 1
    PROVE  CatchInv'
<1>1. HashedOwned'
  BY HashedMoves, Zenon DEF CatchInv
<1> QED
  BY <1>1, Zenon DEF CatchInv, LoopStarts, LoopAnnotates, CopyFound, BehindCurrent

\* A step that delivers no secret and records no hash.
LEMMA SameCatch ==
    ASSUME TypeOK, TypeOK', MemInv, CatchInv,
           \A s \in Service : SecretMoves(s) /\ CopyMoves(s),
           UNCHANGED <<cachedSecrets, hashed, queued>>,
           \A s \in Services : Behind(s)' => Behind(s) /\ Kept(s),
           LoopStarts', LoopAnnotates',
           pc' \in {"idle", "finish", "watch"} \/ (UNCHANGED cur /\ pc \notin {"idle", "finish"})
    PROVE  CatchInv'
<1>1. HashedOwned'
  BY HashedMoves, Zenon DEF CatchInv
<1>2. BehindCurrent'
  <2> SUFFICES ASSUME ~queued, NEW s \in Services, Behind(s)'
               PROVE  s \in hashed /\ Current(s)'
    BY Zenon DEF BehindCurrent
  <2>1. s \in hashed /\ Current(s) /\ Kept(s)
    BY Zenon DEF CatchInv, BehindCurrent
  <2> QED
    BY <2>1, CurrentStays, ServicesAssumption, Zenon DEF CatchInv
<1>3. CopyFound'
  <2> SUFFICES ASSUME ~queued, pc' \notin {"idle", "finish", "watch"}, mem'[cur'].rv # 0
               PROVE  Found(cur)'
    BY Zenon DEF CopyFound
  <2>1. UNCHANGED cur /\ pc \notin {"idle", "finish"} /\ cur \in Service
    BY HandledFacts, Zenon
  <2>2. CASE secrets'[cur].rv # 0 /\ mem'[cur] = secrets'[cur]
    BY <2>1, <2>2, Zenon DEF Found, Fresh
  <2>3. CASE mem'[cur] = mem[cur]
    <3>1. mem[cur].rv # 0
      BY <2>1, <2>3, Zenon
    <3>2. pc # "watch" /\ secrets[cur].owned
      BY <2>1, <3>1, NoSecretFacts, Zenon DEF MemInv, CopyOK
    <3>3. Found(cur)
      BY <2>1, <3>1, <3>2, Zenon DEF CatchInv, CopyFound
    <3>4. secrets'[cur] = secrets[cur] \/ secrets'[cur].rv = 0 \/ Undelivered(cur)'
      BY <2>1, <3>2, ChangeNoticed, Zenon
    <3> QED
      BY <2>1, <2>3, <3>3, <3>4, Zenon DEF Found, Fresh, Undelivered
  <2>4. CASE mem'[cur] = NoSecret
    BY <2>1, <2>4, NoSecretFacts, Zenon
  <2> QED
    BY <2>1, <2>2, <2>3, <2>4, Zenon DEF CopyMoves
<1> QED
  BY <1>1, <1>2, <1>3, Zenon DEF CatchInv

\* The informer delivers a secret: of one that is not owned nothing is expected.
LEMMA DeliverCatch ==
    ASSUME TypeOK, CatchInv, MemInv, NEW s \in Service, DeliverSecret(s)
    PROVE  CatchInv'
<1>1. /\ UNCHANGED <<secrets, deployed, annotated, hashed, pc, cur, server, mem>>
      /\ queued' = (queued \/ secrets[s].owned)
      /\ \A u \in Service \ {s} : cachedSecrets'[u] = cachedSecrets[u]
  BY Zenon DEF DeliverSecret, deployVars, memoryVars, callVars, TypeOK, CacheType
<1>2. ~queued' => ~queued /\ ~secrets[s].owned
  BY <1>1, Zenon
<1>3. HashedOwned' /\ LoopStarts' /\ LoopAnnotates'
  BY <1>1, Zenon DEF CatchInv, HashedOwned, LoopStarts, LoopAnnotates
<1>4. ASSUME ~queued', NEW u \in Service, Undelivered(u)
      PROVE  Undelivered(u)'
  BY <1>1, <1>2, <1>4, Zenon DEF Undelivered
<1>5. CopyFound'
  <2> SUFFICES ASSUME ~queued', pc \notin {"idle", "finish", "watch"}, mem[cur].rv # 0
               PROVE  Found(cur)'
    BY <1>1, Zenon DEF CopyFound
  <2>1. Found(cur) /\ cur \in Service
    BY <1>2, HandledFacts, Zenon DEF CatchInv, CopyFound
  <2> QED
    BY <1>1, <1>4, <2>1, Zenon DEF Found, Fresh
<1>6. BehindCurrent'
  <2> SUFFICES ASSUME ~queued', NEW u \in Services, Behind(u)
               PROVE  u \in hashed /\ Current(u)'
    BY <1>1, Zenon DEF BehindCurrent, Behind
  <2>1. u \in hashed /\ Current(u) /\ u \in Service
    BY <1>2, ServicesAssumption, Zenon DEF CatchInv, BehindCurrent
  <2> QED
    BY <1>1, <1>4, <2>1, Zenon DEF Current
<1> QED
  BY <1>3, <1>5, <1>6, Zenon DEF CatchInv

\* The loop's service is not behind it.
LEMMA CurAhead ==
    ASSUME pc \notin {"idle", "finish"}
    PROVE  ~Behind(cur) /\ ~Behind("backupDaemon")
BY Zenon DEF Behind

\* The order of the services.
LEMMA AfterBehind ==
    ASSUME NEW s \in Services, cur \in Services,
           \/ pc' = "finish" /\ After(cur) = "none"
           \/ pc' = "watch" /\ cur' = After(cur) /\ After(cur) # "none",
           Behind(s)'
    PROVE  s = cur \/ Behind(s)
<1>1. s \in {"zooKeeper", "monitoring", "backupDaemon"}
      /\ cur \in {"zooKeeper", "monitoring", "backupDaemon"}
  BY ServicesAssumption, Zenon DEF Service
<1>2. CASE cur = "zooKeeper"
  BY <1>1, <1>2, Zenon DEF After, Behind
<1>3. CASE cur = "monitoring"
  BY <1>1, <1>3, Zenon DEF After, Behind
<1>4. CASE cur = "backupDaemon"
  BY <1>1, <1>4, Zenon DEF After, Behind
<1> QED
  BY <1>1, <1>2, <1>3, <1>4, Zenon

\* Once the handled Deployment is annotated, so are all up to it.
LEMMA AnnotatedSoFar ==
    ASSUME TypeOK, CatchInv, Annotate, mem[cur].rv # 0,
           NEW d \in deployed, d[1] = cur, d[2] < server + 1
    PROVE  annotated'[d][cur] = mem[cur].rv
<1>1. /\ d \in Deployment /\ pc = "annotate" /\ server \in 1..Units(cur)
  BY Zenon DEF TypeOK, DeployType, CallType, Annotate
<1>2. d = Handled \/ d[2] < server
  <2>1. server \in Nat
    BY <1>1, ServersAssumption DEF Units
  <2>2. d = <<d[1], d[2]>> /\ d[2] \in Nat
    BY <1>1 DEF Deployment
  <2>3. d[2] = server \/ d[2] < server
    BY <2>1, <2>2
  <2> QED
    BY <2>2, <2>3, Zenon DEF Handled
<1>3. CASE d = Handled
  BY <1>3, AnnotateEffect, Zenon
<1>4. CASE d # Handled /\ d[2] < server
  <2>1. annotated[d][cur] = mem[cur].rv
    BY <1>1, <1>4, Zenon DEF CatchInv, LoopAnnotates
  <2> QED
    BY <1>1, <1>4, <2>1, AnnotateEffect, Zenon
<1> QED
  BY <1>2, <1>3, <1>4, Zenon

LEMMA AnnotateCatch ==
    ASSUME TypeOK, TypeOK', NamesAccounted, MemInv, CatchInv,
           \A s \in Service : SecretMoves(s) /\ CopyMoves(s), Annotate
    PROVE  CatchInv'
<1>1. /\ UNCHANGED <<secrets, cachedSecrets, queued, deployed>> /\ pc = "annotate"
      /\ cur \in Services /\ cur \in Service /\ Handled[1] = cur
      /\ server \in 1..Units(cur)
  BY HandledFacts, Zenon DEF Annotate, cacheVars, TypeOK, CallType
<1>2. \A d \in deployed \ {Handled} : annotated'[d] = annotated[d]
  BY AnnotateEffect, Zenon DEF TypeOK, DeployType
<1>3. ASSUME NEW s, s # cur
      PROVE  Kept(s)
  BY <1>1, <1>2, <1>3, Zenon DEF Kept
<1>4. CASE server' = server + 1 /\ UNCHANGED <<recorded, hashed, pc, cur, mem>>
  <2>1. LoopAnnotates'
    BY <1>1, <1>4, AnnotatedSoFar, Zenon DEF LoopAnnotates
  <2>2. LoopStarts'
    BY <1>1, <1>4, Zenon DEF LoopStarts
  <2>3. \A s \in Services : Behind(s)' => Behind(s) /\ Kept(s)
    BY <1>1, <1>3, <1>4, CurAhead, Zenon DEF Behind
  <2> QED
    BY <1>1, <1>4, <2>1, <2>2, <2>3, SameCatch, Zenon
<1>5. CASE /\ ~(server < Units(cur))
           /\ hashed' = hashed \cup {cur}
           /\ \/ pc' = "finish" /\ After(cur) = "none"
              \/ pc' = "watch" /\ cur' = After(cur) /\ After(cur) # "none"
           /\ server' = 1
  <2>1. LoopStarts' /\ LoopAnnotates' /\ CopyFound'
    BY <1>5, Zenon DEF LoopStarts, LoopAnnotates, CopyFound
  <2>2. secrets[cur].rv = 0 \/ (secrets[cur].owned /\ mem[cur].rv # 0)
    BY <1>1, Zenon DEF NamesAccounted, CallInv, MemInv, CopyOK
  <2>3. HashedOwned'
    BY <1>1, <1>5, <2>2, Zenon DEF CatchInv, HashedOwned
  <2>4. ASSUME ~queued, NEW s, s = cur
        PROVE  Current(s)'
    <3>1. CASE Fresh(cur)
      <4>1. \A d \in deployed : d[1] = cur => d[2] < server + 1
        <5> SUFFICES ASSUME NEW d \in deployed, d[1] = cur
                     PROVE  d[2] < server + 1
          BY Zenon
        <5>1. d[2] <= Units(cur) /\ d[2] \in Nat
          BY DEF TypeOK, DeployType, Deployment
        <5>2. server = Units(cur) /\ server \in Nat
          BY <1>1, <1>5, ServersAssumption DEF Units
        <5> QED
          BY <5>1, <5>2
      <4>2. \A d \in deployed : d[1] = cur => annotated'[d][cur] = mem[cur].rv
        BY <3>1, <4>1, AnnotatedSoFar, Zenon DEF Fresh
      <4> QED
        BY <1>1, <2>4, <3>1, <4>2, Zenon DEF Current, Fresh
    <3>2. CASE Undelivered(cur) \/ secrets[cur].rv = 0
      BY <1>1, <2>4, <3>2, Zenon DEF Current, Undelivered
    <3> QED
      BY <1>1, <2>2, <2>4, <3>1, <3>2, Zenon DEF CatchInv, CopyFound, Found
  <2>5. BehindCurrent'
    <3> SUFFICES ASSUME ~queued, NEW s \in Services, Behind(s)'
                 PROVE  s \in hashed' /\ Current(s)'
      BY <1>1, Zenon DEF BehindCurrent
    <3>1. CASE s = cur
      <4>1. cur \in hashed'
        BY <1>5, Zenon
      <4> QED
        BY <2>4, <3>1, <4>1, Zenon
    <3>2. CASE s # cur
      <4>1. s \in hashed /\ Current(s)
        BY <1>1, <1>5, <3>2, AfterBehind, Zenon DEF CatchInv, BehindCurrent
      <4>2. Current(s)'
        BY <1>1, <1>3, <3>2, <4>1, CurrentStays, ServicesAssumption, Zenon DEF CatchInv
      <4> QED
        BY <1>5, <4>1, <4>2, Zenon
    <3> QED
      BY <3>1, <3>2, Zenon
  <2> QED
    BY <2>1, <2>3, <2>5, Zenon DEF CatchInv
<1> QED
  BY <1>4, <1>5, Zenon DEF Annotate

LEMMA DeployCatch ==
    ASSUME TypeOK, TypeOK', MemInv, CatchInv,
           \A s \in Service : SecretMoves(s) /\ CopyMoves(s), Deploy
    PROVE  CatchInv'
<1>1. /\ UNCHANGED <<cachedSecrets, queued, hashed, cur>> /\ pc = "deploy"
      /\ pc' = "policies" \/ (pc' = "status" /\ server' = 1)
  BY Zenon DEF Deploy, NextServer, cacheVars, memoryVars
<1>2. Handled[1] = cur
  BY <1>1, HandledFacts, Zenon
<1>3. LoopStarts' /\ LoopAnnotates'
  BY <1>1, Zenon DEF LoopStarts, LoopAnnotates
<1>4. ASSUME NEW s \in Services, Behind(s)'
      PROVE  Behind(s) /\ Kept(s)
  <2>1. Behind(s) /\ s # cur
    BY <1>1, <1>4, CurAhead, Zenon DEF Behind
  <2> QED
    BY <1>2, <2>1, DeployEffect, Zenon DEF Kept, TypeOK, DeployType
<1> QED
  BY <1>1, <1>3, <1>4, SameCatch, Zenon

LEMMA InitCatch == Init => CatchInv
BY Zenon DEF Init, CatchInv, HashedOwned, LoopStarts, LoopAnnotates, CopyFound, BehindCurrent

LEMMA StepCatch ==
    ASSUME TypeOK, TypeOK', NamesAccounted, MemInv, CatchInv, [Next]_vars
    PROVE  CatchInv'
<1>1. \A s \in Service : SecretMoves(s) /\ CopyMoves(s)
  BY StepMoves, Zenon
\* The call stays with its service, outside the loop over the annotations.
<1>2. ASSUME UNCHANGED <<cachedSecrets, hashed, queued, annotated, deployed, cur, server>>,
             pc \notin {"idle", "finish"}, pc' \notin {"idle", "finish", "status"},
             pc' \in {"watchShared", "gate"} => pc \in {"watch", "watchShared"},
             pc' # "watch",
             pc' = "annotate" => pc \in {"gate", "status"}
      PROVE  CatchInv'
  <2>1. LoopStarts'
    BY <1>2, Zenon DEF LoopStarts, CatchInv
  <2>2. LoopAnnotates'
    <3> SUFFICES ASSUME pc' = "annotate", NEW d \in deployed, d[2] < server
                 PROVE  FALSE
      BY <1>2, Zenon DEF LoopAnnotates
    <3>1. server = 1
      BY <1>2, Zenon DEF LoopStarts, CatchInv
    <3>2. d[2] \in 1..Servers
      BY Zenon DEF TypeOK, DeployType, Deployment
    <3> QED
      BY <3>1, <3>2, ServersAssumption
  <2>3. \A s \in Services : Behind(s)' => Behind(s) /\ Kept(s)
    BY <1>2, Zenon DEF Behind, Kept
  <2> QED
    BY <1>1, <1>2, <2>1, <2>2, <2>3, SameCatch, Zenon
<1>3. ASSUME queued', hashed' \subseteq hashed, Returned
      PROVE  CatchInv'
  BY <1>1, <1>3, RetryCatch, Zenon DEF Returned
<1>4. CASE Begin
  <2>1. /\ pc = "idle" /\ pc' = "watch" /\ cur' = "zooKeeper"
        /\ UNCHANGED <<secrets, hashed, server>>
    BY <1>4, Zenon DEF Begin, After, memoryVars
  <2>2. HashedOwned'
    BY <2>1, Zenon DEF CatchInv, HashedOwned
  <2>3. LoopStarts'
    BY <2>1, Zenon DEF CatchInv, LoopStarts
  <2>4. BehindCurrent'
    BY <2>1, Zenon DEF BehindCurrent, Behind
  <2> QED
    BY <2>1, <2>2, <2>3, <2>4, Zenon DEF CatchInv, LoopAnnotates, CopyFound
<1>5. CASE watchSecret \/ Gate \/ NewPasswordGenerator \/ cleanSecretData
  <2>1. UNCHANGED <<cachedSecrets, hashed, queued, annotated, deployed, cur, server>>
    BY <1>5, Zenon DEF watchSecret, Gate, NewPasswordGenerator, cleanSecretData, cacheVars,
                       memoryVars, deployVars
  <2>2. \/ pc \in {"watch", "watchShared"} /\ pc' \in {"watchShared", "gate"}
        \/ pc = "gate" /\ pc' \in {"policies", "annotate"}
        \/ pc = "generator" /\ pc' \in {"admin", "daemon"}
        \/ pc = "clean" /\ pc' = "deploy"
    BY <1>5, Zenon DEF watchSecret, Gate, NewPasswordGenerator, cleanSecretData
  <2> QED
    BY <1>2, <2>1, <2>2, Zenon
<1>6. CASE watchSecretConflict \/ cleanSecretDataFails \/ processCredentialsPanic
           \/ WriteVaultSecretUnanswered \/ CallFails \/ Restart
  BY <1>3, <1>6, Zenon DEF watchSecretConflict, cleanSecretDataFails, processCredentialsPanic,
     WriteVaultSecretUnanswered, CallFails, Restart, Fail, memoryVars
<1>7. CASE WritePoliciesAndRoles \/ UpdateServiceStatus
  <2>1. UNCHANGED <<annotated, deployed, hashed>>
    BY <1>7, Zenon DEF WritePoliciesAndRoles, UpdateServiceStatus, memoryVars, deployVars
  <2>2. CASE \E outage \in BOOLEAN : Fail(outage)
    BY <1>3, <2>1, <2>2, Zenon DEF Fail
  <2>3. CASE /\ UNCHANGED <<cachedSecrets, queued, cur, server>>
             /\ \/ pc = "policies" /\ pc' \in {"clean", "generator"}
                \/ pc = "status" /\ pc' = "annotate"
    BY <1>2, <2>1, <2>3, Zenon
  <2> QED
    BY <1>7, <2>2, <2>3, Zenon DEF WritePoliciesAndRoles, UpdateServiceStatus, cacheVars
<1>8. ASSUME NEW e \in Entry, NEW next, Follows(e, next), ProcessEntry(e, next)
      PROVE  CatchInv'
  <2>1. UNCHANGED <<annotated, deployed, hashed>> /\ pc = e /\ next \in Entry \cup {"clean"}
    BY <1>8, Zenon DEF ProcessEntry, deployVars, memoryVars, Follows, Entry, ZooKeeperEntries
  <2>2. CASE Fail(FALSE)
    BY <1>3, <2>1, <2>2, Zenon DEF Fail
  <2>3. CASE UNCHANGED <<cachedSecrets, queued, cur, server>> /\ pc' = next
    BY <1>2, <2>1, <2>3, Zenon DEF Entry, ZooKeeperEntries
  <2> QED
    BY <1>8, <2>2, <2>3, Zenon DEF ProcessEntry, cacheVars
<1>9. CASE \/ processAdminCredentials \/ processClientCredentials
           \/ processAdditionalUsersCredentials \/ processCredentials
  BY <1>8, <1>9, Zenon
  DEF processAdminCredentials, processClientCredentials, processCredentials,
      processAdditionalUsersCredentials, Entry, ZooKeeperEntries, Follows
<1>10. CASE Deploy \/ Annotate
  BY <1>1, <1>10, DeployCatch, AnnotateCatch, Zenon
<1>11. CASE Finish
  <2>1. /\ UNCHANGED <<cachedSecrets, hashed, queued, annotated, deployed>>
        /\ pc = "finish" /\ pc' = "idle" /\ server' = 1
    BY <1>11, Zenon DEF Finish, Returned, deployVars
  <2>2. LoopStarts' /\ LoopAnnotates'
    BY <2>1, Zenon DEF LoopStarts, LoopAnnotates
  <2>3. \A s \in Services : Behind(s)' => Behind(s) /\ Kept(s)
    BY <2>1, Zenon DEF Behind, Kept
  <2> QED
    BY <1>1, <2>1, <2>2, <2>3, SameCatch, Zenon
<1>12. CASE \/ DeliverStatus \/ UNCHANGED vars
            \/ \E s \in EditableSecrets : UpdateSecret(s) \/ RemoveSecret(s)
  <2>1. UNCHANGED <<cachedSecrets, hashed, queued, annotated, deployed, pc, cur, server, mem>>
    BY <1>12, Zenon DEF DeliverStatus, UpdateSecret, RemoveSecret, vars, cacheVars, memoryVars,
                        deployVars, callVars
  <2>2. LoopStarts' /\ LoopAnnotates'
    BY <2>1, Zenon DEF CatchInv, LoopStarts, LoopAnnotates
  <2>3. \A s \in Services : Behind(s)' => Behind(s) /\ Kept(s)
    BY <2>1, Zenon DEF Behind, Kept
  <2>4. CASE pc \notin {"idle", "finish"}
    BY <1>1, <2>1, <2>2, <2>3, <2>4, SameCatch, Zenon
  <2>5. CASE pc \in {"idle", "finish"}
    BY <1>1, <2>1, <2>2, <2>3, <2>5, SameCatch, Zenon
  <2> QED
    BY <2>4, <2>5, Zenon
<1>13. CASE DeliverSecrets
  BY <1>13, DeliverCatch, Zenon DEF DeliverSecrets
<1> QED
  BY <1>4, <1>5, <1>6, <1>7, <1>9, <1>10, <1>11, <1>12, <1>13, Zenon DEF Next, OperatorStep

\* At rest the pods of every Deployment were replaced after the last rotation of their
\* service's credentials: a cycle that rotated them and was cut short leaves the
\* request, a version that the Deployment lacks, or a queued retry behind it.
THEOREM PodsReplaced == Spec => []RestartedAfterRotation
<1> DEFINE Inv == VaultReady /\ MemInv /\ AnnotInv /\ RestartInv /\ CatchInv
<1>1. Init => Inv
  BY InitReady, InitMem, InitAnnot, InitRestart, InitCatch, Zenon
<1>2. TypeOK /\ TypeOK' /\ NamesAccounted /\ Inv /\ [Next]_vars => Inv'
  BY StepReady, StepMem, StepAnnot, StepRestart, StepCatch, Zenon
<1>3. TypeOK /\ Inv => RestartedAfterRotation
  <2> SUFFICES ASSUME TypeOK, Inv, AtRest, NEW d \in deployed, secrets[d[1]].rv # 0,
                      d \notin restarted
               PROVE  FALSE
    BY Zenon DEF RestartedAfterRotation
  <2>1. d[1] \in Services /\ Behind(d[1])
    BY Zenon DEF RestartInv, AtRest, Behind
  <2>2. d[1] \in hashed /\ Current(d[1])
    BY <2>1, Zenon DEF CatchInv, BehindCurrent, AtRest
  <2>3. Caught(d)
    BY <2>2, Zenon DEF Current, Undelivered, AtRest, Caught
  <2> QED
    BY <2>2, <2>3, Zenon DEF RestartInv, Unnoticed
<1>4. Spec => []TypeOK /\ []NamesAccounted
  BY TypeCorrect, NamesAlwaysAccounted
<1> QED
  BY <1>1, <1>2, <1>3, <1>4, PTL DEF Spec
=============================================================================
