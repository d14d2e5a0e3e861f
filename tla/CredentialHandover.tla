-------------------------- MODULE CredentialHandover --------------------------
(***************************************************************************)
(* What the operator promises for user names when Vault manages secrets.   *)
(* Users hand names over in Kubernetes secrets; the operator keeps them in *)
(* Vault and empties the secrets.  A name that a user asked for is in one  *)
(* of the two places until the user supplies something else.               *)
(***************************************************************************)
EXTENDS Naturals, TLAPS

CONSTANTS
    Owners,     \* the secrets
    Owned       \* Owned[s]: the Vault entries whose names secret s carries

VARIABLES
    given,      \* given[e]: the name for entry e in its secret (0: none)
    wanted,     \* wanted[e]: the name the user last asked for (0: none)
    kept,       \* kept[e]: the name in Vault (0: none)
    updates     \* number of updates of the secrets by users

handoverVars == <<given, wanted, kept, updates>>

Entries == UNION {Owned[s] : s \in Owners}

HandoverInit ==
    /\ given \in [Entries -> Nat]
    /\ wanted \in [Entries -> Nat]
    /\ kept \in [Entries -> Nat]
    /\ \A e \in Entries : wanted[e] \in {0, given[e]}
    /\ updates = 0

\* The user writes secret s.  For each of its names the user asks for what is now
\* given, asks for nothing, or leaves alone what was given and asked for.
Supply(s) ==
    /\ updates' = updates + 1
    /\ given' \in [Entries -> Nat]
    /\ wanted' \in [Entries -> Nat]
    /\ \A e \in Entries :
          \/ e \in Owned[s] /\ wanted'[e] \in {0, given'[e]}
          \/ wanted'[e] = wanted[e] /\ given'[e] = given[e]
    /\ UNCHANGED kept

\* The operator writes entry e.  Once the secret has been emptied, Vault holds the
\* only copy of the name, and it stays.
Keep(e) ==
    /\ kept' \in [Entries -> Nat]
    /\ \A f \in Entries \ {e} : kept'[f] = kept[f]
    /\ given[e] = 0 /\ wanted[e] # 0 => kept'[e] = wanted[e]
    /\ UNCHANGED <<given, wanted, updates>>

\* The operator empties secret s: every name that was asked for is in Vault.
Drop(s) ==
    /\ \A e \in Owned[s] : wanted[e] # 0 => kept[e] = wanted[e]
    /\ given' = [e \in Entries |-> IF e \in Owned[s] THEN 0 ELSE given[e]]
    /\ UNCHANGED <<wanted, kept, updates>>

HandoverNext ==
    \/ \E s \in Owners : Supply(s) \/ Drop(s)
    \/ \E e \in Entries : Keep(e)

HandoverSpec == HandoverInit /\ [][HandoverNext]_handoverVars

HandoverType ==
    /\ given \in [Entries -> Nat]
    /\ wanted \in [Entries -> Nat]
    /\ kept \in [Entries -> Nat]
    /\ updates \in Nat

\* No name that a user asked for is lost on its way from the secret to Vault
\* (processAdminCredentials and its siblings, cleanSecretData).
NothingLost ==
    \A e \in Entries : wanted[e] # 0 => given[e] = wanted[e] \/ kept[e] = wanted[e]

\* The name is in the secret, or the secret is empty and the name is in Vault.
Accounted ==
    \A e \in Entries : wanted[e] # 0 =>
       /\ given[e] # 0 => given[e] = wanted[e]
       /\ given[e] = 0 => kept[e] = wanted[e]

-----------------------------------------------------------------------------

\* Every step keeps names accounted for: Supply asks only for what it gives, Keep
\* changes no name whose secret is empty, Drop empties what Vault has.
LEMMA HandoverStep ==
    ASSUME HandoverType, Accounted, [HandoverNext]_handoverVars
    PROVE  HandoverType' /\ Accounted'
<1>1. ASSUME NEW s \in Owners, Supply(s)
      PROVE  HandoverType' /\ Accounted'
  <2>1. HandoverType'
    BY <1>1 DEF Supply, HandoverType
  <2>2. Accounted'
    BY <1>1 DEF Supply, HandoverType, Accounted
  <2> QED
    BY <2>1, <2>2
<1>2. ASSUME NEW s \in Owners, Drop(s)
      PROVE  HandoverType' /\ Accounted'
  BY <1>2 DEF Drop, HandoverType, Accounted
<1>3. ASSUME NEW e \in Entries, Keep(e)
      PROVE  HandoverType' /\ Accounted'
  <2>1. HandoverType'
    BY <1>3 DEF Keep, HandoverType
  <2>2. Accounted'
    BY <1>3 DEF Keep, HandoverType, Accounted
  <2> QED
    BY <2>1, <2>2
<1>4. ASSUME UNCHANGED handoverVars
      PROVE  HandoverType' /\ Accounted'
  BY <1>4 DEF handoverVars, HandoverType, Accounted
<1> QED
  BY <1>1, <1>2, <1>3, <1>4 DEF HandoverNext

\* An operator that takes only these steps never loses a name: what is to be shown of
\* the reconcilers is that they take no other.
THEOREM NamesSurvive == HandoverSpec => []NothingLost
<1>1. HandoverInit => HandoverType /\ Accounted
  BY DEF HandoverInit, HandoverType, Accounted
<1>2. HandoverType /\ Accounted /\ [HandoverNext]_handoverVars
      => HandoverType' /\ Accounted'
  BY HandoverStep
<1>3. HandoverType /\ Accounted => NothingLost
  BY DEF HandoverType, Accounted, NothingLost
<1> QED
  BY <1>1, <1>2, <1>3, PTL DEF HandoverSpec
=============================================================================
