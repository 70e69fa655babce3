------------------------ MODULE NomadCluster_proofs ------------------------
(***************************************************************************)
(* Proofs about NomadCluster, for every value of its constants.            *)
(***************************************************************************)
EXTENDS NomadCluster, TLAPS

-----------------------------------------------------------------------------
(* The initial values and every update of a status have their types.       *)
LEMMA InitialValues ==
    /\ NewStatus \in Status
    /\ NoCR \in CR /\ NoCR.life = 0 /\ NoCR.st = NewStatus
    /\ NoSecret \in Secret
<1>1. NewStatus \in Status
  BY DEF NewStatus, Status, Phase, Cond
<1>2. 0 \in 0..MaxLives
  BY ConstAssumption DEF ConstAssumption
<1>3. NoCR \in CR /\ NoCR.life = 0 /\ NoCR.st = NewStatus
  BY <1>1, <1>2 DEF NoCR, CR
<1>4. NoSecret \in Secret
  BY DEF NoSecret, Secret
<1>5. QED BY <1>1, <1>3, <1>4

LEMMA StatusUpdate ==
    ASSUME NEW st \in Status, NEW p \in Phase, NEW c \in Cond,
           NEW a \in Addr \cup {NoAddr}
    PROVE  /\ [st EXCEPT !.phase = p] \in Status
           /\ [st EXCEPT !.acl = c] \in Status
           /\ [st EXCEPT !.phase = p, !.access = c] \in Status
           /\ [st EXCEPT !.acl = c, !.phase = p] \in Status
           /\ [st EXCEPT !.addr = a, !.access = c] \in Status
<1>1. [st EXCEPT !.phase = p] \in Status                BY DEF Status
<1>2. [st EXCEPT !.acl = c] \in Status                  BY DEF Status
<1>3. [st EXCEPT !.phase = p, !.access = c] \in Status  BY DEF Status
<1>4. [st EXCEPT !.acl = c, !.phase = p] \in Status     BY DEF Status
<1>5. [st EXCEPT !.addr = a, !.access = c] \in Status   BY DEF Status
<1>6. QED BY <1>1, <1>2, <1>3, <1>4, <1>5

LEMMA SecretUpdate ==
    ASSUME NEW x \in Secret, NEW m \in BOOLEAN
    PROVE  [x EXCEPT !.marked = m] \in Secret
  BY DEF Secret

LEMMA CRUpdate ==
    ASSUME NEW c \in CR, NEW st \in Status
    PROVE  /\ [c EXCEPT !.st = st] \in CR
           /\ [c EXCEPT !.st = st].life = c.life
           /\ [c EXCEPT !.st = st].st = st
           /\ c.st \in Status /\ c.life \in 0..MaxLives
  BY DEF CR

-----------------------------------------------------------------------------
(* Every variable keeps its type: the pass never writes a status, a Secret *)
(* or an owner that the API types do not have, whatever interrupts it.     *)
THEOREM TypeCorrect == Spec => []TypeOK
<1>1. Init => TypeOK
  <2>1. 0 \in 0..MaxLives
    BY ConstAssumption DEF ConstAssumption
  <2>2. QED BY <2>1, InitialValues DEF Init, TypeOK, Kind, Step
<1>2. TypeOK /\ [Next]_vars => TypeOK'
  <2> SUFFICES ASSUME TypeOK, [Next]_vars PROVE TypeOK'
    OBVIOUS
  <2>a. /\ nc.life \in 0..MaxLives
        /\ nc.st \in Status
        /\ nc.st.addr \in Addr \cup {NoAddr}
        /\ \A st \in Status : [nc EXCEPT !.st = st] \in CR
    <3>1. nc.life \in 0..MaxLives /\ nc.st \in Status
      BY DEF TypeOK, CR
    <3>2. nc.st.addr \in Addr \cup {NoAddr}
      BY <3>1 DEF Status
    <3>3. ASSUME NEW st \in Status PROVE [nc EXCEPT !.st = st] \in CR
      BY CRUpdate DEF TypeOK
    <3>4. QED BY <3>1, <3>2, <3>3
  <2>b. \A p \in Phase, c \in Cond, a \in Addr \cup {NoAddr} :
           /\ [nc.st EXCEPT !.phase = p] \in Status
           /\ [nc.st EXCEPT !.acl = c] \in Status
           /\ [nc.st EXCEPT !.phase = p, !.access = c] \in Status
           /\ [nc.st EXCEPT !.acl = c, !.phase = p] \in Status
           /\ [nc.st EXCEPT !.addr = a, !.access = c] \in Status
    <3> TAKE p \in Phase, c \in Cond, a \in Addr \cup {NoAddr}
    <3> QED BY <2>a, StatusUpdate
  <2> USE InitialValues
      DEF TypeOK, Kind, Step, Phase, Cond, apiVars, ownVars, cacheVars,
          passVars, Goto, Leave, EndPass, Apply, SetStatus, WriteStatus
  <2>1. CASE Start           BY <2>1 DEF Start
  <2>2. CASE EnsureGossipKey BY <2>a, <2>b, <2>2 DEF EnsureGossipKey
  <2>3. ASSUME NEW ready \in BOOLEAN, CertSecretReady(ready) PROVE TypeOK'
    BY <2>a, <2>b, <2>3 DEF CertSecretReady, Provisioned
  <2>4. CASE ApplyLoadBalancer \/ ApplyGateway
    BY <2>a, <2>b, <2>4 DEF ApplyLoadBalancer, ApplyGateway
  <2>5. ASSUME NEW a \in Addr \cup {NoAddr}, ResolveAddress(a) PROVE TypeOK'
    <3>1. emitted' \in SUBSET Addr
      BY <2>5 DEF ResolveAddress, Announce
    <3>2. nc' \in CR /\ pc' \in Step /\ sec' \in Secret /\ UNCHANGED ncFresh
      BY <2>a, <2>b, <2>5 DEF ResolveAddress, NoAccess
    <3>3. QED BY <2>5, <3>1, <3>2 DEF ResolveAddress
  <2>6. CASE PersistAddress  BY <2>6 DEF PersistAddress
  <2>7. CASE ApplyConfigMap  BY <2>a, <2>b, <2>7 DEF ApplyConfigMap
  <2>8. CASE ApplyServices   BY <2>a, <2>b, <2>8 DEF ApplyServices
  <2>9. CASE ApplyRoutes     BY <2>a, <2>b, <2>9 DEF ApplyRoutes
  <2>10. CASE ApplyStatefulSet BY <2>a, <2>b, <2>10 DEF ApplyStatefulSet
  <2>11. CASE ApplyPDB       BY <2>a, <2>b, <2>11 DEF ApplyPDB, Seeded
  <2>12. ASSUME NEW answer \in BOOLEAN, CheckLeader(answer) PROVE TypeOK'
    BY <2>a, <2>b, <2>12 DEF CheckLeader, QuorumLost
  <2>13. ASSUME NEW answered \in BOOLEAN, EnsureToken(answered) PROVE TypeOK'
    <3>1. \A t \in Token : [token |-> t, marked |-> FALSE] \in Secret
      BY DEF Secret
    <3>2. secret' \in Secret /\ sec' \in Secret /\ nc' \in CR /\ pc' \in Step
      BY <2>a, <2>b, <2>13, <3>1 DEF EnsureToken, TokenFailed
    <3>3. QED BY <2>13, <3>2 DEF EnsureToken, TokenFailed
  <2>14. ASSUME NEW answered \in BOOLEAN, BootstrapACL(answered) PROVE TypeOK'
    <3>1. sec.token \in Token \cup {NoToken}
      BY DEF Secret
    <3>2. nc' \in CR /\ pc' \in Step /\ sec' \in Secret /\ UNCHANGED ncFresh
      BY <2>a, <2>b, <2>14 DEF BootstrapACL, TokenFailed, TokenEnsured
    <3>3. QED BY <2>14, <3>1, <3>2 DEF BootstrapACL, TokenAfter
  <2>15. ASSUME NEW answered \in BOOLEAN, MarkToken(answered) PROVE TypeOK'
    <3>1. secret' \in Secret
      BY <2>15, SecretUpdate DEF MarkToken
    <3>a. /\ [nc.st EXCEPT !.acl = "False"] \in Status
          /\ [nc.st EXCEPT !.acl = "True", !.phase = "Ready"] \in Status
      BY <2>b
    <3>2. nc' \in CR /\ pc' \in Step /\ sec' \in Secret /\ UNCHANGED ncFresh
      BY <2>a, <3>a, <2>15 DEF MarkToken, TokenFailed, TokenEnsured
    <3>3. QED BY <2>15, <3>1, <3>2 DEF MarkToken
  <2>16. CASE Finish         BY <2>a, <2>b, <2>16 DEF Finish
  <2>17. CASE PassAborted    BY <2>a, <2>b, <2>17 DEF PassAborted
  <2>18. CASE TokenCallFails BY <2>a, <2>b, <2>18 DEF TokenCallFails, TokenFailed
  <2>19. CASE Background
    <3>1. CASE SyncCR           BY <3>1 DEF SyncCR
    <3>2. CASE SyncTokenSecret
      <4>1. [secret EXCEPT !.marked = FALSE] \in Secret
        BY SecretUpdate
      <4>2. secretSeen' \in Secret
        BY <3>2, <4>1 DEF SyncTokenSecret
      <4>3. QED BY <3>2, <4>2 DEF SyncTokenSecret
    <3>3. CASE SyncGossipSecret BY <3>3 DEF SyncGossipSecret
    <3>4. ASSUME NEW k \in Kind, CollectGarbage(k) PROVE TypeOK'
      BY <3>4, ConstAssumption DEF CollectGarbage, ConstAssumption
    <3>5. QED BY <2>19, <3>1, <3>2, <3>3, <3>4 DEF Background
  <2>20. CASE Environment
    <3>1. CASE CreateCR
      <4>1. lives + 1 \in 0..MaxLives
        <5>1. MaxLives \in Nat
          BY ConstAssumption DEF ConstAssumption
        <5>2. lives \in 0..MaxLives /\ lives < MaxLives
          BY <3>1 DEF CreateCR
        <5>3. QED BY <5>1, <5>2
      <4>2. [life |-> lives + 1, st |-> NewStatus] \in CR
        BY <4>1 DEF CR
      <4>3. QED BY <3>1, <4>1, <4>2 DEF CreateCR
    <3>2. CASE DeleteCR       BY <3>2 DEF DeleteCR
    <3>3. CASE TouchCR        BY <3>3 DEF TouchCR
    <3>4. CASE WipeServerData BY <3>4 DEF WipeServerData
    <3>5. QED BY <2>20, <3>1, <3>2, <3>3, <3>4 DEF Environment, Recreation
  <2>21. CASE UNCHANGED vars BY <2>21 DEF vars
  <2>22. QED
    BY <2>1, <2>2, <2>3, <2>4, <2>5, <2>6, <2>7, <2>8, <2>9, <2>10, <2>11,
       <2>12, <2>13, <2>14, <2>15, <2>16, <2>17, <2>18, <2>19, <2>20, <2>21
    DEF Next, Pass, Steps, Fault
<1>3. QED BY <1>1, <1>2, PTL DEF Spec

-----------------------------------------------------------------------------
(* The bootstrap token.  RegisteredTokenIsStored is not inductive: the     *)
(* pass registers the token of its own copy of the Secret, which it took   *)
(* from the cache.  So the cache may be behind the Secret, but it never    *)
(* holds another token, and neither does the pass once it has one.         *)
TokenInv ==
    /\ nomadToken # NoToken => secret.token = nomadToken
    /\ secret # NoSecret => secret.token # NoToken
    /\ secretSeen # NoSecret =>
         /\ secretSeen.token = secret.token /\ secret.token # NoToken
         /\ secretSeen.marked => secret.marked
    /\ pc \in {"bootstrap", "mark"} =>
         /\ sec.token = secret.token /\ secret.token # NoToken
         /\ sec.marked => secret.marked

LEMMA TokenInvHolds == Spec => []TokenInv
<1>1. Init => TokenInv
  BY DEF Init, TokenInv
<1>2. TypeOK /\ TokenInv /\ [Next]_vars => TokenInv'
  <2> SUFFICES ASSUME TypeOK, TokenInv, [Next]_vars PROVE TokenInv'
    OBVIOUS
  <2>a. NoSecret.token = NoToken /\ NoSecret.marked = FALSE
    BY DEF NoSecret
  <2>b. ASSUME NEW m \in BOOLEAN
        PROVE  /\ [secret EXCEPT !.marked = m].token = secret.token
               /\ [secret EXCEPT !.marked = m].marked = m
    BY DEF TypeOK, Secret
  <2> USE DEF TokenInv, apiVars, ownVars, cacheVars, passVars, Goto, Leave,
              EndPass, Apply, SetStatus, WriteStatus
  <2>1. CASE Start           BY <2>1 DEF Start
  <2>2. CASE EnsureGossipKey BY <2>2 DEF EnsureGossipKey
  <2>3. ASSUME NEW ready \in BOOLEAN, CertSecretReady(ready) PROVE TokenInv'
    BY <2>3 DEF CertSecretReady
  <2>4. CASE ApplyLoadBalancer \/ ApplyGateway
    BY <2>4 DEF ApplyLoadBalancer, ApplyGateway
  <2>5. ASSUME NEW a \in Addr \cup {NoAddr}, ResolveAddress(a) PROVE TokenInv'
    BY <2>5 DEF ResolveAddress
  <2>6. CASE PersistAddress  BY <2>6 DEF PersistAddress
  <2>7. CASE ApplyConfigMap  BY <2>7 DEF ApplyConfigMap
  <2>8. CASE ApplyServices   BY <2>8 DEF ApplyServices
  <2>9. CASE ApplyRoutes     BY <2>9 DEF ApplyRoutes
  <2>10. CASE ApplyStatefulSet BY <2>10 DEF ApplyStatefulSet
  <2>11. CASE ApplyPDB       BY <2>11 DEF ApplyPDB
  <2>12. ASSUME NEW answer \in BOOLEAN, CheckLeader(answer) PROVE TokenInv'
    BY <2>12 DEF CheckLeader
  <2>13. ASSUME NEW answered \in BOOLEAN, EnsureToken(answered) PROVE TokenInv'
    <3>1. UNCHANGED <<secretSeen, nomadToken>> /\ pc' \in {"bootstrap", "finish"}
      BY <2>13 DEF EnsureToken, TokenFailed
    <3>2. CASE UNCHANGED secret
      BY <2>13, <3>1, <3>2 DEF EnsureToken, TokenFailed
    <3>3. CASE ~UNCHANGED secret
      <4>1. /\ secretSeen = NoSecret /\ secret = NoSecret
            /\ secret'.token \in Token
            /\ pc' = "bootstrap" => sec' = secret'
        BY <2>13, <3>3 DEF EnsureToken, TokenFailed
      <4>2. secret'.token # NoToken /\ nomadToken = NoToken
        BY <2>a, <4>1, ConstAssumption DEF ConstAssumption
      <4>3. QED BY <3>1, <4>1, <4>2
    <3>4. QED BY <3>2, <3>3
  <2>14. ASSUME NEW answered \in BOOLEAN, BootstrapACL(answered) PROVE TokenInv'
    BY <2>14 DEF BootstrapACL, TokenAfter, TokenFailed, TokenEnsured
  <2>15. ASSUME NEW answered \in BOOLEAN, MarkToken(answered) PROVE TokenInv'
    <3>1. /\ UNCHANGED <<secretSeen, nomadToken>> /\ pc' = "finish"
          /\ secret' \in {secret, [secret EXCEPT !.marked = TRUE]}
          /\ pc = "mark"
      BY <2>15 DEF MarkToken, TokenFailed, TokenEnsured
    <3>2. CASE secret' = secret
      BY <3>1, <3>2
    <3>3. CASE secret' = [secret EXCEPT !.marked = TRUE]
      BY <2>b, <3>1, <3>3
    <3>4. QED BY <3>1, <3>2, <3>3
  <2>16. CASE Finish         BY <2>16 DEF Finish
  <2>17. CASE PassAborted    BY <2>17 DEF PassAborted
  <2>18. CASE TokenCallFails BY <2>18 DEF TokenCallFails, TokenFailed
  <2>19. CASE Background
    <3>1. CASE SyncCR           BY <3>1 DEF SyncCR
    <3>2. CASE SyncTokenSecret
      <4>1. CASE secretSeen' = secret
        BY <3>2, <4>1 DEF SyncTokenSecret
      <4>2. CASE secretSeen' = [secret EXCEPT !.marked = FALSE]
        BY <2>b, <3>2, <4>2 DEF SyncTokenSecret
      <4>3. QED BY <3>2, <4>1, <4>2 DEF SyncTokenSecret
    <3>3. CASE SyncGossipSecret BY <3>3 DEF SyncGossipSecret
    <3>4. ASSUME NEW k \in Kind, CollectGarbage(k) PROVE TokenInv'
      BY <3>4 DEF CollectGarbage
    <3>5. QED BY <2>19, <3>1, <3>2, <3>3, <3>4 DEF Background
  <2>20. CASE Environment
    BY <2>20 DEF Environment, Recreation, CreateCR, DeleteCR, TouchCR,
       WipeServerData
  <2>21. CASE UNCHANGED vars BY <2>21 DEF vars
  <2>22. QED
    BY <2>1, <2>2, <2>3, <2>4, <2>5, <2>6, <2>7, <2>8, <2>9, <2>10, <2>11,
       <2>12, <2>13, <2>14, <2>15, <2>16, <2>17, <2>18, <2>19, <2>20, <2>21
    DEF Next, Pass, Steps, Fault
<1>3. QED BY <1>1, <1>2, TypeCorrect, PTL DEF Spec

\* Nomad never honours a token that the token Secret does not hold: whatever
\* ensureBootstrapToken reads stale, loses or repeats, and however often the
\* CR and the servers' data come and go.
THEOREM TokenIsNeverStranded == Spec => []RegisteredTokenIsStored
<1>1. TokenInv => RegisteredTokenIsStored
  BY DEF TokenInv, RegisteredTokenIsStored
<1>2. QED BY <1>1, TokenInvHolds, PTL

\* As long as nobody deletes the token Secret, security.go's reading of "already
\* bootstrapped" is right: the Secret is annotated only while the bootstrap
\* token that Nomad has, if it has one, is the Secret's.
THEOREM AnnotationIsTruthful == Spec => AnnotatedMeansThisToken
<1>1. TokenInv' /\ [Next]_vars
        => [secret'.marked /\ ~secret.marked =>
              nomadToken' \in {NoToken, secret'.token}]_vars
  BY DEF TokenInv
<1>2. QED
  BY <1>1, TokenInvHolds, PTL DEF Spec, AnnotatedMeansThisToken

-----------------------------------------------------------------------------
\* A gossip key, once it exists, is never replaced: not by a pass whose cache
\* has yet to see it, nor by the passes of a later life of the CR.
THEOREM GossipKeyIsKept == Spec => GossipKeyKept
<1>1. [Next]_vars => [gossip # NoKey => gossip' = gossip]_vars
  <2> USE DEF apiVars
  <2>1. CASE Steps
    BY <2>1 DEF Steps, Start, EnsureGossipKey, ApplyLoadBalancer, ApplyGateway,
       PersistAddress, ApplyConfigMap, ApplyServices, ApplyRoutes,
       ApplyStatefulSet, ApplyPDB, EnsureToken, BootstrapACL, MarkToken, Finish
  <2>2. CASE Pass
    BY <2>1, <2>2 DEF Pass, CertSecretReady, ResolveAddress, CheckLeader
  <2>3. CASE Fault
    BY <2>3 DEF Fault, PassAborted, TokenCallFails,
     EnsureToken, BootstrapACL, MarkToken
  <2>4. CASE Background
    BY <2>4 DEF Background, SyncCR, SyncTokenSecret, SyncGossipSecret,
       CollectGarbage
  <2>5. CASE Environment
    BY <2>5 DEF Environment, Recreation, CreateCR, DeleteCR, TouchCR,
       WipeServerData
  <2>6. QED BY <2>2, <2>3, <2>4, <2>5 DEF Next
<1>2. QED BY <1>1, PTL DEF Spec, GossipKeyKept

-----------------------------------------------------------------------------
(* Writes are fenced.  A fresh copy is the stored CR, changed only by the  *)
(* pass that holds it; so is the cache's, unchanged.                       *)
FreshInv ==
    /\ seenFresh => crSeen = cr
    /\ ncFresh => nc.life = cr.life /\ crSeen.life = cr.life /\ cr.life # 0

LEMMA FreshInvHolds == Spec => []FreshInv
<1>1. Init => FreshInv
  BY DEF Init, FreshInv
<1>2. TypeOK /\ FreshInv /\ [Next]_vars => FreshInv'
  <2> SUFFICES ASSUME TypeOK, FreshInv, [Next]_vars PROVE FreshInv'
    OBVIOUS
  <2>a. nc \in CR
    BY DEF TypeOK
  <2>b. NoCR.life = 0
    BY InitialValues
  <2>c. ASSUME WriteStatus, UNCHANGED crSeen
        PROVE  cr' = nc /\ cr'.life = cr.life /\ (seenFresh' => crSeen' = cr')
    BY <2>c, Zenon DEF WriteStatus, FreshInv
  <2> USE DEF FreshInv, apiVars, ownVars, cacheVars, passVars, Goto, Leave,
              EndPass, Apply, SetStatus
  <2>1. CASE Start           BY <2>1 DEF Start
  <2>2. CASE EnsureGossipKey BY <2>2 DEF EnsureGossipKey
  <2>3. ASSUME NEW ready \in BOOLEAN, CertSecretReady(ready) PROVE FreshInv'
    BY <2>a, <2>3 DEF CR, CertSecretReady
  <2>4. CASE ApplyLoadBalancer \/ ApplyGateway
    BY <2>4 DEF ApplyLoadBalancer, ApplyGateway
  <2>5. ASSUME NEW a \in Addr \cup {NoAddr}, ResolveAddress(a) PROVE FreshInv'
    BY <2>a, <2>5 DEF CR, ResolveAddress
  <2>6. CASE PersistAddress
    <3>1. CASE WriteStatus /\ Goto("config")
      BY <2>c, <2>6, <3>1 DEF PersistAddress
    <3>2. CASE EndPass /\ UNCHANGED <<cr, seenFresh>>
      BY <2>6, <3>2 DEF PersistAddress
    <3>3. QED BY <2>6, <3>1, <3>2 DEF PersistAddress
  <2>7. CASE ApplyConfigMap  BY <2>7 DEF ApplyConfigMap
  <2>8. CASE ApplyServices   BY <2>8 DEF ApplyServices
  <2>9. CASE ApplyRoutes     BY <2>9 DEF ApplyRoutes
  <2>10. CASE ApplyStatefulSet BY <2>10 DEF ApplyStatefulSet
  <2>11. CASE ApplyPDB       BY <2>a, <2>11 DEF CR, ApplyPDB
  <2>12. ASSUME NEW answer \in BOOLEAN, CheckLeader(answer) PROVE FreshInv'
    BY <2>a, <2>12 DEF CR, CheckLeader
  <2>13. ASSUME NEW answered \in BOOLEAN, EnsureToken(answered) PROVE FreshInv'
    BY <2>a, <2>13 DEF CR, EnsureToken, TokenFailed
  <2>14. ASSUME NEW answered \in BOOLEAN, BootstrapACL(answered) PROVE FreshInv'
    BY <2>a, <2>14 DEF CR, BootstrapACL, TokenFailed, TokenEnsured
  <2>15. ASSUME NEW answered \in BOOLEAN, MarkToken(answered) PROVE FreshInv'
    BY <2>a, <2>15 DEF CR, MarkToken, TokenFailed, TokenEnsured
  <2>16. CASE Finish
    <3>1. CASE WriteStatus
      BY <2>c, <2>16, <3>1 DEF Finish
    <3>2. CASE UNCHANGED <<cr, seenFresh>>
      BY <2>16, <3>2 DEF Finish
    <3>3. QED BY <2>16, <3>1, <3>2 DEF Finish
  <2>17. CASE PassAborted    BY <2>17 DEF PassAborted
  <2>18. CASE TokenCallFails BY <2>a, <2>18 DEF CR, TokenCallFails, TokenFailed
  <2>19. CASE Background
    <3>1. CASE SyncCR           BY <3>1 DEF SyncCR
    <3>2. CASE SyncTokenSecret  BY <3>2 DEF SyncTokenSecret
    <3>3. CASE SyncGossipSecret BY <3>3 DEF SyncGossipSecret
    <3>4. ASSUME NEW k \in Kind, CollectGarbage(k) PROVE FreshInv'
      BY <3>4 DEF CollectGarbage
    <3>5. QED BY <2>19, <3>1, <3>2, <3>3, <3>4 DEF Background
  <2>20. CASE Environment
    BY <2>b, <2>20 DEF Environment, Recreation, CreateCR, DeleteCR, TouchCR,
       WipeServerData
  <2>21. CASE UNCHANGED vars BY <2>21 DEF vars
  <2>22. QED
    BY <2>1, <2>2, <2>3, <2>4, <2>5, <2>6, <2>7, <2>8, <2>9, <2>10, <2>11,
       <2>12, <2>13, <2>14, <2>15, <2>16, <2>17, <2>18, <2>19, <2>20, <2>21
    DEF Next, Pass, Steps, Fault
<1>3. QED BY <1>1, <1>2, TypeCorrect, PTL DEF Spec

-----------------------------------------------------------------------------
\* The changes a pass makes to a status, and which of them make or keep it
\* provisioned.
LEMMA PhaseUpdate ==
    ASSUME NEW st \in Status
    PROVE  /\ ~Provisioned([st EXCEPT !.phase = "Pending"])
           /\ ~Provisioned([st EXCEPT !.phase = "Pending", !.access = "False"])
           /\ Provisioned([st EXCEPT !.acl = "False"]) <=> Provisioned(st)
           /\ Provisioned([st EXCEPT !.acl = "True", !.phase = "Ready"])
           /\ Provisioned(Seeded(st)) <=> Provisioned(st)
           /\ Provisioned(QuorumLost(st)) <=> Provisioned(st)
           /\ Seeded(st) \in Status /\ QuorumLost(st) \in Status
           /\ [st EXCEPT !.phase = "Pending"] \in Status
           /\ [st EXCEPT !.phase = "Pending", !.access = "False"] \in Status
           /\ [st EXCEPT !.acl = "False"] \in Status
           /\ [st EXCEPT !.acl = "True", !.phase = "Ready"] \in Status
<1>1. ~Provisioned([st EXCEPT !.phase = "Pending"])
  BY DEF Status, Provisioned
<1>2. ~Provisioned([st EXCEPT !.phase = "Pending", !.access = "False"])
  BY DEF Status, Provisioned
<1>3. Provisioned([st EXCEPT !.acl = "False"]) <=> Provisioned(st)
  BY DEF Status, Provisioned
<1>4. Provisioned([st EXCEPT !.acl = "True", !.phase = "Ready"])
  BY DEF Status, Provisioned
<1>5. Provisioned(Seeded(st)) <=> Provisioned(st)
  BY DEF Status, Provisioned, Seeded
<1>6. Provisioned(QuorumLost(st)) <=> Provisioned(st)
  BY DEF Status, Provisioned, QuorumLost
<1>7. Seeded(st) \in Status
  BY DEF Status, Phase, Seeded
<1>8. QuorumLost(st) \in Status
  BY DEF Status, Phase, QuorumLost
<1>9. [st EXCEPT !.phase = "Pending"] \in Status
  BY DEF Status, Phase, Cond
<1>10. [st EXCEPT !.phase = "Pending", !.access = "False"] \in Status
  BY DEF Status, Phase, Cond
<1>11. [st EXCEPT !.acl = "False"] \in Status
  BY DEF Status, Phase, Cond
<1>12. [st EXCEPT !.acl = "True", !.phase = "Ready"] \in Status
  BY DEF Status, Phase, Cond
<1>13. QED
  BY <1>1, <1>2, <1>3, <1>4, <1>5, <1>6, <1>7, <1>8, <1>9, <1>10, <1>11, <1>12

LEMMA AddrUpdate ==
    ASSUME NEW st \in Status, NEW a \in Addr
    PROVE  /\ [st EXCEPT !.addr = a, !.access = "True"] \in Status
           /\ [st EXCEPT !.addr = a, !.access = "True"].addr = a
           /\ [st EXCEPT !.addr = a, !.access = "True"].access = "True"
           /\ [st EXCEPT !.addr = a, !.access = "True"].phase = st.phase
<1>1. [st EXCEPT !.addr = a, !.access = "True"] \in Status
  BY DEF Status, Cond
<1>2. /\ [st EXCEPT !.addr = a, !.access = "True"].addr = a
      /\ [st EXCEPT !.addr = a, !.access = "True"].access = "True"
      /\ [st EXCEPT !.addr = a, !.access = "True"].phase = st.phase
  BY DEF Status
<1>3. QED BY <1>1, <1>2

-----------------------------------------------------------------------------
(* What one step may do to the CR, to the pass and to the servers.  The    *)
(* invariants below, and those of NomadCluster_address_proofs, are proved  *)
(* from these lemmas.                                                      *)
\* Who writes the CR: the pass, at its two status writes, and its users.
LEMMA CRWrites ==
    ASSUME [Next]_vars
    PROVE  cr' = cr \/ WriteStatus \/ CreateCR \/ DeleteCR
<1> USE DEF apiVars
<1>1. CASE Steps
  BY <1>1 DEF Steps, Start, EnsureGossipKey, ApplyLoadBalancer, ApplyGateway,
     PersistAddress, ApplyConfigMap, ApplyServices, ApplyRoutes,
     ApplyStatefulSet, ApplyPDB, EnsureToken, BootstrapACL, MarkToken, Finish
<1>2. CASE Pass
  BY <1>1, <1>2 DEF Pass, CertSecretReady, ResolveAddress, CheckLeader
<1>3. CASE Fault
  BY <1>3 DEF Fault, PassAborted, TokenCallFails,
     EnsureToken, BootstrapACL, MarkToken
<1>4. CASE Background
  BY <1>4 DEF Background, SyncCR, SyncTokenSecret, SyncGossipSecret,
     CollectGarbage
<1>5. CASE Environment
  BY <1>5 DEF Environment, Recreation, TouchCR, WipeServerData
<1>6. CASE UNCHANGED vars BY <1>6 DEF vars
<1>7. QED BY <1>2, <1>3, <1>4, <1>5, <1>6 DEF Next

Rendering == {"config", "services", "routes", "statefulset"}
Rendered  == {"services", "routes", "statefulset"}
Rolled    == {"pdb", "leader", "token", "bootstrap", "mark"}

\* A pass works on one life of the CR from its Start to its end.  Its copy
\* becomes provisioned, or Ready, only once the servers have been rolled, and
\* changes its address only where the address is resolved; the pass gets past
\* the roll by rolling, and to the rendering by persisting the address.
PassGoesOn ==
    /\ nc'.life = nc.life /\ (pc' # "idle" => pc # "idle")
    /\ ncFresh' => ncFresh
    /\ Provisioned(nc'.st) => Provisioned(nc.st) \/ pc \in Rolled
    /\ nc'.st.phase = "Ready" => nc.st.phase = "Ready" \/ pc \in Rolled
    /\ nc'.st.addr = nc.st.addr \/ \E a \in Addr : ResolveAddress(a)
    /\ pc' \in Rolled => pc \in Rolled \/ ApplyStatefulSet
    /\ pc' \in Rendering =>
         nc' = nc /\ (pc \in Rendering \/ (PersistAddress /\ WriteStatus))
    /\ pc' \in Rendered => pc \in Rendered \/ ApplyConfigMap

LEMMA PassSteps ==
    ASSUME TypeOK, [Next]_vars
    PROVE  Start \/ EndPass \/ PassGoesOn
<1>a. nc \in CR /\ nc.st \in Status
  BY DEF TypeOK, CR
<1>b. ASSUME NEW st, SetStatus(st) PROVE nc'.life = nc.life /\ nc'.st = st
  BY <1>a, <1>b DEF SetStatus, CR
<1>c. ASSUME NEW st, Leave(st)
      PROVE  nc'.life = nc.life /\ nc'.st = st /\ pc' = "finish"
             /\ UNCHANGED ncFresh
  BY <1>b, <1>c DEF Leave
<1>p. /\ ~Provisioned([nc.st EXCEPT !.phase = "Pending"])
      /\ [nc.st EXCEPT !.phase = "Pending"].phase = "Pending"
      /\ [nc.st EXCEPT !.phase = "Pending"].addr = nc.st.addr
  BY <1>a DEF Status, Provisioned
<1>n. /\ ~Provisioned([nc.st EXCEPT !.phase = "Pending", !.access = "False"])
      /\ [nc.st EXCEPT !.phase = "Pending", !.access = "False"].phase = "Pending"
      /\ [nc.st EXCEPT !.phase = "Pending", !.access = "False"].addr = nc.st.addr
  BY <1>a DEF Status, Provisioned
<1>s. /\ Seeded(nc.st).addr = nc.st.addr
      /\ Seeded(nc.st).phase = "Ready" => nc.st.phase = "Ready"
  BY <1>a DEF Status, Seeded
<1>q. QuorumLost(nc.st).addr = nc.st.addr
  BY <1>a DEF Status, QuorumLost
<1>t. [nc.st EXCEPT !.acl = "False"].addr = nc.st.addr
  BY <1>a DEF Status
<1>u. [nc.st EXCEPT !.acl = "True", !.phase = "Ready"].addr = nc.st.addr
  BY <1>a DEF Status
<1>j. ASSUME UNCHANGED <<pc, nc>>, ncFresh' => ncFresh PROVE PassGoesOn
  BY <1>j DEF PassGoesOn
<1>k. ASSUME UNCHANGED <<nc, ncFresh>>, pc # "idle",
             pc' \in Rolled => ApplyStatefulSet,
             pc' \in Rendering => pc \in Rendering,
             pc' \in Rendered => pc \in Rendered
      PROVE  PassGoesOn
  BY <1>k DEF PassGoesOn
<1> USE DEF passVars, Goto, PassGoesOn, Rendering, Rendered, Rolled
<1>d. ASSUME pc \in {"token", "bootstrap", "mark"}, TokenFailed
      PROVE  PassGoesOn
  BY <1>c, <1>d, <1>t DEF TokenFailed
<1>e. ASSUME pc \in {"token", "bootstrap", "mark"}, TokenEnsured
      PROVE  PassGoesOn
  BY <1>c, <1>e, <1>u DEF TokenEnsured
<1>f. ASSUME pc \in {"token", "bootstrap", "mark"},
             pc' \in {"bootstrap", "mark"}, UNCHANGED <<nc, ncFresh>>
      PROVE  PassGoesOn
  BY <1>f
<1>g. ASSUME NEW answered \in BOOLEAN, EnsureToken(answered) PROVE PassGoesOn
  BY <1>d, <1>f, <1>g DEF EnsureToken
<1>h. ASSUME NEW answered \in BOOLEAN, BootstrapACL(answered) PROVE PassGoesOn
  BY <1>d, <1>e, <1>f, <1>h DEF BootstrapACL
<1>i. ASSUME NEW answered \in BOOLEAN, MarkToken(answered) PROVE PassGoesOn
  BY <1>d, <1>e, <1>i DEF MarkToken
<1>1. CASE Steps
  <2>1. CASE EnsureGossipKey \/ ApplyLoadBalancer \/ ApplyGateway
    BY <2>1 DEF EnsureGossipKey, ApplyLoadBalancer, ApplyGateway
  <2>2. CASE PersistAddress  BY <2>2 DEF PersistAddress
  <2>3. CASE ApplyConfigMap  BY <2>3 DEF ApplyConfigMap
  <2>4. CASE ApplyServices   BY <1>k, <2>4 DEF ApplyServices
  <2>5. CASE ApplyRoutes     BY <1>k, <2>5 DEF ApplyRoutes
  <2>6. CASE ApplyStatefulSet
    <3>1. pc = "statefulset" /\ pc' = "pdb" /\ UNCHANGED <<nc, ncFresh>>
      BY <2>6 DEF ApplyStatefulSet
    <3>2. QED BY <1>k, <2>6, <3>1 DEF Rolled, Rendering, Rendered
  <2>7. CASE ApplyPDB        BY <1>b, <1>s, <2>7 DEF ApplyPDB
  <2>8. CASE Finish          BY <2>8 DEF Finish
  <2>9. QED
    BY <1>1, <1>g, <1>h, <1>i, <2>1, <2>2, <2>3, <2>4, <2>5, <2>6, <2>7, <2>8
    DEF Steps
<1>2. ASSUME NEW ready \in BOOLEAN, CertSecretReady(ready) PROVE PassGoesOn
  BY <1>c, <1>p, <1>2 DEF CertSecretReady
<1>3. ASSUME NEW a \in Addr \cup {NoAddr}, ResolveAddress(a) PROVE PassGoesOn
  <2>1. CASE a # NoAddr
    <3>1. /\ a \in Addr /\ pc' = "persist" /\ pc = "access"
          /\ SetStatus([nc.st EXCEPT !.addr = a, !.access = "True"])
          /\ UNCHANGED ncFresh
      BY <1>3, <2>1 DEF ResolveAddress
    <3>2. [nc.st EXCEPT !.addr = a, !.access = "True"].phase = nc.st.phase
      BY <1>a, <3>1, AddrUpdate
    <3>3. nc'.life = nc.life /\ nc'.st.phase = nc.st.phase
      BY <1>b, <3>1, <3>2
    <3>4. QED BY <1>3, <3>1, <3>3 DEF Provisioned
  <2>2. CASE a = NoAddr
    BY <1>c, <1>n, <1>3, <2>2 DEF ResolveAddress, NoAccess
  <2>3. QED BY <2>1, <2>2
<1>4. ASSUME NEW answer \in BOOLEAN, CheckLeader(answer) PROVE PassGoesOn
  BY <1>c, <1>q, <1>4 DEF CheckLeader
<1>5. CASE Fault
  <2>1. CASE PassAborted     BY <2>1 DEF PassAborted
  <2>2. CASE TokenCallFails  BY <1>d, <2>2 DEF TokenCallFails
  <2>3. QED BY <1>5, <1>g, <1>h, <1>i, <2>1, <2>2 DEF Fault
<1>6. CASE Background \/ Environment \/ UNCHANGED vars
  <2>1. UNCHANGED <<pc, nc>> /\ (ncFresh' => ncFresh)
    BY <1>6 DEF Background, SyncCR, SyncTokenSecret, SyncGossipSecret,
       CollectGarbage, Environment, Recreation, CreateCR,
       DeleteCR, TouchCR, WipeServerData, vars
  <2>2. QED BY <1>j, <2>1
<1>7. QED BY <1>1, <1>2, <1>3, <1>4, <1>5, <1>6 DEF Next, Pass

\* Only CreateCR starts a life, and only SyncCR moves the cache's copy.
LEMMA CacheAndLives ==
    ASSUME [Next]_vars
    PROVE  /\ lives' = lives \/ CreateCR
           /\ crSeen' = crSeen \/ crSeen' = cr
<1> USE DEF apiVars, cacheVars
<1>1. CASE Steps
  BY <1>1 DEF Steps, Start, EnsureGossipKey, ApplyLoadBalancer, ApplyGateway,
     PersistAddress, ApplyConfigMap, ApplyServices, ApplyRoutes,
     ApplyStatefulSet, ApplyPDB, EnsureToken, BootstrapACL, MarkToken, Finish
<1>2. CASE Pass
  BY <1>1, <1>2 DEF Pass, CertSecretReady, ResolveAddress, CheckLeader
<1>3. CASE Fault
  BY <1>3 DEF Fault, PassAborted, TokenCallFails,
     EnsureToken, BootstrapACL, MarkToken
<1>4. CASE Background
  BY <1>4 DEF Background, SyncCR, SyncTokenSecret, SyncGossipSecret,
     CollectGarbage
<1>5. CASE Environment
  BY <1>5 DEF Environment, Recreation, CreateCR, DeleteCR, TouchCR,
     WipeServerData
<1>6. CASE UNCHANGED vars BY <1>6 DEF vars
<1>7. QED BY <1>2, <1>3, <1>4, <1>5, <1>6 DEF Next

\* Who rolls the servers, takes them away, or clears emitted.
LEMMA RollWrites ==
    ASSUME TypeOK, [Next]_vars
    PROVE  \/ /\ UNCHANGED <<owned["statefulset"], stsAddr>>
              /\ emitted \subseteq emitted'
           \/ ApplyStatefulSet
           \/ CollectGarbage("statefulset")
<1> USE DEF ownVars, Apply, TypeOK, Kind
<1>1. CASE Steps
  BY <1>1 DEF Steps, Start, EnsureGossipKey, ApplyLoadBalancer, ApplyGateway,
     PersistAddress, ApplyConfigMap, ApplyServices, ApplyRoutes,
     ApplyPDB, EnsureToken, BootstrapACL, MarkToken, Finish
<1>2. CASE Pass
  BY <1>1, <1>2
  DEF Pass, CertSecretReady, ResolveAddress, Announce, CheckLeader
<1>3. CASE Fault
  BY <1>3 DEF Fault, PassAborted, TokenCallFails, EnsureToken, BootstrapACL,
     MarkToken
<1>4. ASSUME NEW k \in Kind, CollectGarbage(k), k # "statefulset"
      PROVE  UNCHANGED <<owned["statefulset"], stsAddr, emitted>>
  BY <1>4 DEF CollectGarbage
<1>5. CASE Background
  BY <1>4, <1>5 DEF Background, SyncCR, SyncTokenSecret, SyncGossipSecret
<1>6. CASE Environment
  BY <1>6 DEF Environment, Recreation, CreateCR, DeleteCR, TouchCR,
     WipeServerData
<1>7. CASE UNCHANGED vars BY <1>7 DEF vars
<1>8. QED BY <1>2, <1>3, <1>5, <1>6, <1>7 DEF Next

-----------------------------------------------------------------------------
(* The servers of a provisioned cluster are its own: while the CR lives,   *)
(* neither the garbage collector nor a pass of an earlier life takes them  *)
(* away, and a pass that is past the roll has rolled the CR's servers, as  *)
(* long as its copy is fresh.                                              *)
ServersOfCR == cr.life # 0 /\ owned["statefulset"] = cr.life

ServersInv ==
    /\ Provisioned(cr.st) =>
         /\ ServersOfCR
         /\ crSeen.life = cr.life
         /\ pc # "idle" => nc.life = cr.life
    /\ ncFresh /\ (Provisioned(nc.st) \/ pc \in Rolled) => ServersOfCR

LEMMA ServersInvHolds == Spec => []ServersInv
<1>1. Init => ServersInv
  BY InitialValues DEF Init, ServersInv, Provisioned, NewStatus
<1>2. TypeOK /\ FreshInv /\ ServersInv /\ [Next]_vars => ServersInv'
  <2> SUFFICES ASSUME TypeOK, FreshInv, ServersInv, [Next]_vars
               PROVE  ServersInv'
    OBVIOUS
  <2>a. ~Provisioned(NewStatus) /\ NoCR.life = 0 /\ NoCR.st = NewStatus
    BY InitialValues DEF Provisioned, NewStatus
  <2>1. ASSUME ServersOfCR, cr'.life = cr.life,
               ApplyStatefulSet => nc.life = cr.life
        PROVE  ServersOfCR'
    <3>1. CASE ApplyStatefulSet
      BY <2>1, <3>1 DEF ApplyStatefulSet, Apply, TypeOK, Kind, ServersOfCR
    <3>2. ~CollectGarbage("statefulset")
      BY <2>1 DEF CollectGarbage, ServersOfCR
    <3>3. QED BY <2>1, <3>1, <3>2, RollWrites DEF ServersOfCR
  <2>2. ASSUME Provisioned(cr'.st)
        PROVE  /\ ServersOfCR'
               /\ crSeen'.life = cr'.life
               /\ pc' # "idle" => nc'.life = cr'.life
    <3>1. \/ cr' = cr /\ Provisioned(cr.st)
          \/ WriteStatus /\ Provisioned(nc.st)
      <4>1. ~CreateCR
        BY <2>a, <2>2 DEF CreateCR
      <4>2. ~DeleteCR
        BY <2>a, <2>2 DEF DeleteCR
      <4>3. QED BY <2>2, <4>1, <4>2, CRWrites DEF WriteStatus
    <3>2. /\ ServersOfCR /\ cr'.life = cr.life /\ crSeen.life = cr.life
          /\ pc # "idle" => nc.life = cr.life
      BY <3>1 DEF WriteStatus, ServersInv, FreshInv
    <3>3. ServersOfCR'
      BY <2>1, <3>2 DEF ApplyStatefulSet
    <3>4. crSeen'.life = cr'.life
      BY <3>2, CacheAndLives
    <3>5. pc' # "idle" => nc'.life = cr'.life
      BY <3>2, PassSteps DEF Start, EndPass, PassGoesOn
    <3>6. QED BY <3>3, <3>4, <3>5
  <2>3. ASSUME ncFresh', Provisioned(nc'.st) \/ pc' \in Rolled
        PROVE  ServersOfCR'
    <3>1. CASE Start
      <4>1. cr' = cr /\ Provisioned(cr.st)
        BY <2>3, <3>1 DEF Start, apiVars, FreshInv, Rolled
      <4>2. QED BY <2>2, <4>1
    <3>2. ~EndPass
      BY <2>3 DEF EndPass
    <3>3. CASE PassGoesOn
      <4>1. ncFresh /\ nc.life = cr.life /\ cr.life # 0
        BY <2>3, <3>3 DEF PassGoesOn, FreshInv
      <4>2. cr'.life = cr.life
        BY <2>a, <2>3, <4>1, CRWrites DEF WriteStatus, CreateCR, DeleteCR
      <4>3. CASE ApplyStatefulSet
        BY <4>1, <4>2, <4>3
        DEF ApplyStatefulSet, Apply, TypeOK, Kind, ServersOfCR
      <4>4. CASE ~ApplyStatefulSet
        <5>1. ServersOfCR
          BY <2>3, <3>3, <4>1, <4>4 DEF PassGoesOn, ServersInv
        <5>2. QED BY <2>1, <4>2, <4>4, <5>1
      <4>5. QED BY <4>3, <4>4
    <3>4. QED BY <3>1, <3>2, <3>3, PassSteps
  <2>4. QED BY <2>2, <2>3 DEF ServersInv
<1>3. QED BY <1>1, <1>2, TypeCorrect, FreshInvHolds, PTL DEF Spec

-----------------------------------------------------------------------------
(* Ready means registered.  A status becomes Ready in the pass's copy and  *)
(* is published only if no one has written the CR since that copy was      *)
(* read.  Nomad's data is not wiped while the servers run, and the servers *)
(* of a provisioned cluster run (ServersInv).                              *)
Registered == nomadToken # NoToken /\ secret.marked

ReadyInv == ~InPlaceWipe =>
    /\ Provisioned(cr.st) => Registered
    /\ ncFresh /\ Provisioned(nc.st) => Registered
    /\ ncFresh /\ pc = "mark" => nomadToken # NoToken

LEMMA ReadyInvHolds == Spec => []ReadyInv
<1>1. Init => ReadyInv
  BY InitialValues DEF Init, ReadyInv, Provisioned, NewStatus
<1>2. TypeOK /\ TokenInv /\ FreshInv /\ ServersInv /\ ReadyInv /\ [Next]_vars
        => ReadyInv'
  <2> SUFFICES ASSUME TypeOK, TokenInv, FreshInv, ServersInv, ReadyInv,
                      [Next]_vars, ~InPlaceWipe
               PROVE  ReadyInv'
    BY DEF ReadyInv
  <2>a. nc \in CR /\ nc.st \in Status
    BY DEF TypeOK, CR
  <2>b. /\ ~Provisioned(NewStatus)
        /\ NoCR.life = 0 /\ NoCR.st = NewStatus
    BY InitialValues DEF Provisioned, NewStatus
  <2> USE DEF FreshInv, ReadyInv, Registered, apiVars, ownVars,
              cacheVars, passVars, Goto, EndPass
  <2>c. ASSUME NEW st \in Status, SetStatus(st)
        PROVE  nc'.st = st
    BY <2>a, <2>c DEF SetStatus, CR
  <2>q. /\ ~Provisioned([nc.st EXCEPT !.phase = "Pending"])
        /\ ~Provisioned([nc.st EXCEPT !.phase = "Pending", !.access = "False"])
        /\ Provisioned([nc.st EXCEPT !.acl = "False"]) <=> Provisioned(nc.st)
        /\ Provisioned([nc.st EXCEPT !.acl = "True", !.phase = "Ready"])
        /\ Provisioned(Seeded(nc.st)) <=> Provisioned(nc.st)
        /\ Provisioned(QuorumLost(nc.st)) <=> Provisioned(nc.st)
        /\ Seeded(nc.st) \in Status /\ QuorumLost(nc.st) \in Status
        /\ [nc.st EXCEPT !.phase = "Pending"] \in Status
        /\ [nc.st EXCEPT !.phase = "Pending", !.access = "False"] \in Status
        /\ [nc.st EXCEPT !.acl = "False"] \in Status
        /\ [nc.st EXCEPT !.acl = "True", !.phase = "Ready"] \in Status
    BY <2>a, PhaseUpdate
  <2>1. CASE Start           BY <2>1 DEF Start
  <2>2. CASE EnsureGossipKey BY <2>2 DEF EnsureGossipKey
  <2>3. ASSUME NEW ready \in BOOLEAN, CertSecretReady(ready) PROVE ReadyInv'
    <3>1. CASE UNCHANGED nc
      BY <2>3, <3>1 DEF CertSecretReady, Leave
    <3>2. CASE Leave([nc.st EXCEPT !.phase = "Pending"])
      <4>1. ~Provisioned(nc'.st)
        BY <2>c, <2>q, <3>2 DEF Leave
      <4>2. QED BY <2>3, <3>2, <4>1 DEF CertSecretReady, Leave
    <3>3. CASE Leave(nc.st)
      BY <2>a, <2>c, <2>3, <3>3 DEF CertSecretReady, Leave
    <3>4. QED BY <2>3, <3>1, <3>2, <3>3 DEF CertSecretReady
  <2>4. CASE ApplyLoadBalancer \/ ApplyGateway
    BY <2>4 DEF ApplyLoadBalancer, ApplyGateway
  <2>5. ASSUME NEW a \in Addr \cup {NoAddr}, ResolveAddress(a) PROVE ReadyInv'
    <3>1. CASE a # NoAddr
      <4>1. SetStatus([nc.st EXCEPT !.addr = a, !.access = "True"]) /\ a \in Addr
        BY <2>5, <3>1 DEF ResolveAddress
      <4>2. Provisioned(nc'.st) <=> Provisioned(nc.st)
        <5>1. [nc.st EXCEPT !.addr = a, !.access = "True"] \in Status
          BY <2>a DEF Status, Cond
        <5>2. nc'.st = [nc.st EXCEPT !.addr = a, !.access = "True"]
          BY <2>c, <4>1, <5>1
        <5>3. Provisioned([nc.st EXCEPT !.addr = a, !.access = "True"])
                <=> Provisioned(nc.st)
          BY <2>a, <4>1 DEF Status, Provisioned
        <5>4. QED BY <5>2, <5>3
      <4>3. QED BY <2>5, <3>1, <4>2 DEF ResolveAddress
    <3>2. CASE a = NoAddr /\ Provisioned(nc.st)
      BY <2>a, <2>c, <2>5, <3>2 DEF ResolveAddress, NoAccess, Leave
    <3>3. CASE a = NoAddr /\ ~Provisioned(nc.st)
      <4>1. Leave([nc.st EXCEPT !.phase = "Pending", !.access = "False"])
        BY <2>5, <3>3 DEF ResolveAddress, NoAccess
      <4>2. ~Provisioned(nc'.st)
        BY <2>c, <2>q, <4>1 DEF Leave
      <4>3. QED BY <2>5, <4>1, <4>2 DEF ResolveAddress, Leave
    <3>4. QED BY <3>1, <3>2, <3>3
  <2>d. ASSUME WriteStatus, UNCHANGED <<secret, nomadToken>>
        PROVE  Provisioned(cr'.st) => Registered'
    BY <2>d DEF WriteStatus
  <2>6. CASE PersistAddress
    <3>1. CASE WriteStatus /\ Goto("config")
      BY <2>d, <2>6, <3>1 DEF PersistAddress
    <3>2. CASE EndPass /\ UNCHANGED <<cr, seenFresh>>
      BY <2>6, <3>2 DEF PersistAddress
    <3>3. QED BY <2>6, <3>1, <3>2 DEF PersistAddress
  <2>7. CASE ApplyConfigMap  BY <2>7 DEF ApplyConfigMap
  <2>8. CASE ApplyServices   BY <2>8 DEF ApplyServices
  <2>9. CASE ApplyRoutes     BY <2>9 DEF ApplyRoutes
  <2>10. CASE ApplyStatefulSet BY <2>10 DEF ApplyStatefulSet
  <2>11. CASE ApplyPDB       BY <2>c, <2>q, <2>11 DEF ApplyPDB
  <2>12. ASSUME NEW answer \in BOOLEAN, CheckLeader(answer) PROVE ReadyInv'
    <3>1. CASE Leave(QuorumLost(nc.st))
      <4>1. Provisioned(nc'.st) <=> Provisioned(nc.st)
        BY <2>c, <2>q, <3>1 DEF Leave
      <4>2. QED BY <2>12, <3>1, <4>1 DEF CheckLeader, Leave
    <3>2. CASE Goto("token")
      BY <2>12, <3>2 DEF CheckLeader
    <3>3. QED BY <2>12, <3>1, <3>2 DEF CheckLeader
  <2>e. ASSUME TokenFailed
        PROVE  /\ pc' = "finish" /\ UNCHANGED ncFresh
               /\ Provisioned(nc'.st) <=> Provisioned(nc.st)
    BY <2>c, <2>e, <2>q DEF TokenFailed, Leave
  <2>f. ASSUME TokenEnsured
        PROVE  pc' = "finish" /\ UNCHANGED ncFresh
    BY <2>c, <2>f, <2>q DEF TokenEnsured, Leave
  <2>g. secret.marked => secret # NoSecret
    BY DEF NoSecret
  <2>13. ASSUME NEW answered \in BOOLEAN, EnsureToken(answered) PROVE ReadyInv'
    <3>1. secret.marked => UNCHANGED secret
      BY <2>g, <2>13 DEF EnsureToken
    <3>2. CASE TokenFailed
      BY <2>e, <2>13, <3>1, <3>2 DEF EnsureToken
    <3>3. CASE pc' = "bootstrap" /\ UNCHANGED <<nc, ncFresh>>
      BY <2>13, <3>1, <3>3 DEF EnsureToken
    <3>4. QED BY <2>13, <3>2, <3>3 DEF EnsureToken
  <2>14. ASSUME NEW answered \in BOOLEAN, BootstrapACL(answered) PROVE ReadyInv'
    <3>1. ServersRun => nomadToken' # NoToken
      BY <2>14 DEF BootstrapACL, TokenAfter, TokenInv
    <3>2. UNCHANGED <<cr, secret>> /\ (nomadToken # NoToken => nomadToken' # NoToken)
      BY <2>14 DEF BootstrapACL, TokenAfter
    <3>3. CASE ServersRun /\ Goto("mark")
      BY <3>1, <3>2, <3>3
    <3>4. CASE ServersRun /\ sec.marked /\ TokenEnsured
      <4>1. Registered'
        BY <2>14, <3>1, <3>2, <3>4 DEF BootstrapACL, TokenInv
      <4>2. QED BY <2>f, <3>2, <3>4, <4>1
    <3>5. CASE TokenFailed
      BY <2>e, <3>2, <3>5
    <3>6. QED BY <2>14, <3>3, <3>4, <3>5 DEF BootstrapACL
  <2>15. ASSUME NEW answered \in BOOLEAN, MarkToken(answered) PROVE ReadyInv'
    <3>1. [secret EXCEPT !.marked = TRUE].marked
      BY DEF TypeOK, Secret
    <3>2. secret.marked => secret'.marked
      BY <2>15, <3>1 DEF MarkToken
    <3>3. CASE TokenFailed
      BY <2>e, <2>15, <3>2, <3>3 DEF MarkToken
    <3>4. CASE TokenEnsured /\ secret' = [secret EXCEPT !.marked = TRUE]
      BY <2>f, <2>15, <3>1, <3>4 DEF MarkToken
    <3>5. QED BY <2>15, <3>3, <3>4 DEF MarkToken
  <2>16. CASE Finish
    <3>1. CASE WriteStatus
      BY <2>d, <2>16, <3>1 DEF Finish
    <3>2. CASE UNCHANGED <<cr, seenFresh>>
      BY <2>16, <3>2 DEF Finish
    <3>3. QED BY <2>16, <3>1, <3>2 DEF Finish
  <2>18. CASE TokenCallFails
    BY <2>e, <2>18 DEF TokenCallFails
  <2>17. CASE PassAborted    BY <2>17 DEF PassAborted
  <2>19. CASE Background
    <3>1. CASE SyncCR           BY <3>1 DEF SyncCR
    <3>2. CASE SyncTokenSecret  BY <3>2 DEF SyncTokenSecret
    <3>3. CASE SyncGossipSecret BY <3>3 DEF SyncGossipSecret
    <3>4. ASSUME NEW k \in Kind, CollectGarbage(k) PROVE ReadyInv'
      BY <3>4 DEF CollectGarbage
    <3>5. QED BY <2>19, <3>1, <3>2, <3>3, <3>4 DEF Background
  <2>20. CASE Environment
    <3>1. CASE CreateCR       BY <2>b, <3>1 DEF CreateCR
    <3>2. CASE DeleteCR
      <4>1. ~Provisioned(cr'.st) /\ ~ncFresh'
        BY <2>b, <3>2 DEF DeleteCR
      <4>2. QED BY <4>1
    <3>3. CASE TouchCR        BY <3>3 DEF TouchCR
    <3>4. CASE WipeServerData
      <4>1. ~ServersOfCR
        BY <3>4 DEF WipeServerData, ServersRun, ServersOfCR
      <4>2. /\ ~Provisioned(cr.st)
            /\ ncFresh => ~Provisioned(nc.st) /\ pc # "mark"
        BY <4>1 DEF ServersInv, Rolled
      <4>3. QED BY <3>4, <4>2 DEF WipeServerData
    <3>5. QED BY <2>20, <3>1, <3>2, <3>3, <3>4 DEF Environment, Recreation
  <2>21. CASE UNCHANGED vars BY <2>21 DEF vars
  <2>22. QED
    BY <2>1, <2>2, <2>3, <2>4, <2>5, <2>6, <2>7, <2>8, <2>9, <2>10, <2>11,
       <2>12, <2>13, <2>14, <2>15, <2>16, <2>17, <2>18, <2>19, <2>20, <2>21
    DEF Next, Pass, Steps, Fault
<1>3. QED
  BY <1>1, <1>2, TypeCorrect, TokenInvHolds, FreshInvHolds, ServersInvHolds,
     PTL DEF Spec

\* A cluster that reports Ready or Degraded has a Nomad that registered the
\* stored, annotated token, unless the servers' data is wiped under a live CR.
\* Deleting and recreating the CR, which keeps the annotation while the Nomad
\* it vouched for may go, does not break it: the new life is not Ready before
\* its own ACLBootstrap call.
THEOREM ReadyIsRegistered == Spec => []ReadyMeansRegistered
<1>1. TypeOK /\ TokenInv /\ ReadyInv => ReadyMeansRegistered
  <2> SUFFICES ASSUME TypeOK, TokenInv, ReadyInv,
                      ~InPlaceWipe, Provisioned(cr.st)
               PROVE  /\ nomadToken # NoToken
                      /\ secret = [token |-> nomadToken, marked |-> TRUE]
    BY DEF ReadyMeansRegistered
  <2>1. nomadToken # NoToken /\ secret.marked /\ secret.token = nomadToken
    BY DEF ReadyInv, Registered, TokenInv
  <2>2. QED BY <2>1 DEF TypeOK, Secret
<1>2. QED
  BY <1>1, TypeCorrect, TokenInvHolds, ReadyInvHolds, PTL
=============================================================================
