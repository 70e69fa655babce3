-------------------- MODULE NomadCluster_address_proofs --------------------
(***************************************************************************)
(* Proofs about the external address of a NomadCluster and the status that *)
(* publishes it: what a provisioned cluster keeps, that it is never        *)
(* demoted, and that the servers are rolled onto the published address and *)
(* onto no other, and not before a drift Event was emitted for it.         *)
(***************************************************************************)
EXTENDS NomadCluster_proofs

-----------------------------------------------------------------------------
(* A status that has an address: which changes of a status keep it.        *)
HasAccess(st) == st.access = "True" /\ st.addr # NoAddr

LEMMA AccessUpdate ==
    ASSUME NEW st \in Status
    PROVE  /\ HasAccess([st EXCEPT !.acl = "False"]) <=> HasAccess(st)
           /\ HasAccess([st EXCEPT !.acl = "True", !.phase = "Ready"])
                <=> HasAccess(st)
           /\ HasAccess(Seeded(st)) <=> HasAccess(st)
           /\ HasAccess(QuorumLost(st)) <=> HasAccess(st)
<1>1. HasAccess([st EXCEPT !.acl = "False"]) <=> HasAccess(st)
  BY DEF Status, HasAccess
<1>2. HasAccess([st EXCEPT !.acl = "True", !.phase = "Ready"]) <=> HasAccess(st)
  BY DEF Status, HasAccess
<1>3. HasAccess(Seeded(st)) <=> HasAccess(st)
  BY DEF Status, HasAccess, Seeded
<1>4. HasAccess(QuorumLost(st)) <=> HasAccess(st)
  BY DEF Status, HasAccess, QuorumLost
<1>5. QED BY <1>1, <1>2, <1>3, <1>4

-----------------------------------------------------------------------------
(* The pass's copy of the CR.  ProvisionedKeepsAccess and NeverDemoted     *)
(* both speak of the stored status, which is always some pass's copy; so   *)
(* the invariant speaks of the copy.  A pass that is past the address has  *)
(* one (AccessInv), which is why the pass may report Ready later on; and a *)
(* fresh copy is never behind the stored status in being provisioned       *)
(* (StayInv), so writing it does not demote the cluster.                   *)
Onward == {"persist", "config", "services", "routes", "statefulset", "pdb",
           "leader", "token", "bootstrap", "mark"}

AccessInv ==
    /\ Provisioned(cr.st) => HasAccess(cr.st)
    /\ Provisioned(crSeen.st) => HasAccess(crSeen.st)
    /\ Provisioned(nc.st) => HasAccess(nc.st)
    /\ pc \in Onward => HasAccess(nc.st)

StayInv == ncFresh /\ Provisioned(cr.st) => Provisioned(nc.st)

CopyInv == AccessInv /\ StayInv

LEMMA CopyInvHolds == Spec => []CopyInv
<1>1. Init => CopyInv
  BY InitialValues
  DEF Init, CopyInv, AccessInv, StayInv, Provisioned, NewStatus, Onward
<1>2. TypeOK /\ FreshInv /\ CopyInv /\ [Next]_vars => CopyInv'
  <2> SUFFICES ASSUME TypeOK, FreshInv, CopyInv, [Next]_vars PROVE CopyInv'
    OBVIOUS
  <2>a. nc \in CR /\ nc.st \in Status
    BY DEF TypeOK, CR
  <2>b. ~Provisioned(NewStatus) /\ NoCR.st = NewStatus
    BY InitialValues DEF Provisioned, NewStatus
  <2>c. ASSUME NEW st \in Status, SetStatus(st) PROVE nc'.st = st
    BY <2>a, <2>c DEF SetStatus, CR
  <2>q. /\ ~Provisioned([nc.st EXCEPT !.phase = "Pending"])
        /\ ~Provisioned([nc.st EXCEPT !.phase = "Pending", !.access = "False"])
        /\ Provisioned([nc.st EXCEPT !.acl = "False"]) <=> Provisioned(nc.st)
        /\ Provisioned([nc.st EXCEPT !.acl = "True", !.phase = "Ready"])
        /\ Provisioned(Seeded(nc.st)) <=> Provisioned(nc.st)
        /\ Provisioned(QuorumLost(nc.st)) <=> Provisioned(nc.st)
        /\ Seeded(nc.st) \in Status /\ QuorumLost(nc.st) \in Status
        /\ [nc.st EXCEPT !.phase = "Pending"] \in Status
        /\ [nc.st EXCEPT !.phase = "Pending", !.access = "False"] \in Status
        /\ [nc.st EXCEPT !.acl = "False"] \in Status
        /\ [nc.st EXCEPT !.acl = "True", !.phase = "Ready"] \in Status
    BY <2>a, PhaseUpdate
  <2>r. /\ HasAccess([nc.st EXCEPT !.acl = "False"]) <=> HasAccess(nc.st)
        /\ HasAccess([nc.st EXCEPT !.acl = "True", !.phase = "Ready"])
             <=> HasAccess(nc.st)
        /\ HasAccess(Seeded(nc.st)) <=> HasAccess(nc.st)
        /\ HasAccess(QuorumLost(nc.st)) <=> HasAccess(nc.st)
    BY <2>a, AccessUpdate
  <2> USE DEF CopyInv, AccessInv, StayInv, Onward, apiVars, ownVars,
              cacheVars, passVars, Goto, EndPass
  <2>e. ASSUME TokenFailed
        PROVE  /\ pc' = "finish" /\ UNCHANGED ncFresh
               /\ Provisioned(nc'.st) <=> Provisioned(nc.st)
               /\ HasAccess(nc'.st) <=> HasAccess(nc.st)
    BY <2>c, <2>e, <2>q, <2>r DEF TokenFailed, Leave
  <2>f. ASSUME TokenEnsured
        PROVE  /\ pc' = "finish" /\ UNCHANGED ncFresh
               /\ Provisioned(nc'.st)
               /\ HasAccess(nc'.st) <=> HasAccess(nc.st)
    BY <2>c, <2>f, <2>q, <2>r DEF TokenEnsured, Leave
  <2>1. CASE Start           BY <2>1 DEF Start, FreshInv
  <2>2. CASE EnsureGossipKey BY <2>2 DEF EnsureGossipKey
  <2>3. ASSUME NEW ready \in BOOLEAN, CertSecretReady(ready) PROVE CopyInv'
    <3>1. CASE UNCHANGED nc
      BY <2>3, <3>1 DEF CertSecretReady, Leave
    <3>2. CASE ~Provisioned(nc.st) /\ Leave([nc.st EXCEPT !.phase = "Pending"])
      BY <2>c, <2>q, <2>3, <3>2 DEF CertSecretReady, Leave
    <3>3. CASE Leave(nc.st)
      BY <2>a, <2>c, <2>3, <3>3 DEF CertSecretReady, Leave
    <3>4. QED BY <2>3, <3>1, <3>2, <3>3 DEF CertSecretReady
  <2>4. CASE ApplyLoadBalancer \/ ApplyGateway
    BY <2>4 DEF ApplyLoadBalancer, ApplyGateway
  <2>5. ASSUME NEW a \in Addr \cup {NoAddr}, ResolveAddress(a) PROVE CopyInv'
    <3>1. CASE a # NoAddr
      <4>1. SetStatus([nc.st EXCEPT !.addr = a, !.access = "True"]) /\ a \in Addr
        BY <2>5, <3>1 DEF ResolveAddress
      <4>2. /\ [nc.st EXCEPT !.addr = a, !.access = "True"] \in Status
            /\ [nc.st EXCEPT !.addr = a, !.access = "True"].addr = a
            /\ [nc.st EXCEPT !.addr = a, !.access = "True"].access = "True"
            /\ [nc.st EXCEPT !.addr = a, !.access = "True"].phase = nc.st.phase
        BY <2>a, <4>1, AddrUpdate
      <4>3. nc'.st.phase = nc.st.phase /\ HasAccess(nc'.st)
        BY <2>c, <3>1, <4>1, <4>2 DEF HasAccess
      <4>4. Provisioned(nc'.st) <=> Provisioned(nc.st)
        BY <4>3 DEF Provisioned
      <4>5. QED BY <2>5, <3>1, <4>3, <4>4 DEF ResolveAddress
    <3>2. CASE a = NoAddr /\ Provisioned(nc.st)
      BY <2>a, <2>c, <2>5, <3>2 DEF ResolveAddress, NoAccess, Leave
    <3>3. CASE a = NoAddr /\ ~Provisioned(nc.st)
      <4>1. Leave([nc.st EXCEPT !.phase = "Pending", !.access = "False"])
        BY <2>5, <3>3 DEF ResolveAddress, NoAccess
      <4>2. QED BY <2>c, <2>q, <2>5, <3>3, <4>1 DEF ResolveAddress, Leave
    <3>4. QED BY <3>1, <3>2, <3>3
  <2>6. CASE PersistAddress
    BY <2>b, <2>6 DEF PersistAddress, WriteStatus
  <2>7. CASE ApplyConfigMap  BY <2>7 DEF ApplyConfigMap
  <2>8. CASE ApplyServices   BY <2>8 DEF ApplyServices
  <2>9. CASE ApplyRoutes     BY <2>9 DEF ApplyRoutes
  <2>10. CASE ApplyStatefulSet BY <2>10 DEF ApplyStatefulSet
  <2>11. CASE ApplyPDB
    BY <2>c, <2>q, <2>r, <2>11 DEF ApplyPDB
  <2>12. ASSUME NEW answer \in BOOLEAN, CheckLeader(answer) PROVE CopyInv'
    BY <2>c, <2>q, <2>r, <2>12 DEF CheckLeader, Leave
  <2>13. ASSUME NEW answered \in BOOLEAN, EnsureToken(answered) PROVE CopyInv'
    <3>1. CASE TokenFailed
      BY <2>e, <2>13, <3>1 DEF EnsureToken
    <3>2. CASE pc' = "bootstrap" /\ UNCHANGED <<nc, ncFresh>>
      BY <2>13, <3>2 DEF EnsureToken
    <3>3. QED BY <2>13, <3>1, <3>2 DEF EnsureToken
  <2>14. ASSUME NEW answered \in BOOLEAN, BootstrapACL(answered) PROVE CopyInv'
    <3>1. CASE TokenFailed
      BY <2>e, <2>14, <3>1 DEF BootstrapACL
    <3>2. CASE TokenEnsured
      BY <2>f, <2>14, <3>2 DEF BootstrapACL
    <3>3. CASE Goto("mark")
      BY <2>14, <3>3 DEF BootstrapACL
    <3>4. QED BY <2>14, <3>1, <3>2, <3>3 DEF BootstrapACL
  <2>15. ASSUME NEW answered \in BOOLEAN, MarkToken(answered) PROVE CopyInv'
    <3>1. CASE TokenFailed
      BY <2>e, <2>15, <3>1 DEF MarkToken
    <3>2. CASE TokenEnsured
      BY <2>f, <2>15, <3>2 DEF MarkToken
    <3>3. QED BY <2>15, <3>1, <3>2 DEF MarkToken
  <2>16. CASE Finish
    BY <2>b, <2>16 DEF Finish, WriteStatus
  <2>17. CASE PassAborted    BY <2>b, <2>17 DEF PassAborted
  <2>18. CASE TokenCallFails BY <2>e, <2>18 DEF TokenCallFails
  <2>19. CASE Background
    BY <2>19 DEF Background, SyncCR, SyncTokenSecret, SyncGossipSecret,
       CollectGarbage
  <2>20. CASE Environment
    <3>1. CASE CreateCR       BY <2>b, <3>1 DEF CreateCR
    <3>2. CASE DeleteCR       BY <2>b, <3>2 DEF DeleteCR
    <3>3. CASE TouchCR        BY <3>3 DEF TouchCR
    <3>4. CASE WipeServerData BY <3>4 DEF WipeServerData
    <3>5. QED BY <2>20, <3>1, <3>2, <3>3, <3>4 DEF Environment, Recreation
  <2>21. CASE UNCHANGED vars BY <2>21 DEF vars
  <2>22. QED
    BY <2>1, <2>2, <2>3, <2>4, <2>5, <2>6, <2>7, <2>8, <2>9, <2>10, <2>11,
       <2>12, <2>13, <2>14, <2>15, <2>16, <2>17, <2>18, <2>19, <2>20, <2>21
    DEF Next, Pass, Steps, Fault
<1>3. QED BY <1>1, <1>2, TypeCorrect, FreshInvHolds, PTL DEF Spec

\* A provisioned cluster keeps its published address and ExternalAccessReady
\* through every blip of the certificate, the address or its front, whatever
\* conflicts, crashes or is read too late in between.
THEOREM AccessIsKept == Spec => []ProvisionedKeepsAccess
<1>1. CopyInv => ProvisionedKeepsAccess
  BY DEF CopyInv, AccessInv, HasAccess, ProvisionedKeepsAccess
<1>2. QED BY <1>1, CopyInvHolds, PTL

-----------------------------------------------------------------------------
(* Lives: no copy is of a life that has not begun, so that a CR created    *)
(* while a pass is under way never has the life of that pass.              *)
LivesInv ==
    /\ cr.life <= lives /\ crSeen.life <= lives /\ nc.life <= lives
    /\ pc # "idle" => nc.life # 0
    /\ cr.life = 0 => cr = NoCR

LEMMA LivesInvHolds == Spec => []LivesInv
<1>1. Init => LivesInv
  BY InitialValues DEF Init, LivesInv
<1>2. TypeOK /\ FreshInv /\ LivesInv /\ [Next]_vars => LivesInv'
  <2> SUFFICES ASSUME TypeOK, FreshInv, LivesInv, [Next]_vars PROVE LivesInv'
    OBVIOUS
  <2>a. NoCR.life = 0 /\ lives \in Nat
    BY InitialValues, ConstAssumption DEF TypeOK, ConstAssumption
  <2>1. CASE CreateCR
    <3>1. /\ lives' = lives + 1 /\ cr'.life = lives + 1
          /\ UNCHANGED <<crSeen, pc, nc>>
      BY <2>1 DEF CreateCR, passVars
    <3>2. /\ crSeen.life \in Nat /\ nc.life \in Nat
      BY ConstAssumption DEF TypeOK, CR, ConstAssumption
    <3>3. QED BY <2>a, <3>1, <3>2 DEF LivesInv
  <2>2. CASE ~CreateCR
    <3>1. lives' = lives
      BY <2>2, CacheAndLives
    <3>2. cr'.life <= lives /\ (cr'.life = 0 => cr' = NoCR)
      <4>1. cr' = cr \/ WriteStatus \/ DeleteCR
        BY <2>2, CRWrites
      <4>2. QED
        BY <2>a, <4>1 DEF WriteStatus, DeleteCR, LivesInv, FreshInv
    <3>3. crSeen'.life <= lives
      BY CacheAndLives DEF LivesInv
    <3>4. nc'.life <= lives /\ (pc' # "idle" => nc'.life # 0)
      <4>1. CASE Start
        BY <4>1 DEF Start, LivesInv
      <4>2. CASE EndPass
        BY <2>a, <4>2 DEF EndPass, LivesInv
      <4>3. CASE PassGoesOn
        BY <4>3 DEF LivesInv, PassGoesOn
      <4>4. QED BY <4>1, <4>2, <4>3, PassSteps
    <3>5. QED BY <3>1, <3>2, <3>3, <3>4 DEF LivesInv
  <2>3. QED BY <2>1, <2>2
<1>3. QED BY <1>1, <1>2, TypeCorrect, FreshInvHolds, PTL DEF Spec

\* No status write of any pass, however old the copy it started from, takes a
\* provisioned cluster back to Pending or Bootstrapping within one life.
THEOREM ClusterIsNeverDemoted == Spec => NeverDemoted
<1>1. FreshInv /\ CopyInv /\ LivesInv /\ [Next]_vars
        => [cr'.life = cr.life /\ Provisioned(cr.st) => Provisioned(cr'.st)]_vars
  <2> SUFFICES ASSUME FreshInv, CopyInv, LivesInv, [Next]_vars,
                      cr'.life = cr.life, Provisioned(cr.st)
               PROVE  Provisioned(cr'.st)
    OBVIOUS
  <2>1. ASSUME WriteStatus PROVE Provisioned(cr'.st)
    BY <2>1 DEF WriteStatus, CopyInv, StayInv
  <2>2. CASE cr' = cr
    BY <2>2
  <2>a. ~Provisioned(NewStatus) /\ NoCR.st = NewStatus /\ NoCR.life = 0
    BY InitialValues DEF Provisioned, NewStatus
  <2>3. ~CreateCR
    BY <2>a DEF CreateCR
  <2>4. ~DeleteCR
    BY <2>a DEF DeleteCR, LivesInv
  <2>5. WriteStatus \/ cr' = cr \/ CreateCR \/ DeleteCR
    BY CRWrites
  <2>6. QED BY <2>1, <2>2, <2>3, <2>4, <2>5
<1>2. QED
  BY <1>1, FreshInvHolds, CopyInvHolds, LivesInvHolds, PTL DEF Spec, NeverDemoted

-----------------------------------------------------------------------------
(* Rendering.  From the write that persists the address to the roll, the   *)
(* pass's copy is the published status, and once the ConfigMap is rendered *)
(* it is the CR's and carries that address -- as long as the CR is still   *)
(* the one that the pass works for.                                        *)
RollInv == nc.life = cr.life =>
    /\ pc \in Rendering => cr.st = nc.st
    /\ pc \in Rendered => cmAddr = nc.st.addr /\ owned["config"] = nc.life

LEMMA ConfigWrites ==
    ASSUME TypeOK, [Next]_vars
    PROVE  \/ UNCHANGED <<owned["config"], cmAddr>>
           \/ ApplyConfigMap
           \/ CollectGarbage("config")
<1> USE DEF ownVars, Apply, TypeOK, Kind
<1>1. CASE Steps
  BY <1>1 DEF Steps, Start, EnsureGossipKey, ApplyLoadBalancer, ApplyGateway,
     PersistAddress, ApplyServices, ApplyRoutes,
     ApplyStatefulSet, ApplyPDB, EnsureToken, BootstrapACL, MarkToken, Finish
<1>2. CASE Pass
  BY <1>1, <1>2 DEF Pass, CertSecretReady, ResolveAddress, CheckLeader
<1>3. CASE Fault
  BY <1>3 DEF Fault, PassAborted, TokenCallFails,
     EnsureToken, BootstrapACL, MarkToken
<1>4. ASSUME NEW k \in Kind, CollectGarbage(k), k # "config"
      PROVE  UNCHANGED <<owned["config"], cmAddr>>
  BY <1>4 DEF CollectGarbage
<1>5. CASE Background
  BY <1>4, <1>5 DEF Background, SyncCR, SyncTokenSecret, SyncGossipSecret
<1>6. CASE Environment
  BY <1>6 DEF Environment, Recreation, CreateCR, DeleteCR, TouchCR,
     WipeServerData
<1>7. CASE UNCHANGED vars BY <1>7 DEF vars
<1>8. QED BY <1>2, <1>3, <1>5, <1>6, <1>7 DEF Next

LEMMA RollInvHolds == Spec => []RollInv
<1>1. Init => RollInv
  BY DEF Init, RollInv, Rendering, Rendered
<1>2. TypeOK /\ FreshInv /\ LivesInv /\ RollInv /\ [Next]_vars => RollInv'
  <2> SUFFICES ASSUME TypeOK, FreshInv, LivesInv, RollInv, [Next]_vars,
                      nc'.life = cr'.life, pc' \in Rendering
               PROVE  /\ cr'.st = nc'.st
                      /\ pc' \in Rendered =>
                           cmAddr' = nc'.st.addr /\ owned'["config"] = nc'.life
    BY DEF RollInv, Rendering, Rendered
  <2>1. /\ nc' = nc /\ nc.life # 0
        /\ pc \in Rendering \/ (PersistAddress /\ WriteStatus)
        /\ pc' \in Rendered => pc \in Rendered \/ ApplyConfigMap
    <3>1. PassGoesOn
      BY PassSteps DEF Start, EndPass, Rendering
    <3>2. pc # "idle"
      BY <3>1 DEF PassGoesOn, Rendering
    <3>3. QED BY <3>1, <3>2 DEF PassGoesOn, LivesInv
  <2>2. cr' = cr \/ WriteStatus
    <3>1. ~CreateCR
      <4>1. nc.life \in Nat /\ lives \in Nat
        BY ConstAssumption DEF TypeOK, CR, ConstAssumption
      <4>2. QED BY <2>1, <4>1 DEF CreateCR, LivesInv
    <3>2. ~DeleteCR
      BY <2>1, InitialValues DEF DeleteCR
    <3>3. QED BY <3>1, <3>2, CRWrites
  <2>3. cr'.st = nc'.st /\ nc.life = cr.life
    <3>1. CASE WriteStatus
      BY <2>1, <3>1 DEF WriteStatus, FreshInv
    <3>2. CASE cr' = cr /\ pc \in Rendering
      BY <2>1, <3>2 DEF RollInv
    <3>3. QED BY <2>1, <2>2, <3>1, <3>2
  <2>4. ASSUME pc' \in Rendered
        PROVE  cmAddr' = nc'.st.addr /\ owned'["config"] = nc'.life
    <3>1. CASE ApplyConfigMap
      BY <2>1, <3>1 DEF ApplyConfigMap, Apply, TypeOK, Kind
    <3>2. CASE pc \in Rendered /\ UNCHANGED <<owned["config"], cmAddr>>
      BY <2>1, <2>3, <3>2 DEF RollInv
    <3>3. CASE pc \in Rendered /\ CollectGarbage("config")
      BY <2>3, <3>3 DEF CollectGarbage, RollInv
    <3>4. QED BY <2>1, <2>4, <3>1, <3>2, <3>3, ConfigWrites
  <2>5. QED BY <2>3, <2>4
<1>3. QED
  BY <1>1, <1>2, TypeCorrect, FreshInvHolds, LivesInvHolds, PTL DEF Spec

\* The live CR's servers are only ever rolled onto the address that its status
\* publishes and its ConfigMap already carries, although the pass that rolls
\* them may have begun before the CR was edited, or deleted and recreated.
THEOREM RollsArePublished == Spec => RollIsPublished
<1>1. TypeOK /\ RollInv /\ [Next]_vars
        => [stsAddr' \notin {stsAddr, NoAddr} /\ owned'["statefulset"] = cr.life =>
              /\ cr.st.addr = stsAddr'
              /\ cmAddr = stsAddr' /\ owned["config"] = cr.life]_vars
  <2> SUFFICES ASSUME TypeOK, RollInv, [Next]_vars,
                      stsAddr' \notin {stsAddr, NoAddr},
                      owned'["statefulset"] = cr.life
               PROVE  /\ cr.st.addr = stsAddr'
                      /\ cmAddr = stsAddr' /\ owned["config"] = cr.life
    OBVIOUS
  <2>1. ApplyStatefulSet
    BY RollWrites DEF CollectGarbage
  <2>2. stsAddr' = nc.st.addr /\ nc.life = cr.life
    BY <2>1 DEF ApplyStatefulSet, Apply, TypeOK, Kind
  <2>3. QED
    BY <2>1, <2>2 DEF ApplyStatefulSet, RollInv, Rendering, Rendered
<1>2. QED BY <1>1, TypeCorrect, RollInvHolds, PTL DEF Spec, RollIsPublished

-----------------------------------------------------------------------------
(* Drift.  For a published address that is not yet that of the servers an  *)
(* Event was emitted; so too for the one a fresh copy is about to publish  *)
(* for a Ready cluster.  What makes it inductive is that the pass that     *)
(* rolls, and thereby clears emitted, rolls onto the published address     *)
(* (RollInv), and that the garbage collector leaves the servers of a Ready *)
(* cluster alone (ServersInv).                                             *)
Told(st) == stsAddr = st.addr \/ st.addr \in emitted

DriftInv ==
    /\ cr.st.phase = "Ready" => Told(cr.st)
    /\ ncFresh /\ nc.st.phase = "Ready" => Told(nc.st)
    /\ ncFresh /\ pc \in Rolled => stsAddr = nc.st.addr

LEMMA DriftInvHolds == Spec => []DriftInv
<1>1. Init => DriftInv
  BY InitialValues DEF Init, DriftInv, NewStatus
<1>2. /\ TypeOK /\ FreshInv /\ CopyInv /\ RollInv /\ ServersInv /\ DriftInv
      /\ [Next]_vars
      => DriftInv'
  <2> SUFFICES ASSUME TypeOK, FreshInv, CopyInv, RollInv, ServersInv, DriftInv,
                      [Next]_vars
               PROVE  DriftInv'
    OBVIOUS
  <2>a. NewStatus.phase # "Ready" /\ NoCR.st = NewStatus
    BY InitialValues DEF NewStatus
  <2>b. \A st : st.phase = "Ready" => Provisioned(st)
    BY DEF Provisioned
  <2>r. \/ /\ stsAddr' = stsAddr
           /\ emitted \subseteq emitted'
        \/ ApplyStatefulSet
        \/ ~ServersOfCR
    BY RollWrites DEF CollectGarbage, ServersOfCR
  <2>s. ASSUME ApplyStatefulSet
        PROVE  stsAddr' = nc.st.addr /\ pc = "statefulset" /\ UNCHANGED <<cr, nc>>
    BY <2>s DEF ApplyStatefulSet, Goto, apiVars
  <2>1. ASSUME cr'.st.phase = "Ready"
        PROVE  Told(cr.st)'
    <3>1. CASE cr' = cr
      <4>1. ServersOfCR /\ (pc # "idle" => nc.life = cr.life)
        BY <2>1, <2>b, <3>1 DEF ServersInv
      <4>2. CASE ApplyStatefulSet
        BY <2>s, <3>1, <4>1, <4>2 DEF RollInv, Rendering, Told
      <4>3. QED BY <2>r, <2>1, <3>1, <4>1, <4>2 DEF DriftInv, Told
    <3>2. CASE WriteStatus
      <4>1. cr' = nc /\ ncFresh /\ ServersOfCR
        BY <2>1, <2>b, <3>2 DEF WriteStatus, ServersInv
      <4>2. QED BY <2>r, <2>s, <2>1, <4>1 DEF DriftInv, Told
    <3>3. ~CreateCR
      BY <2>a, <2>1 DEF CreateCR
    <3>4. ~DeleteCR
      BY <2>a, <2>1 DEF DeleteCR
    <3>5. QED BY <3>1, <3>2, <3>3, <3>4, CRWrites
  <2>2. ASSUME Start, ncFresh', nc'.st.phase = "Ready"
        PROVE  Told(nc.st)'
    <3>1. cr' = cr /\ nc' = cr
      BY <2>2 DEF Start, FreshInv, apiVars
    <3>2. QED BY <2>1, <2>2, <3>1
  <2>3. ASSUME PassGoesOn, ncFresh', nc'.st.phase = "Ready"
        PROVE  Told(nc.st)'
    <3>1. ncFresh /\ ServersOfCR /\ Told(nc.st)
      BY <2>3, <2>b DEF PassGoesOn, ServersInv, DriftInv, Told
    <3>2. CASE \E a \in Addr : ResolveAddress(a)
      <4>1. PICK a \in Addr : ResolveAddress(a)
        BY <3>2
      <4>2. a # NoAddr
        BY ConstAssumption DEF ConstAssumption
      <4>3. /\ pc = "access" /\ UNCHANGED stsAddr
            /\ Announce(a)
            /\ SetStatus([nc.st EXCEPT !.addr = a, !.access = "True"])
        BY <4>1, <4>2 DEF ResolveAddress, ownVars
      <4>4. nc'.st.addr = a
        BY <4>3 DEF SetStatus, TypeOK, CR, Status
      <4>5. nc.st.phase = "Ready" /\ nc.st.addr # NoAddr
        BY <2>3, <2>b, <4>3
        DEF PassGoesOn, Rolled, CopyInv, AccessInv, HasAccess
      <4>6. CASE nc.st.addr = a
        BY <3>1, <4>3, <4>4, <4>6 DEF Announce, Told
      <4>7. CASE nc.st.addr # a
        BY <4>3, <4>4, <4>5, <4>7 DEF Announce, DriftEvent, Told
      <4>8. QED BY <4>6, <4>7
    <3>3. CASE nc'.st.addr = nc.st.addr
      BY <2>r, <2>s, <3>1, <3>3 DEF Told
    <3>4. QED BY <2>3, <3>2, <3>3 DEF PassGoesOn
  <2>4. ASSUME ncFresh', pc' \in Rolled
        PROVE  stsAddr' = nc'.st.addr
    <3>1. PassGoesOn
      BY <2>4, PassSteps DEF Start, EndPass, Rolled
    <3>2. CASE ApplyStatefulSet
      BY <2>s, <3>2
    <3>3. CASE ~ApplyStatefulSet
      <4>1. ncFresh /\ pc \in Rolled
        BY <2>4, <3>1, <3>3 DEF PassGoesOn
      <4>2. ServersOfCR /\ stsAddr = nc.st.addr
        BY <4>1 DEF ServersInv, DriftInv
      <4>3. nc'.st.addr = nc.st.addr
        BY <3>1, <4>1, ConstAssumption
        DEF PassGoesOn, ResolveAddress, Rolled, ConstAssumption
      <4>4. QED BY <2>r, <3>3, <4>2, <4>3
    <3>4. QED BY <3>2, <3>3
  <2>5. QED BY <2>1, <2>2, <2>3, <2>4, PassSteps DEF DriftInv, EndPass
<1>3. QED
  BY <1>1, <1>2, TypeCorrect, FreshInvHolds, CopyInvHolds, RollInvHolds,
     ServersInvHolds, PTL DEF Spec

\* A Ready cluster whose servers are not yet on the published address has had
\* the drift Event emitted for it, whatever crashed or conflicted between
\* detecting the new address, publishing it and rolling, and whichever pass does
\* each.  Emitted is not stored: the recorder queues it, and a crash loses it.
THEOREM DriftEventIsEmitted == Spec => []DriftIsEmitted
<1>1. DriftInv => DriftIsEmitted
  BY DEF DriftInv, Told, DriftIsEmitted
<1>2. QED BY <1>1, DriftInvHolds, PTL

=============================================================================
