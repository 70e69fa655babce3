---------------------------- MODULE NomadCluster ----------------------------
(***************************************************************************)
(* The NomadCluster reconciler: one NomadCluster custom resource (CR), the *)
(* pass that internal/controller/nomadcluster_controller.go runs over it   *)
(* again and again, and what the pass reads and writes.                    *)
(*                                                                         *)
(* A pass is not atomic.  Between any two of its remote calls a user may   *)
(* edit, delete or recreate the CR, the garbage collector may run, the     *)
(* external address or the certificate may change, Nomad may lose its      *)
(* leader, a call may fail and the operator may crash.  The pass therefore *)
(* is a sequence of steps, one per remote call, and pc names the call it   *)
(* is about to make.  Reads of Kubernetes objects go through an informer   *)
(* cache that lags behind the API server; writes go to the API server.     *)
(*                                                                         *)
(* A life is one incarnation (UID) of the CR: deleting and recreating the  *)
(* CR under the same name starts the next life.                            *)
(***************************************************************************)
EXTENDS Naturals

CONSTANTS
    Addr, NoAddr,      \* external addresses a Gateway or LoadBalancer may have
    Token, NoToken,    \* values newBootstrapToken may mint
    Key, NoKey,        \* values ensureGossipKey may draw
    Servers,           \* spec.servers
    Mode,              \* spec.externalAccess.mode, and gateway.mode
    MaxLives,          \* bound: how often the CR is created
    InPlaceWipe        \* may the servers' data be wiped under a live CR?

ASSUME ConstAssumption ==
    /\ NoAddr \notin Addr
    /\ NoToken \notin Token /\ Token # {}
    /\ NoKey \notin Key /\ Key # {}
    /\ Servers \in {1, 3, 5}
    /\ Mode \in {"LoadBalancer", "Managed", "Existing"}
    /\ Mode = "LoadBalancer" => Servers = 1
    /\ MaxLives \in Nat
    /\ InPlaceWipe \in BOOLEAN

VARIABLES
    (*********************** in the Kubernetes API server ******************)
    cr,          \* the CR: its life (0: absent) and its status
    lives,       \* lives started so far
    secret,      \* the bootstrap-token Secret: token, and annotated or not
    gossip,      \* the key in the gossip Secret
    owned,       \* owned[k]: life of the CR that controls object k (0: absent)
    cmAddr,      \* address in the ConfigMap
    stsAddr,     \* address the StatefulSet's config hash was computed over
    (*********************** the informer cache ****************************)
    crSeen,      \* the CR as the cache has it
    seenFresh,   \* is that the CR's current resourceVersion?
    secretSeen,  \* the token Secret as the cache has it
    gossipSeen,  \* does the cache have the gossip Secret?
    (*********************** the pass in progress **************************)
    pc,          \* the call the pass makes next; "idle": no pass
    nc,          \* the pass's copy of the CR
    ncFresh,     \* is nc's resourceVersion still the stored one?
    sec,         \* the pass's copy of the token Secret
    (*********************** Nomad *****************************************)
    nomadToken,  \* bootstrap token Nomad has registered, or NoToken
    (*********************** history ***************************************)
    emitted      \* addresses for which, since the last roll, a drift Event was
                 \* handed to the recorder; whether it is ever stored is not said

apiVars   == <<cr, lives, secret, gossip>>
ownVars   == <<owned, cmAddr, stsAddr>>
cacheVars == <<crSeen, seenFresh, secretSeen, gossipSeen>>
passVars  == <<pc, nc, ncFresh, sec>>
vars == <<apiVars, ownVars, cacheVars, passVars, nomadToken, emitted>>

-----------------------------------------------------------------------------
(* Status, CR and Secret values.  Conditions start out absent ("Unknown"). *)
(* access and acl are ExternalAccessReady and ACLBootstrapped.  The Ready   *)
(* condition is assigned with the phase, wherever the phase is; no step    *)
(* reads QuorumHealthy, Reconciled or RaftAddressDrift.                    *)

Phase == {"New", "Pending", "Bootstrapping", "Ready", "Degraded"}
Cond  == {"Unknown", "True", "False"}

Status == [phase : Phase, addr : Addr \cup {NoAddr},
           access : Cond, acl : Cond]

NewStatus == [phase |-> "New", addr |-> NoAddr,
              access |-> "Unknown", acl |-> "Unknown"]

CR   == [life : 0..MaxLives, st : Status]
NoCR == [life |-> 0, st |-> NewStatus]

Secret   == [token : Token \cup {NoToken}, marked : BOOLEAN]
NoSecret == [token |-> NoToken, marked |-> FALSE]

Kind == {"front", "config", "services", "routes", "statefulset", "pdb"}

Step == {"idle", "gossip", "cert", "front", "access", "persist", "config",
         "services", "routes", "statefulset", "pdb", "leader", "token",
         "bootstrap", "mark", "finish"}

\* The guard that keeps a transient blip from demoting a running cluster.
Provisioned(st) == st.phase \in {"Ready", "Degraded"}

TypeOK ==
    /\ cr \in CR /\ crSeen \in CR /\ nc \in CR
    /\ lives \in 0..MaxLives
    /\ secret \in Secret /\ secretSeen \in Secret /\ sec \in Secret
    /\ gossip \in Key \cup {NoKey}
    /\ seenFresh \in BOOLEAN /\ gossipSeen \in BOOLEAN
    /\ ncFresh \in BOOLEAN
    /\ owned \in [Kind -> 0..MaxLives]
    /\ cmAddr \in Addr \cup {NoAddr}
    /\ stsAddr \in Addr \cup {NoAddr}
    /\ pc \in Step
    /\ nomadToken \in Token \cup {NoToken}
    /\ emitted \in SUBSET Addr

Init ==
    /\ cr = NoCR /\ lives = 0
    /\ secret = NoSecret /\ gossip = NoKey
    /\ owned = [k \in Kind |-> 0] /\ cmAddr = NoAddr /\ stsAddr = NoAddr
    /\ crSeen = NoCR /\ seenFresh = TRUE
    /\ secretSeen = NoSecret /\ gossipSeen = FALSE
    /\ pc = "idle" /\ nc = NoCR /\ ncFresh = FALSE /\ sec = NoSecret
    /\ nomadToken = NoToken
    /\ emitted = {}

-----------------------------------------------------------------------------
(* The pass.  SetStatus(st) changes the status of the pass's copy of the   *)
(* CR; Goto(p) moves on to call p with the copy unchanged; Leave(st) takes *)
(* a copy with status st to finish(), which persists it.                   *)

Goto(p) == pc' = p /\ UNCHANGED <<nc, ncFresh, sec>>

SetStatus(st) == nc' = [nc EXCEPT !.st = st]

Leave(st) ==
    pc' = "finish" /\ SetStatus(st) /\ sec' = NoSecret /\ UNCHANGED ncFresh

EndPass == pc' = "idle" /\ nc' = NoCR /\ ncFresh' = FALSE /\ sec' = NoSecret

\* The work queue hands the CR to the one worker; the Get is a cache read.
Start ==
    /\ pc = "idle" /\ crSeen.life # 0
    /\ pc' = "gossip" /\ nc' = crSeen /\ ncFresh' = seenFresh
    /\ UNCHANGED <<apiVars, ownVars, cacheVars, sec, nomadToken, emitted>>

\* Mutant: a cached miss overwrites the Secret.
EnsureGossipKeyOverwriting ==
    /\ pc = "gossip"
    /\ IF gossipSeen THEN UNCHANGED gossip ELSE gossip' \in Key
    /\ Goto("cert")
    /\ UNCHANGED <<cr, lives, secret, ownVars, cacheVars, nomadToken, emitted>>

\* Mutant: Create without Get, and a Secret that is retained is an error.
EnsureGossipKeyOnce ==
    /\ pc = "gossip"
    /\ \/ gossip = NoKey /\ gossip' \in Key /\ Goto("cert")
       \/ gossip # NoKey /\ UNCHANGED gossip /\ EndPass
    /\ UNCHANGED <<cr, lives, secret, ownVars, cacheVars, nomadToken, emitted>>

\* A cached miss draws a key; Create loses to an existing Secret, silently.
EnsureGossipKey ==
    /\ pc = "gossip"
    /\ IF gossipSeen \/ gossip # NoKey
         THEN UNCHANGED gossip
         ELSE gossip' \in Key
    /\ Goto("cert")
    /\ UNCHANGED <<cr, lives, secret, ownVars, cacheVars,
                   nomadToken, emitted>>

\* Mutant: no flap guard on the certificate.
CertSecretReadyUnguarded(ready) ==
    /\ pc = "cert"
    /\ \/ ready /\ Goto(IF Mode = "Existing" THEN "access" ELSE "front")
       \/ ~ready /\ Leave([nc.st EXCEPT !.phase = "Pending"])
    /\ UNCHANGED <<apiVars, ownVars, cacheVars, nomadToken, emitted>>

\* ready: does the user's cert-manager Secret exist, complete?
CertSecretReady(ready) ==
    /\ pc = "cert"
    /\ \/ ready /\ Goto(IF Mode = "Existing" THEN "access" ELSE "front")
       \/ ~ready /\ Provisioned(nc.st) /\ Leave(nc.st)
       \/ /\ ~ready /\ ~Provisioned(nc.st)
          /\ Leave([nc.st EXCEPT !.phase = "Pending"])
    /\ UNCHANGED <<apiVars, ownVars, cacheVars, nomadToken, emitted>>

\* Server-side apply: creates the object or takes it over, whatever its
\* resourceVersion; the controller reference becomes the CR this pass holds.
Apply(k) == owned' = [owned EXCEPT ![k] = nc.life]

\* The operator's own Service of type LoadBalancer, or Gateway.
ApplyLoadBalancer ==
    /\ pc = "front" /\ Mode = "LoadBalancer"
    /\ Apply("front")
    /\ Goto("access")
    /\ UNCHANGED <<apiVars, cmAddr, stsAddr, cacheVars, nomadToken, emitted>>

ApplyGateway ==
    /\ pc = "front" /\ Mode # "LoadBalancer"
    /\ Apply("front")
    /\ Goto("access")
    /\ UNCHANGED <<apiVars, cmAddr, stsAddr, cacheVars, nomadToken, emitted>>

\* Mutant: no Warning for a single server.
DriftEventHAOnly(st, cur) == st.addr \notin {NoAddr, cur} /\ Servers > 1

\* checkAddressDrift: does moving from prev to cur raise an Event?
DriftEvent(st, cur) ==
    /\ st.addr \notin {NoAddr, cur}
    /\ Servers > 1 \/ st.phase = "Ready"

\* The Event goes to Recorder.Eventf, which queues it and returns.
Announce(a) ==
    emitted' = IF DriftEvent(nc.st, a) THEN emitted \cup {a} ELSE emitted

\* Mutant: ensureExistingGateway's setNotReady without its guard.
ResolveAddressUnguarded(addr) ==
    /\ pc = "access"
    /\ \/ /\ addr # NoAddr
          /\ pc' = "persist"
          /\ SetStatus([nc.st EXCEPT !.addr = addr, !.access = "True"])
          /\ UNCHANGED <<ncFresh, sec>>
       \/ addr = NoAddr /\ Leave([nc.st EXCEPT !.access = "False"])
    /\ UNCHANGED <<apiVars, ownVars, cacheVars, nomadToken, emitted>>

\* Mutant: an address that disappears is taken for a drifted one.
ResolveAddressUnchecked(addr) ==
    /\ pc = "access"
    /\ pc' = "persist"
    /\ SetStatus([nc.st EXCEPT !.addr = addr, !.access = "True"])
    /\ Announce(addr)
    /\ UNCHANGED <<apiVars, ownVars, cacheVars, ncFresh, sec, nomadToken>>

\* No address (yet, or for the moment), or an Existing Gateway that is missing
\* or does not serve this cluster: a provisioned cluster keeps its status, any
\* other is Pending, ExternalAccessReady False.
NoAccess(st) ==
    IF Provisioned(st) THEN st
    ELSE [st EXCEPT !.phase = "Pending", !.access = "False"]

\* Read the address back: addr, or NoAddr.
ResolveAddress(addr) ==
    /\ pc = "access"
    /\ \/ /\ addr # NoAddr
          /\ pc' = "persist"
          /\ SetStatus([nc.st EXCEPT !.addr = addr, !.access = "True"])
          /\ Announce(addr)
          /\ UNCHANGED <<ncFresh, sec>>
       \/ addr = NoAddr /\ Leave(NoAccess(nc.st)) /\ UNCHANGED emitted
    /\ UNCHANGED <<apiVars, ownVars, cacheVars, nomadToken>>

\* Status().Update: accepted only at the stored resourceVersion; an update
\* that changes nothing leaves the resourceVersion alone.
WriteStatus ==
    /\ ncFresh
    /\ cr' = nc
    /\ seenFresh' = (seenFresh /\ nc = cr)

\* Mutant: a conflict is logged and the pass goes on.
PersistAddressUnfenced ==
    /\ pc = "persist"
    /\ \/ WriteStatus
       \/ ~ncFresh /\ UNCHANGED <<cr, seenFresh>>
    /\ Goto("config")
    /\ UNCHANGED <<lives, secret, gossip, ownVars, crSeen, secretSeen,
                   gossipSeen, nomadToken, emitted>>

\* Mutant: a conflict retries the step with the same copy.
PersistAddressRetrying ==
    /\ pc = "persist"
    /\ \/ WriteStatus /\ Goto("config")
       \/ ~ncFresh /\ Goto("front") /\ UNCHANGED <<cr, seenFresh>>
    /\ UNCHANGED <<lives, secret, gossip, ownVars, crSeen, secretSeen,
                   gossipSeen, nomadToken, emitted>>

\* The address is persisted before anything is rendered from it.
PersistAddress ==
    /\ pc = "persist"
    /\ \/ WriteStatus /\ Goto("config")
       \/ ~ncFresh /\ EndPass /\ UNCHANGED <<cr, seenFresh>>
    /\ UNCHANGED <<lives, secret, gossip, ownVars, crSeen,
                   secretSeen, gossipSeen, nomadToken, emitted>>

ApplyConfigMap ==
    /\ pc = "config"
    /\ Apply("config") /\ cmAddr' = nc.st.addr
    /\ Goto("services")
    /\ UNCHANGED <<apiVars, stsAddr, cacheVars, nomadToken, emitted>>

\* The headless and the API Service.
ApplyServices ==
    /\ pc = "services"
    /\ Apply("services")
    /\ Goto(IF Mode = "LoadBalancer" THEN "statefulset" ELSE "routes")
    /\ UNCHANGED <<apiVars, cmAddr, stsAddr, cacheVars, nomadToken, emitted>>

\* Gateway modes only: per-pod Services, the TLSRoute and the TCPRoutes.
ApplyRoutes ==
    /\ pc = "routes"
    /\ Apply("routes")
    /\ Goto("statefulset")
    /\ UNCHANGED <<apiVars, cmAddr, stsAddr, cacheVars, nomadToken, emitted>>

\* A new config hash rolls the servers onto the new advertise address.
ApplyStatefulSet ==
    /\ pc = "statefulset"
    /\ Apply("statefulset") /\ stsAddr' = nc.st.addr
    /\ emitted' = {}
    /\ Goto("pdb")
    /\ UNCHANGED <<apiVars, cmAddr, cacheVars, nomadToken>>

\* Provisioning is complete: a cluster not provisioned before is
\* Bootstrapping from here on.
Seeded(st) ==
    IF st.phase \in {"New", "Pending"}
      THEN [st EXCEPT !.phase = "Bootstrapping"] ELSE st

ApplyPDB ==
    /\ pc = "pdb"
    /\ Apply("pdb")
    /\ pc' = "leader" /\ SetStatus(Seeded(nc.st))
    /\ UNCHANGED <<apiVars, cmAddr, stsAddr, cacheVars, ncFresh, sec,
                   nomadToken, emitted>>

\* Nomad answers only while its servers exist.
ServersRun == owned["statefulset"] # 0

\* Mutant: losing the leader leaves the phase alone.
QuorumLostUnreported(st) == st

\* No leader, or no answer: a Ready cluster is Degraded, any other waits.
QuorumLost(st) ==
    IF st.phase = "Ready" THEN [st EXCEPT !.phase = "Degraded"] ELSE st

\* answer: Nomad, if it runs, names a leader.  An error counts as none.
CheckLeader(answer) ==
    /\ pc = "leader"
    /\ \/ answer /\ ServersRun /\ Goto("token")
       \/ ~(answer /\ ServersRun) /\ Leave(QuorumLost(nc.st))
    /\ UNCHANGED <<apiVars, ownVars, cacheVars, nomadToken, emitted>>

\* Mutant: the error is reported, but the cluster is Ready all the same.
TokenFailedReady == Leave([nc.st EXCEPT !.acl = "False", !.phase = "Ready"])

\* What ensureBootstrapToken's caller does with its error: the phase stays.
TokenFailed == Leave([nc.st EXCEPT !.acl = "False"])

\* Mutant: a lost Create race is tolerated, as the gossip key's is.
EnsureTokenTolerant(answered) ==
    /\ pc = "token" /\ answered
    /\ pc' = "bootstrap"
    /\ \/ secretSeen # NoSecret /\ sec' = secretSeen /\ UNCHANGED secret
       \/ /\ secretSeen = NoSecret
          /\ \E t \in Token \ {nomadToken} :
               /\ sec' = [token |-> t, marked |-> FALSE]
               /\ secret' = IF secret = NoSecret THEN sec' ELSE secret
    /\ UNCHANGED <<cr, lives, gossip, ownVars, cacheVars, nc, ncFresh,
                   nomadToken, emitted>>

\* A cached miss mints a token and creates the Secret; unlike the gossip
\* key's, a lost Create race is an error.  answered FALSE: the Secret is
\* created but the response is lost.
EnsureToken(answered) ==
    /\ pc = "token"
    /\ \/ /\ secretSeen # NoSecret /\ answered
          /\ sec' = secretSeen /\ pc' = "bootstrap"
          /\ UNCHANGED <<secret, nc, ncFresh>>
       \/ /\ secretSeen = NoSecret /\ secret # NoSecret /\ answered
          /\ TokenFailed /\ UNCHANGED secret
       \/ /\ secretSeen = NoSecret /\ secret = NoSecret
          /\ \E t \in Token \ {nomadToken} :
               /\ secret' = [token |-> t, marked |-> FALSE]
               /\ \/ /\ answered /\ sec' = secret' /\ pc' = "bootstrap"
                     /\ UNCHANGED <<nc, ncFresh>>
                  \/ ~answered /\ TokenFailed
    /\ UNCHANGED <<cr, lives, gossip, ownVars, cacheVars,
                   nomadToken, emitted>>

\* ensureBootstrapToken returned nil.
TokenEnsured ==
    Leave([nc.st EXCEPT !.acl = "True", !.phase = "Ready"])

\* The token that Nomad honours once it has been asked to register t.
TokenAfter(t) == IF ServersRun /\ nomadToken = NoToken THEN t ELSE nomadToken

\* Mutant: the annotation short-circuits the call.
BootstrapACLShortCircuit(answered) ==
    /\ pc = "bootstrap" /\ answered
    /\ \/ sec.marked /\ TokenEnsured /\ UNCHANGED nomadToken
       \/ /\ ~sec.marked /\ nomadToken' = TokenAfter(sec.token)
          /\ IF ServersRun THEN Goto("mark") ELSE TokenFailed
    /\ UNCHANGED <<apiVars, ownVars, cacheVars, emitted>>

\* Mutant: "already bootstrapped" is an error like any other.
BootstrapACLStrict(answered) ==
    /\ pc = "bootstrap"
    /\ ServersRun \/ answered
    /\ nomadToken' = TokenAfter(sec.token)
    /\ LET accepted == answered /\ ServersRun /\ nomadToken = NoToken
       IN  \/ accepted /\ ~sec.marked /\ Goto("mark")
           \/ accepted /\ sec.marked /\ TokenEnsured
           \/ ~accepted /\ TokenFailed
    /\ UNCHANGED <<apiVars, ownVars, cacheVars, emitted>>

\* ACLBootstrap, on every pass: an un-bootstrapped Nomad registers the
\* token, any other says "already bootstrapped", which counts as success, and
\* servers that are gone say nothing.  answered FALSE: Nomad acted but its
\* response is lost.
BootstrapACL(answered) ==
    /\ pc = "bootstrap"
    /\ ServersRun \/ answered
    /\ nomadToken' = TokenAfter(sec.token)
    /\ \/ answered /\ ServersRun /\ ~sec.marked /\ Goto("mark")
       \/ answered /\ ServersRun /\ sec.marked /\ TokenEnsured
       \/ ~(answered /\ ServersRun) /\ TokenFailed
    /\ UNCHANGED <<apiVars, ownVars, cacheVars, emitted>>

\* Annotate the Secret; a conflict with a newer copy is an error.
MarkToken(answered) ==
    /\ pc = "mark"
    /\ \/ /\ secret = sec
          /\ secret' = [secret EXCEPT !.marked = TRUE]
          /\ IF answered THEN TokenEnsured ELSE TokenFailed
       \/ secret # sec /\ answered /\ TokenFailed /\ UNCHANGED secret
    /\ UNCHANGED <<cr, lives, gossip, ownVars, cacheVars,
                   nomadToken, emitted>>

\* The pass's last write; a conflict requeues it.
Finish ==
    /\ pc = "finish"
    /\ \/ WriteStatus
       \/ ~ncFresh /\ UNCHANGED <<cr, seenFresh>>
    /\ EndPass
    /\ UNCHANGED <<lives, secret, gossip, ownVars, crSeen,
                   secretSeen, gossipSeen, nomadToken, emitted>>

\* The pass as it goes when every call is answered ...
Steps ==
    \/ Start \/ EnsureGossipKey \/ ApplyLoadBalancer \/ ApplyGateway
    \/ PersistAddress \/ ApplyConfigMap \/ ApplyServices \/ ApplyRoutes
    \/ ApplyStatefulSet \/ ApplyPDB \/ EnsureToken(TRUE) \/ BootstrapACL(TRUE)
    \/ MarkToken(TRUE) \/ Finish

\* ... and is shown this: the cert Secret ready or not, the external
\* address, a leader or none.
PassSeeing(ready, addr, answer) ==
    Steps \/ CertSecretReady(ready) \/ ResolveAddress(addr)
          \/ CheckLeader(answer)

Pass ==
    \/ Steps
    \/ \E ready \in BOOLEAN : CertSecretReady(ready)
    \/ \E addr \in Addr \cup {NoAddr} : ResolveAddress(addr)
    \/ \E answer \in BOOLEAN : CheckLeader(answer)

-----------------------------------------------------------------------------
(* Faults.  A failed Kubernetes call returns from Reconcile; so does a     *)
(* crash, and so does a call that took effect but whose response was lost  *)
(* (the call's step followed by PassAborted).  Failed Nomad calls and      *)
(* failed token calls are reported in the status instead.                  *)

PassAborted ==
    /\ pc # "idle"
    /\ EndPass
    /\ UNCHANGED <<apiVars, ownVars, cacheVars, nomadToken, emitted>>

TokenCallFails ==
    /\ pc \in {"token", "bootstrap", "mark"}
    /\ TokenFailed
    /\ UNCHANGED <<apiVars, ownVars, cacheVars, nomadToken, emitted>>

Fault ==
    \/ PassAborted \/ TokenCallFails
    \/ EnsureToken(FALSE) \/ BootstrapACL(FALSE) \/ MarkToken(FALSE)

-----------------------------------------------------------------------------
(* The informer cache catches up.                                          *)

SyncCR ==
    /\ ~seenFresh
    /\ crSeen' = cr /\ seenFresh' = TRUE
    /\ UNCHANGED <<apiVars, ownVars, secretSeen, gossipSeen, passVars,
                   nomadToken, emitted>>

\* An absent Secret may first show up as it was created, unannotated.
SyncTokenSecret ==
    /\ secretSeen # secret
    /\ \/ secretSeen' = secret
       \/ secretSeen = NoSecret /\ secretSeen' = [secret EXCEPT !.marked = FALSE]
    /\ UNCHANGED <<apiVars, ownVars, crSeen, seenFresh, gossipSeen, passVars,
                   nomadToken, emitted>>

SyncGossipSecret ==
    /\ gossip # NoKey /\ ~gossipSeen
    /\ gossipSeen' = TRUE
    /\ UNCHANGED <<apiVars, ownVars, crSeen, seenFresh, secretSeen, passVars,
                   nomadToken, emitted>>

(* Users.  Deleting the CR leaves the two Secrets and the servers' data.   *)

CreateCR ==
    /\ cr = NoCR /\ lives < MaxLives
    /\ lives' = lives + 1
    /\ cr' = [life |-> lives + 1, st |-> NewStatus]
    /\ seenFresh' = FALSE
    /\ UNCHANGED <<secret, gossip, ownVars, crSeen, secretSeen,
                   gossipSeen, passVars, nomadToken, emitted>>

DeleteCR ==
    /\ cr # NoCR
    /\ cr' = NoCR
    /\ seenFresh' = FALSE /\ ncFresh' = FALSE
    /\ UNCHANGED <<lives, secret, gossip, ownVars, crSeen,
                   secretSeen, gossipSeen, pc, nc, sec, nomadToken, emitted>>

\* Any other write to the CR: it moves the resourceVersion.
TouchCR ==
    /\ cr # NoCR
    /\ seenFresh \/ ncFresh
    /\ seenFresh' = FALSE /\ ncFresh' = FALSE
    /\ UNCHANGED <<apiVars, ownVars, crSeen, secretSeen, gossipSeen, pc, nc,
                   sec, nomadToken, emitted>>

(* Kubernetes: an object whose controller is gone is garbage.              *)

CollectGarbage(k) ==
    /\ owned[k] \notin {0, cr.life}
    /\ owned' = [owned EXCEPT ![k] = 0]
    /\ cmAddr' = IF k = "config" THEN NoAddr ELSE cmAddr
    /\ stsAddr' = IF k = "statefulset" THEN NoAddr ELSE stsAddr
    /\ UNCHANGED <<apiVars, cacheVars, passVars, nomadToken, emitted>>

(* The Nomad servers.                                                      *)

\* The servers' volumes are deleted while they are down: the next servers
\* are a fresh Nomad.  Done between two lives, or, as the recovery runbook
\* describes for servers: 1, under a live CR.
WipeServerData ==
    /\ nomadToken # NoToken
    /\ ~ServersRun \/ InPlaceWipe
    /\ nomadToken' = NoToken
    /\ UNCHANGED <<apiVars, ownVars, cacheVars, passVars, emitted>>

\* From one life of the CR to the next.
Recreation == CreateCR \/ DeleteCR \/ WipeServerData

Environment == Recreation \/ TouchCR

\* Not part of Next: somebody deletes the bootstrap-token Secret, which the
\* operator retains and never deletes.  LossySpec adds it.
LoseTokenSecret ==
    /\ secret # NoSecret
    /\ secret' = NoSecret
    /\ UNCHANGED <<cr, lives, gossip, ownVars, cacheVars, passVars, nomadToken,
                   emitted>>

Background ==
    \/ SyncCR \/ SyncTokenSecret \/ SyncGossipSecret
    \/ \E k \in Kind : CollectGarbage(k)

Next == Pass \/ Fault \/ Background \/ Environment

Spec == Init /\ [][Next]_vars

LossySpec == Init /\ [][Next \/ LoseTokenSecret]_vars

(***************************************************************************)
(* Fairness.  The work queue never drops a key: a pass ends in a requeue,  *)
(* a backoff or a timed resync, and the worker keeps running it.  The      *)
(* watch stream and the garbage collector are live.                        *)
(***************************************************************************)
Fairness ==
    /\ WF_vars(Pass)
    /\ WF_vars(SyncCR) /\ WF_vars(SyncTokenSecret) /\ WF_vars(SyncGossipSecret)
    /\ WF_vars(\E k \in Kind : CollectGarbage(k))

FairSpec == Spec /\ Fairness

\* Without failing calls and edits, so that liveness can be checked on more
\* lives than FairSpec allows.
AnsweredSpec ==
    Init /\ [][Pass \/ Background \/ Recreation]_vars /\ Fairness

-----------------------------------------------------------------------------
(* Properties.                                                             *)

\* The bootstrap token that Nomad honours is the one in the Secret: no
\* interleaving of stale Secret reads, lost responses, crashes, deletions
\* and wipes strands the cluster with a token nobody holds
\* (ensureBootstrapToken: Secret first, and a lost Create race is an error).
RegisteredTokenIsStored ==
    nomadToken # NoToken => secret.token = nomadToken

\* A cluster reported Ready (or Degraded) is one whose current Nomad has
\* registered the stored, annotated token -- also after delete and recreate,
\* when the annotation survives but the Nomad it vouched for does not.
ReadyMeansRegistered ==
    ~InPlaceWipe /\ Provisioned(cr.st) =>
        nomadToken # NoToken /\ secret = [token |-> nomadToken, marked |-> TRUE]

\* A provisioned cluster keeps a published address and
\* ExternalAccessReady True through every blip of the address or its front.
ProvisionedKeepsAccess ==
    Provisioned(cr.st) => cr.st.access = "True" /\ cr.st.addr # NoAddr

\* checkAddressDrift: a Ready cluster whose servers are yet to be rolled
\* onto the published address has had the drift Event for that address
\* emitted, whichever passes detect, publish and roll, and whatever aborts or
\* conflicts in between.  Emitted is not stored: the recorder's queue is lost
\* with the operator.
DriftIsEmitted ==
    cr.st.phase = "Ready" /\ stsAddr # cr.st.addr => cr.st.addr \in emitted

\* A status write never demotes a provisioned cluster to Pending or
\* Bootstrapping within one life of the CR.
NeverDemoted ==
    [][cr'.life = cr.life /\ Provisioned(cr.st) => Provisioned(cr'.st)]_vars

\* The gossip key is never replaced once it exists: a second key would split
\* the Serf pool.
GossipKeyKept == [][gossip # NoKey => gossip' = gossip]_vars

\* The live CR's servers are only ever rolled onto the address that its
\* status publishes and its ConfigMap already carries.
RollIsPublished ==
    [][stsAddr' \notin {stsAddr, NoAddr} /\ owned'["statefulset"] = cr.life =>
         /\ cr.st.addr = stsAddr'
         /\ cmAddr = stsAddr' /\ owned["config"] = cr.life]_vars

\* The objects the active mode provisions.
Provisions ==
    CASE Mode = "LoadBalancer" -> Kind \ {"routes"}
      [] Mode = "Managed"      -> Kind
      [] Mode = "Existing"     -> Kind \ {"front"}

Converged(a) ==
    /\ cr.st = [phase |-> "Ready", addr |-> a, access |-> "True", acl |-> "True"]
    /\ \A k \in Provisions : owned[k] = cr.life
    /\ cmAddr = a /\ stsAddr = a
    /\ nomadToken = secret.token /\ nomadToken # NoToken

\* Once the environment is quiet -- the CR there, the cert ready, the address
\* settled, the servers answering once they run -- the cluster becomes and
\* stays Ready, with every object its own and the token registered.  FairSpec
\* gets it there from what faults, crashes, stale caches and wipes leave behind
\* in one life, AnsweredSpec from what an earlier life and its passes leave:
\* objects, Secrets, a fresh Nomad.
Converges ==
    \A a \in Addr :
        /\ <>[][PassSeeing(TRUE, a, TRUE) \/ Background]_vars
        /\ <>[](cr.life # 0)
        => <>[]Converged(a)

\* A cluster whose leader stays away is not left Ready.
LeaderLossIsReported ==
    (\E a \in Addr : <>[][PassSeeing(TRUE, a, FALSE) \/ Background]_vars)
        => <>[](cr.st.phase # "Ready")

\* What security.go:155 says of the already-bootstrapped answer: "the cluster
\* IS bootstrapped with this token".  The token Secret is annotated only while
\* Nomad's bootstrap token, if it has one, is the Secret's.  It follows from
\* RegisteredTokenIsStored in Spec; LossySpec violates it.
AnnotatedMeansThisToken ==
    [][secret'.marked /\ ~secret.marked =>
         nomadToken' \in {NoToken, secret'.token}]_vars

\* Deleting the CR for good leaves no object behind, although a pass that
\* still holds the CR re-applies objects after the deletion.
LeavesNothingBehind ==
    <>[](cr.life = 0) => <>[](\A k \in Kind : owned[k] = 0)
=============================================================================
