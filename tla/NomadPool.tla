----------------------------- MODULE NomadPool -----------------------------
(***************************************************************************)
(* The NomadPool reconciler: NomadPool custom resources (CRs) of one       *)
(* namespace that refer to one NomadCluster, the pass that                 *)
(* internal/controller/nomadpool_controller.go runs over one CR at a time, *)
(* and the node pools in Nomad that it registers and deletes.              *)
(*                                                                         *)
(* One worker runs the passes one after the other, but users, the garbage  *)
(* collector and the informer cache move between any two remote calls of a *)
(* pass, calls fail, and the operator may crash.  pc names the call that   *)
(* the pass is about to make; cache reads and decisions belong to the step *)
(* that precedes the next call.                                            *)
(***************************************************************************)
EXTENDS Naturals

CONSTANTS
    CRs,            \* names of NomadPool CRs
    Pools,          \* names of Nomad node pools
    PoolName,       \* PoolName[c]: spec.poolName of c, immutable
    Body,           \* managed content: description and meta
    Extra, NoExtra, \* unmanaged content: scheduler config, identity TTL
    NoPool,         \* what Nomad answers for a pool it does not have
    MaxLives,       \* bound: how often each CR is created
    MaxClusters,    \* bound: how often the cluster is created
    EditsPools      \* may others edit and delete pools in Nomad?

ASSUME ConstAssumption ==
    /\ CRs # {} /\ PoolName \in [CRs -> Pools]
    /\ Body # {} /\ NoExtra \in Extra
    /\ NoPool \notin [body : Body, extra : Extra]
    /\ MaxLives \in Nat /\ MaxClusters \in Nat /\ EditsPools \in BOOLEAN

VARIABLES
    api,          \* the CRs in the API server
    seen,         \* the CRs in the informer cache
    fresh,        \* fresh[c]: is seen[c] the stored resourceVersion?
    lives,        \* lives[c]: how often c has been created
    cluster,      \* the NomadCluster: its life (0: absent), phase, deletion
    clusterSeen,  \* the NomadCluster in the informer cache
    clusterLives, \* how often the cluster has been created
    pc, cur,      \* the pass: its next call, and the CR it works on
    np, npFresh,  \* its copy of that CR; is the copy's version the stored one?
    got,          \* the pool as the pass has fetched it
    pool,         \* the node pools in Nomad, and what keeps each of them
    left          \* history: may a deletion of the cluster still excuse a pool?

crVars      == <<api, seen, fresh, lives>>
clusterVars == <<cluster, clusterSeen, clusterLives, left>>
passVars    == <<pc, cur, np, npFresh, got>>
vars        == <<crVars, clusterVars, passVars, pool>>

-----------------------------------------------------------------------------
\* ready is the Ready condition by its reason, Unready standing for
\* ClusterNotFound and ClusterNotReady (BuiltinPool is behind an admission
\* rule that refuses such a CR); blocked is DeleteBlocked, never cleared.
Ready == {"Unknown", "Unready", "PoolNameConflict", "Registered"}

CR == [there : BOOLEAN, going : BOOLEAN, fin : BOOLEAN, owner : 0..MaxClusters,
       body : Body, ready : Ready, blocked : BOOLEAN]

NewCR(b) == [there |-> TRUE, going |-> FALSE, fin |-> FALSE, owner |-> 0,
             body |-> b, ready |-> "Unknown", blocked |-> FALSE]

NoCR == [NewCR(CHOOSE b \in Body : TRUE) EXCEPT !.there = FALSE]

Cluster   == [life : 0..MaxClusters, ready : BOOLEAN, going : BOOLEAN]
NoCluster == [life |-> 0, ready |-> FALSE, going |-> FALSE]

NodePool == [body : Body, extra : Extra]

Step == {"idle", "finalizer", "cluster", "owner", "list", "get", "upsert",
         "status", "delete", "drop"}

TypeOK ==
    /\ api \in [CRs -> CR] /\ seen \in [CRs -> CR] /\ np \in CR
    /\ fresh \in [CRs -> BOOLEAN] /\ npFresh \in BOOLEAN
    /\ lives \in [CRs -> 0..MaxLives] /\ clusterLives \in 0..MaxClusters
    /\ cluster \in Cluster /\ clusterSeen \in Cluster
    /\ pc \in Step /\ cur \in CRs
    /\ got \in NodePool \cup {NoPool}
    /\ pool \in [Pools -> NodePool \cup {NoPool}]
    /\ left \in BOOLEAN
    /\ \A c \in CRs : api[c].going => api[c].there /\ api[c].fin

Init ==
    /\ api = [c \in CRs |-> NoCR] /\ seen = api
    /\ fresh = [c \in CRs |-> TRUE] /\ lives = [c \in CRs |-> 0]
    /\ cluster = NoCluster /\ clusterSeen = NoCluster /\ clusterLives = 0
    /\ pc = "idle" /\ cur \in CRs /\ np = NoCR /\ npFresh = FALSE
    /\ got = NoPool
    /\ pool = [p \in Pools |-> NoPool]
    /\ left = FALSE

-----------------------------------------------------------------------------
(* The pass.                                                               *)

Goto(p) == pc' = p /\ UNCHANGED <<cur, np, npFresh, got>>

EndPass ==
    /\ pc' = "idle" /\ np' = NoCR /\ npFresh' = FALSE /\ got' = NoPool
    /\ UNCHANGED cur

\* Take the copy, changed to n, to the Status().Update that ends the pass.
Report(n) ==
    /\ pc' = "status" /\ np' = n
    /\ UNCHANGED <<cur, npFresh, got>>

\* Update and Status().Update are accepted at the stored resourceVersion only.
Write(n) ==
    /\ npFresh
    /\ api' = [api EXCEPT ![cur] = n]
    /\ fresh' = [fresh EXCEPT ![cur] = fresh[cur] /\ n = api[cur]]

Conflict == ~npFresh /\ EndPass /\ UNCHANGED <<api, fresh>>

\* Mutant: a cluster that is not Ready is taken for a cluster that is gone.
StartEager(c) ==
    /\ pc = "idle" /\ seen[c].there
    /\ seen[c].going => seen[c].fin
    /\ cur' = c /\ npFresh' = fresh[c] /\ np' = seen[c] /\ UNCHANGED got
    /\ pc' = IF ~seen[c].going
               THEN IF seen[c].fin THEN "cluster" ELSE "finalizer"
             ELSE IF clusterSeen.ready /\ ~clusterSeen.going THEN "delete"
             ELSE "drop"
    /\ UNCHANGED <<crVars, clusterVars, pool>>

\* Mutant: the finalizer does not look at the cluster's deletion.
StartBlocking(c) ==
    /\ pc = "idle" /\ seen[c].there
    /\ seen[c].going => seen[c].fin
    /\ cur' = c /\ npFresh' = fresh[c] /\ UNCHANGED got
    /\ LET p == IF ~seen[c].going
                  THEN IF seen[c].fin THEN "cluster" ELSE "finalizer"
                ELSE IF clusterSeen.life = 0 THEN "drop"
                ELSE IF clusterSeen.ready THEN "delete" ELSE "status"
       IN pc' = p /\ np' = [seen[c] EXCEPT !.blocked = @ \/ p = "status"]
    /\ UNCHANGED <<crVars, clusterVars, pool>>

\* The work queue hands the worker a CR the cache knows.  A terminating one
\* is finalized if it still has the finalizer; clusterSeen is a cache read.
Start(c) ==
    /\ pc = "idle" /\ seen[c].there
    /\ seen[c].going => seen[c].fin
    /\ cur' = c /\ npFresh' = fresh[c] /\ UNCHANGED got
    /\ \/ /\ ~seen[c].going
          /\ pc' = IF seen[c].fin THEN "cluster" ELSE "finalizer"
          /\ np' = seen[c]
       \/ /\ seen[c].going /\ (clusterSeen.life = 0 \/ clusterSeen.going)
          /\ pc' = "drop" /\ np' = seen[c]
       \/ /\ seen[c].going /\ clusterSeen.life # 0 /\ ~clusterSeen.going
          /\ ~clusterSeen.ready
          /\ pc' = "status" /\ np' = [seen[c] EXCEPT !.blocked = TRUE]
       \/ /\ seen[c].going /\ clusterSeen.ready /\ ~clusterSeen.going
          /\ pc' = "delete" /\ np' = seen[c]
    /\ UNCHANGED <<crVars, clusterVars, pool>>

\* The finalizer goes on before anything is done to Nomad.
AddFinalizer ==
    /\ pc = "finalizer"
    /\ \/ /\ Write([np EXCEPT !.fin = TRUE])
          /\ pc' = "cluster" /\ np' = [np EXCEPT !.fin = TRUE]
          /\ UNCHANGED <<cur, npFresh, got>>
       \/ Conflict
    /\ UNCHANGED <<seen, lives, clusterVars, pool>>

\* The cluster as the cache has it; SetControllerReference changes the copy.
ResolveCluster ==
    /\ pc = "cluster"
    /\ \/ ~clusterSeen.ready /\ Report([np EXCEPT !.ready = "Unready"])
       \/ /\ clusterSeen.ready
          /\ pc' = IF np.owner = clusterSeen.life THEN "list" ELSE "owner"
          /\ np' = [np EXCEPT !.owner = clusterSeen.life]
          /\ UNCHANGED <<cur, npFresh, got>>
    /\ UNCHANGED <<crVars, clusterVars, pool>>

SetOwner ==
    /\ pc = "owner"
    /\ \/ Write(np) /\ Goto("list")
       \/ Conflict
    /\ UNCHANGED <<seen, lives, clusterVars, pool>>

\* Mutant: only a CR that has been adopted counts.
HasPoolNameConflictAdopted ==
    \E d \in CRs \ {cur} :
        /\ seen[d].there /\ ~seen[d].going /\ seen[d].fin
        /\ PoolName[d] = PoolName[cur]

\* Another CR for the same pool, as far as the cache knows, that is not
\* itself being deleted.
HasPoolNameConflict ==
    \E d \in CRs \ {cur} :
        /\ seen[d].there /\ ~seen[d].going
        /\ PoolName[d] = PoolName[cur]

CheckConflict ==
    /\ pc = "list"
    /\ \/ HasPoolNameConflict /\ Report([np EXCEPT !.ready = "PoolNameConflict"])
       \/ ~HasPoolNameConflict /\ Goto("get")
    /\ UNCHANGED <<crVars, clusterVars, pool>>

\* Nomad answers while the cluster exists; it keeps its data without one.
NomadUp == cluster.life # 0

\* Managed fields from the CR, unmanaged ones from the pool as fetched.
DesiredNodePool(existing) ==
    [body |-> np.body,
     extra |-> IF existing = NoPool THEN NoExtra ELSE existing.extra]

\* Mutant: a pool that exists is never updated.
GetNodePoolOnce ==
    /\ pc = "get" /\ NomadUp
    /\ LET existing == pool[PoolName[cur]] IN
         IF existing = NoPool
           THEN pc' = "upsert" /\ got' = existing /\ UNCHANGED <<cur, np, npFresh>>
           ELSE Report([np EXCEPT !.ready = "Registered"])
    /\ UNCHANGED <<crVars, clusterVars, pool>>

\* The pass registers only what differs from the fetched pool.
GetNodePool ==
    /\ pc = "get" /\ NomadUp
    /\ LET existing == pool[PoolName[cur]] IN
         IF existing = NoPool \/ existing.body # np.body
           THEN pc' = "upsert" /\ got' = existing /\ UNCHANGED <<cur, np, npFresh>>
           ELSE Report([np EXCEPT !.ready = "Registered"])
    /\ UNCHANGED <<crVars, clusterVars, pool>>

UpsertNodePool ==
    /\ pc = "upsert" /\ NomadUp
    /\ pool' = [pool EXCEPT ![PoolName[cur]] = DesiredNodePool(got)]
    /\ pc' = "status" /\ np' = [np EXCEPT !.ready = "Registered"]
    /\ got' = NoPool
    /\ UNCHANGED <<crVars, clusterVars, cur, npFresh>>

\* Mutant: "no such pool" is an error like any other.
DeleteNodePoolStrict(answer) ==
    /\ pc = "delete"
    /\ \/ /\ answer /\ NomadUp /\ pool[PoolName[cur]] # NoPool
          /\ pool' = [pool EXCEPT ![PoolName[cur]] = NoPool]
          /\ Goto("drop")
       \/ /\ ~answer \/ pool[PoolName[cur]] = NoPool
          /\ UNCHANGED pool
          /\ Report([np EXCEPT !.blocked = TRUE])
    /\ UNCHANGED <<crVars, clusterVars>>

\* Nomad deletes the pool, does not have it, refuses because nodes or jobs
\* are in it, or does not answer.  answer: the call returned no error or 404.
DeleteNodePool(answer) ==
    /\ pc = "delete"
    /\ \/ /\ answer /\ NomadUp
          /\ pool' = [pool EXCEPT ![PoolName[cur]] = NoPool]
          /\ Goto("drop")
       \/ /\ ~answer /\ UNCHANGED pool
          /\ Report([np EXCEPT !.blocked = TRUE])
    /\ UNCHANGED <<crVars, clusterVars>>

\* Mutant: the finalizer is patched away, whatever the stored version.
DropFinalizerUnfenced ==
    /\ pc = "drop"
    /\ api' = [api EXCEPT ![cur] = [np EXCEPT !.fin = FALSE]]
    /\ fresh' = [fresh EXCEPT ![cur] = FALSE]
    /\ EndPass
    /\ UNCHANGED <<seen, lives, clusterVars, pool>>

\* The Update that removes the last finalizer of a terminating CR removes it.
DropFinalizer ==
    /\ pc = "drop"
    /\ \/ Write(NoCR) /\ EndPass
       \/ Conflict
    /\ UNCHANGED <<seen, lives, clusterVars, pool>>

UpdateStatus ==
    /\ pc = "status"
    /\ \/ Write(np) /\ EndPass
       \/ Conflict
    /\ UNCHANGED <<seen, lives, clusterVars, pool>>

\* Without a cluster Nomad does not answer, and the pass ends in an error.
NoAnswer ==
    /\ pc \in {"get", "upsert"} /\ ~NomadUp
    /\ EndPass
    /\ UNCHANGED <<crVars, clusterVars, pool>>

\* The pass over c, with Nomad willing to delete its pool.
Pass(c) ==
    \/ Start(c)
    \/ /\ cur = c
       /\ \/ AddFinalizer \/ ResolveCluster \/ SetOwner \/ CheckConflict
          \/ GetNodePool \/ UpsertNodePool \/ DropFinalizer \/ UpdateStatus
          \/ NoAnswer \/ DeleteNodePool(NomadUp)

(* A call fails, or takes effect with its response lost, or the operator   *)
(* crashes.  A deletion whose response is lost is reported like a refusal. *)
PassAborted ==
    /\ pc # "idle"
    /\ EndPass
    /\ UNCHANGED <<crVars, clusterVars, pool>>

DeletedUnanswered ==
    /\ pc = "delete" /\ NomadUp
    /\ pool' = [pool EXCEPT ![PoolName[cur]] = NoPool]
    /\ Report([np EXCEPT !.blocked = TRUE])
    /\ UNCHANGED <<crVars, clusterVars>>

Fault == PassAborted \/ DeletedUnanswered \/ DeleteNodePool(FALSE)

-----------------------------------------------------------------------------
(* Users.                                                                  *)

CreateCR(c, b) ==
    /\ ~api[c].there /\ lives[c] < MaxLives
    /\ api' = [api EXCEPT ![c] = NewCR(b)]
    /\ fresh' = [fresh EXCEPT ![c] = FALSE]
    /\ lives' = [lives EXCEPT ![c] = @ + 1]
    /\ npFresh' = (npFresh /\ cur # c)
    /\ UNCHANGED <<seen, clusterVars, pc, cur, np, got, pool>>

\* A write of another actor moves the resourceVersion.
OtherWrites(c, n) ==
    /\ api' = [api EXCEPT ![c] = n]
    /\ fresh' = [fresh EXCEPT ![c] = FALSE]
    /\ npFresh' = (npFresh /\ cur # c)
    /\ UNCHANGED <<seen, lives, clusterVars, pc, cur, np, got, pool>>

\* What a delete request leaves of a CR.
Deleted(o) == IF o.fin THEN [o EXCEPT !.going = TRUE] ELSE NoCR

DeleteCR(c) ==
    /\ api[c].there /\ ~api[c].going
    /\ OtherWrites(c, Deleted(api[c]))

EditCR(c, b) ==
    /\ api[c].there /\ ~api[c].going /\ b # api[c].body
    /\ OtherWrites(c, [api[c] EXCEPT !.body = b])

(* Kubernetes: the cache catches up; the dependents of an owner that is    *)
(* gone, or that is deleted in the foreground, are deleted, and a          *)
(* foreground deletion ends once none is left.                             *)

SyncCR(c) ==
    /\ ~fresh[c]
    /\ seen' = [seen EXCEPT ![c] = api[c]]
    /\ fresh' = [fresh EXCEPT ![c] = TRUE]
    /\ UNCHANGED <<api, lives, clusterVars, passVars, pool>>

SyncCluster ==
    /\ clusterSeen # cluster
    /\ clusterSeen' = cluster
    /\ UNCHANGED <<crVars, cluster, clusterLives, left, passVars, pool>>

CollectGarbage(c) ==
    /\ api[c].there /\ ~api[c].going /\ api[c].owner # 0
    /\ api[c].owner # cluster.life \/ cluster.going
    /\ OtherWrites(c, Deleted(api[c]))

ForegroundDone ==
    /\ cluster.going
    /\ \A c \in CRs : api[c].there => api[c].owner # cluster.life
    /\ cluster' = NoCluster
    /\ UNCHANGED <<crVars, clusterSeen, clusterLives, left, passVars, pool>>

(* The cluster, as NomadCluster models it, and what else happens to Nomad. *)

CreateCluster ==
    /\ cluster = NoCluster /\ clusterLives < MaxClusters
    /\ clusterLives' = clusterLives + 1
    /\ cluster' = [life |-> clusterLives + 1, ready |-> FALSE, going |-> FALSE]
    /\ UNCHANGED <<crVars, clusterSeen, left, passVars, pool>>

ClusterReady(r) ==
    /\ cluster.life # 0 /\ cluster.ready # r
    /\ cluster' = [cluster EXCEPT !.ready = r]
    /\ UNCHANGED <<crVars, clusterSeen, clusterLives, left, passVars, pool>>

DeleteCluster(foreground) ==
    /\ cluster.life # 0 /\ ~cluster.going
    /\ cluster' = IF foreground THEN [cluster EXCEPT !.going = TRUE]
                                ELSE NoCluster
    /\ left' = TRUE
    /\ UNCHANGED <<crVars, clusterSeen, clusterLives, passVars, pool>>

\* With no cluster, the servers' retained volumes may be deleted.  Nomad is
\* fresh then, and so is the operator if it has seen the cluster go and has no
\* pass that began before: otherwise the deletion may still mislead it.
WipeServerData ==
    /\ cluster = NoCluster /\ left
    /\ pool' = [p \in Pools |-> NoPool]
    /\ left' = (clusterSeen # cluster \/ pc # "idle")
    /\ UNCHANGED <<crVars, cluster, clusterSeen, clusterLives, passVars>>

\* Somebody edits or deletes a pool behind the operator's back.
EditPool(p, v) ==
    /\ EditsPools /\ NomadUp
    /\ pool[p] # NoPool /\ pool[p] # v
    /\ pool' = [pool EXCEPT ![p] = v]
    /\ UNCHANGED <<crVars, clusterVars, passVars>>

Users ==
    \E c \in CRs :
        DeleteCR(c) \/ \E b \in Body : CreateCR(c, b) \/ EditCR(c, b)

Background ==
    \/ SyncCluster \/ ForegroundDone
    \/ \E c \in CRs : SyncCR(c) \/ CollectGarbage(c)

ClusterMoves ==
    \/ CreateCluster \/ WipeServerData
    \/ \E b \in BOOLEAN : ClusterReady(b) \/ DeleteCluster(b)

Next ==
    \/ \E c \in CRs : Pass(c)
    \/ Fault \/ Users \/ Background \/ ClusterMoves
    \/ \E p \in Pools, v \in NodePool \cup {NoPool} : EditPool(p, v)

Spec == Init /\ [][Next]_vars

(***************************************************************************)
(* Fairness.  The work queue is first-in first-out and never drops a CR:   *)
(* every pass ends in a requeue, a backoff or a 60 s resync, so no CR can  *)
(* starve another.  The watch streams and the garbage collector are live.  *)
(***************************************************************************)
FairSpec ==
    /\ Spec
    /\ \A c \in CRs : /\ SF_vars(Pass(c))
                      /\ WF_vars(SyncCR(c)) /\ WF_vars(CollectGarbage(c))
    /\ WF_vars(SyncCluster) /\ WF_vars(ForegroundDone)

-----------------------------------------------------------------------------
(* Properties.                                                             *)

\* As long as the cluster has not been deleted since Nomad was fresh, every
\* pool that is in Nomad has a CR whose finalizer will delete it: finalizePool
\* neither gives up on a cluster that is merely not Ready nor on an error, and
\* Reconcile puts the finalizer on before it registers anything.  An operator
\* that still has a deletion to learn of is not held to it: it may register a
\* pool in the next cluster's Nomad, and give it up for the last one's end.
NoOrphan ==
    ~left => \A p \in Pools : pool[p] # NoPool =>
        \E c \in CRs : PoolName[c] = p /\ api[c].there /\ api[c].fin

SomeCR == CHOOSE c \in CRs : TRUE

Phase ==
    IF ~api[SomeCR].there THEN "absent" ELSE IF api[SomeCR].going THEN "going"
    ELSE IF api[SomeCR].fin THEN "held" ELSE "new"

Managed == INSTANCE ManagedObject WITH
    phase <- Phase, object <- pool[PoolName[SomeCR]] # NoPool,
    excused <- clusterLives > 0 /\ (cluster.life # 1 \/ cluster.going)

\* The reconciler keeps the promise of ManagedObject for a pool that one CR
\* names: no pool without a CR that holds it, no CR given up before its pool,
\* until the cluster is deleted for the first time.
PoolIsManaged == Managed!Spec

\* Two live CRs never both report that they registered the same pool, so they
\* never fight over it, although each decides on a cached list of the others.
AtMostOneRegistered ==
    \A c, d \in CRs :
        /\ c # d /\ PoolName[c] = PoolName[d]
        /\ api[c].ready = "Registered" /\ api[d].ready = "Registered"
        => api[c].going \/ api[d].going

Quiet == (\E c \in CRs : Pass(c)) \/ Background

\* Once users, faults and the cluster are quiet, the only CR for a pool has
\* its content in Nomad, is Registered and is owned by the current cluster,
\* from wherever faults, outside edits, earlier lives and wipes have left it.
Converges ==
    \A c \in CRs :
        /\ \A d \in CRs \ {c} : PoolName[d] # PoolName[c]
        /\ <>[][Quiet]_vars
        /\ <>[](cluster.ready /\ ~cluster.going)
        /\ <>[](api[c].there /\ ~api[c].going)
        => <>[](/\ pool[PoolName[c]] # NoPool
                /\ pool[PoolName[c]].body = api[c].body
                /\ api[c].ready = "Registered"
                /\ api[c].owner = cluster.life)

\* A deleted CR goes away once the cluster is Ready and Nomad lets the pool go,
\* or once the cluster is gone: also when an earlier Delete took effect unseen,
\* or the finalizer's Update failed after it.
DeletionCompletes ==
    \A c \in CRs :
        /\ <>[][Quiet]_vars
        /\ <>[](cluster.ready /\ ~cluster.going) \/ <>[](cluster.life = 0)
        => []<>~api[c].going

\* A foreground deletion of the cluster, which waits for the CRs it owns,
\* ends: their finalizers do not wait for a cluster that waits for them.
CascadeCompletes ==
    <>[][Quiet]_vars => <>[]~cluster.going

\* What nomadpool.md:75-83 says of duplicate CRs: "the pool's last-written
\* state is left alone", "resolve it by renaming or deleting one of the
\* conflicting CRs".  No pass deletes a pool that another live CR names.
DuplicateLeavesPool ==
    [][\A p \in Pools :
         pc = "delete" /\ pool[p] # NoPool /\ pool'[p] = NoPool =>
           \A d \in CRs \ {cur} :
               PoolName[d] = p => ~api[d].there \/ api[d].going]_vars
=============================================================================
