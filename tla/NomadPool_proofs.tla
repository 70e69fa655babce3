-------------------------- MODULE NomadPool_proofs --------------------------
(***************************************************************************)
(* Proofs about NomadPool, for any number of CRs, pools, lives and         *)
(* clusters.                                                               *)
(***************************************************************************)
EXTENDS NomadPool, TLAPS

-----------------------------------------------------------------------------
(* What a step does to the CRs, their cached copies and the pass.          *)

NoneLeft(o) == ~o.there /\ ~o.going /\ ~o.fin /\ o.ready = "Unknown"

\* What of a CR the finalizer logic and Nomad look at.
Same(o, n) ==
    /\ o.there = n.there /\ o.going = n.going
    /\ o.fin = n.fin /\ o.body = n.body

CRStays   == UNCHANGED <<api, seen, fresh>>
PassStays == UNCHANGED <<pc, cur, np, npFresh>>

AtRest(p, n, f) == p = "idle" /\ n \in CR /\ NoneLeft(n) /\ f = FALSE

Ends ==
    /\ CRStays /\ pc # "idle" /\ UNCHANGED cur
    /\ AtRest(pc', np', npFresh')

Begins ==
    /\ CRStays /\ pc = "idle"
    /\ cur' \in CRs /\ seen[cur'].there /\ npFresh' = fresh[cur']
    /\ np' \in CR /\ Same(np', seen[cur']) /\ np'.ready = seen[cur'].ready
    /\ \/ pc' = "finalizer" /\ ~seen[cur'].going /\ ~seen[cur'].fin
       \/ pc' = "cluster" /\ ~seen[cur'].going /\ seen[cur'].fin
       \/ pc' = "drop" /\ seen[cur'].going
            /\ (clusterSeen.life = 0 \/ clusterSeen.going)
       \/ pc' \in {"status", "delete"} /\ seen[cur'].going

\* The steps of a pass that leave the CR alone.
Order ==
    \/ pc = "cluster" /\ pc' = "status"
    \/ pc = "cluster" /\ pc' \in {"owner", "list"} /\ clusterSeen.ready
    \/ pc = "list" /\ pc' = "status"
    \/ pc = "list" /\ pc' = "get" /\ ~HasPoolNameConflict
    \/ pc = "get" /\ pc' \in {"upsert", "status"}
    \/ pc = "upsert" /\ pc' = "status"
    \/ pc = "delete" /\ pc' = "status"
    \/ pc = "delete" /\ pc' = "drop" /\ pool'[PoolName[cur]] = NoPool

Proceeds ==
    /\ CRStays /\ UNCHANGED <<cur, npFresh>>
    /\ np' \in CR /\ Same(np', np)
    /\ pc' # "status" => np'.ready = np.ready
    /\ pc \notin {"get", "upsert"}
         => np'.ready \in {"Unready", "PoolNameConflict", np.ready}
    /\ Order

\* A write of the CR c, which becomes n.
Rewrites(c, n, f) ==
    \A d \in CRs : /\ api'[d] = (IF d = c THEN n ELSE api[d])
                   /\ fresh'[d] = (IF d = c THEN f ELSE fresh[d])

Stored(n) ==
    /\ npFresh /\ UNCHANGED <<seen, cur>>
    /\ Rewrites(cur, n, fresh[cur] /\ n = api[cur])

Holds ==
    /\ pc = "finalizer" /\ pc' = "cluster" /\ Stored(np')
    /\ npFresh' = npFresh /\ np' = [np EXCEPT !.fin = TRUE]

Records ==
    /\ Stored(np)
    /\ \/ pc = "owner" /\ pc' = "list" /\ UNCHANGED <<np, npFresh>>
       \/ pc = "status" /\ AtRest(pc', np', npFresh')

Frees ==
    /\ pc = "drop" /\ Stored(NoCR) /\ AtRest(pc', np', npFresh')

\* Users and the garbage collector make n of the CR o.
Creates(o, n) == ~o.there /\ n.there /\ ~n.going /\ ~n.fin /\ n.ready = "Unknown"
Deletes(o, n) ==
    /\ o.there /\ ~o.going
    /\ IF o.fin THEN n.there /\ n.going /\ n.fin /\ n.ready = o.ready
                ELSE NoneLeft(n)
Edits(o, n) ==
    /\ o.there /\ ~o.going
    /\ n.there /\ ~n.going /\ n.fin = o.fin /\ n.ready = o.ready

Outside ==
    /\ UNCHANGED <<seen, pc, cur, np>>
    /\ \E c \in CRs, n \in CR :
         /\ Rewrites(c, n, FALSE)
         /\ npFresh' = (npFresh /\ cur # c)
         /\ Creates(api[c], n) \/ Deletes(api[c], n) \/ Edits(api[c], n)

Syncs ==
    /\ UNCHANGED api /\ PassStays
    /\ \E c \in CRs : \A d \in CRs :
         /\ seen'[d] = (IF d = c THEN api[d] ELSE seen[d])
         /\ fresh'[d] = (IF d = c THEN TRUE ELSE fresh[d])

Kinds ==
    \/ Begins \/ Proceeds \/ Ends
    \/ Holds \/ Records \/ Frees
    \/ Outside \/ Syncs \/ (CRStays /\ PassStays)

-----------------------------------------------------------------------------
Typed ==
    /\ api \in [CRs -> CR] /\ seen \in [CRs -> CR] /\ np \in CR
    /\ fresh \in [CRs -> BOOLEAN] /\ npFresh \in BOOLEAN
    /\ pc \in Step /\ cur \in CRs
    /\ cluster \in Cluster /\ clusterSeen \in Cluster
    /\ pool \in [Pools -> NodePool \cup {NoPool}]

LEMMA NewValues ==
    /\ NoCR \in CR /\ NoneLeft(NoCR)
    /\ \A b \in Body : /\ NewCR(b) \in CR /\ NewCR(b).there
                       /\ ~NewCR(b).going /\ ~NewCR(b).fin
                       /\ NewCR(b).ready = "Unknown"
<1>0. 0 \in 0..MaxClusters
  BY ConstAssumption DEF ConstAssumption
<1>1. ASSUME NEW b \in Body
      PROVE  /\ NewCR(b) \in CR /\ NewCR(b).there
             /\ ~NewCR(b).going /\ ~NewCR(b).fin
             /\ NewCR(b).ready = "Unknown"
  BY <1>0 DEF NewCR, CR, Ready
<1>2. NoCR \in CR /\ NoneLeft(NoCR)
  <2>1. (CHOOSE b \in Body : TRUE) \in Body
    BY ConstAssumption DEF ConstAssumption
  <2>2. QED BY <1>0, <2>1 DEF NoCR, NewCR, CR, Ready, NoneLeft
<1>3. QED BY <1>1, <1>2

LEMMA FieldUpdate ==
    ASSUME NEW o \in CR
    PROVE  /\ [o EXCEPT !.blocked = TRUE] \in CR
           /\ Same([o EXCEPT !.blocked = TRUE], o)
           /\ [o EXCEPT !.blocked = TRUE].ready = o.ready
           /\ \A r \in Ready : /\ [o EXCEPT !.ready = r] \in CR
                               /\ Same([o EXCEPT !.ready = r], o)
                               /\ [o EXCEPT !.ready = r].ready = r
           /\ \A l \in 0..MaxClusters :
                /\ [o EXCEPT !.owner = l] \in CR
                /\ Same([o EXCEPT !.owner = l], o)
                /\ [o EXCEPT !.owner = l].ready = o.ready
           /\ [o EXCEPT !.fin = TRUE] \in CR
           /\ [o EXCEPT !.fin = TRUE].there = o.there
           /\ [o EXCEPT !.fin = TRUE].going = o.going
           /\ [o EXCEPT !.fin = TRUE].fin
           /\ [o EXCEPT !.fin = TRUE].body = o.body
           /\ [o EXCEPT !.fin = TRUE].ready = o.ready
           /\ [o EXCEPT !.going = TRUE] \in CR
           /\ [o EXCEPT !.going = TRUE].there = o.there
           /\ [o EXCEPT !.going = TRUE].going
           /\ [o EXCEPT !.going = TRUE].fin = o.fin
           /\ [o EXCEPT !.going = TRUE].ready = o.ready
           /\ \A b \in Body : /\ [o EXCEPT !.body = b] \in CR
                              /\ [o EXCEPT !.body = b].there = o.there
                              /\ [o EXCEPT !.body = b].going = o.going
                              /\ [o EXCEPT !.body = b].fin = o.fin
                              /\ [o EXCEPT !.body = b].ready = o.ready
           /\ o.there \in BOOLEAN /\ o.going \in BOOLEAN /\ o.fin \in BOOLEAN
<1>1. /\ [o EXCEPT !.blocked = TRUE] \in CR
      /\ Same([o EXCEPT !.blocked = TRUE], o)
      /\ [o EXCEPT !.blocked = TRUE].ready = o.ready
  BY DEF CR, Same
<1>2. ASSUME NEW r \in Ready
      PROVE  /\ [o EXCEPT !.ready = r] \in CR
             /\ Same([o EXCEPT !.ready = r], o)
             /\ [o EXCEPT !.ready = r].ready = r
  BY DEF CR, Same
<1>3. ASSUME NEW l \in 0..MaxClusters
      PROVE  /\ [o EXCEPT !.owner = l] \in CR
             /\ Same([o EXCEPT !.owner = l], o)
             /\ [o EXCEPT !.owner = l].ready = o.ready
  BY DEF CR, Same
<1>4. /\ [o EXCEPT !.fin = TRUE] \in CR
      /\ [o EXCEPT !.fin = TRUE].there = o.there
      /\ [o EXCEPT !.fin = TRUE].going = o.going
      /\ [o EXCEPT !.fin = TRUE].fin
      /\ [o EXCEPT !.fin = TRUE].body = o.body
      /\ [o EXCEPT !.fin = TRUE].ready = o.ready
  BY DEF CR
<1>5. /\ [o EXCEPT !.going = TRUE] \in CR
      /\ [o EXCEPT !.going = TRUE].there = o.there
      /\ [o EXCEPT !.going = TRUE].going
      /\ [o EXCEPT !.going = TRUE].fin = o.fin
      /\ [o EXCEPT !.going = TRUE].ready = o.ready
  BY DEF CR
<1>6. ASSUME NEW b \in Body
      PROVE  /\ [o EXCEPT !.body = b] \in CR
             /\ [o EXCEPT !.body = b].there = o.there
             /\ [o EXCEPT !.body = b].going = o.going
             /\ [o EXCEPT !.body = b].fin = o.fin
             /\ [o EXCEPT !.body = b].ready = o.ready
  BY DEF CR
<1>7. o.there \in BOOLEAN /\ o.going \in BOOLEAN /\ o.fin \in BOOLEAN
  BY DEF CR
<1>8. QED BY <1>1, <1>2, <1>3, <1>4, <1>5, <1>6, <1>7

LEMMA EndOfPass ==
    EndPass => UNCHANGED cur /\ AtRest(pc', np', npFresh')
BY NewValues DEF EndPass, AtRest

LEMMA PassStores ==
    ASSUME Typed, NEW n \in CR, Write(n)
    PROVE  /\ npFresh /\ api' \in [CRs -> CR] /\ fresh' \in [CRs -> BOOLEAN]
           /\ Rewrites(cur, n, fresh[cur] /\ n = api[cur])
BY DEF Typed, Write, Rewrites

LEMMA OthersRewrite ==
    ASSUME Typed, NEW c \in CRs, NEW n \in CR,
           api' = [api EXCEPT ![c] = n], fresh' = [fresh EXCEPT ![c] = FALSE]
    PROVE  /\ api' \in [CRs -> CR] /\ fresh' \in [CRs -> BOOLEAN]
           /\ Rewrites(c, n, FALSE)
BY DEF Typed, Rewrites

\* What stays within the CRs' types, besides the pass.
StoreTyped ==
    /\ api' \in [CRs -> CR] /\ seen' \in [CRs -> CR]
    /\ fresh' \in [CRs -> BOOLEAN]

LEMMA PassKinds ==
    ASSUME Typed, (\E c \in CRs : Pass(c)) \/ Fault
    PROVE  /\ Begins \/ Proceeds \/ Ends \/ Holds \/ Records \/ Frees
           /\ StoreTyped
<1> USE DEF Typed
<1>1. CRStays => StoreTyped
  BY DEF CRStays, StoreTyped
<1>2. ASSUME NEW c \in CRs, Start(c)
      PROVE  Begins /\ CRStays
  <2>1. seen[c] \in CR /\ Same(seen[c], seen[c])
    BY DEF Same
  <2>2. /\ [seen[c] EXCEPT !.blocked = TRUE] \in CR
        /\ Same([seen[c] EXCEPT !.blocked = TRUE], seen[c])
        /\ [seen[c] EXCEPT !.blocked = TRUE].ready = seen[c].ready
    BY <2>1, FieldUpdate
  <2>3. QED
    BY <1>2, <2>1, <2>2 DEF Start, crVars, Begins, CRStays
<1> DEFINE Says(r) == [np EXCEPT !.ready = r]
           Blocked == [np EXCEPT !.blocked = TRUE]
<1>0. /\ \A r \in Ready : Says(r) \in CR /\ Same(Says(r), np) /\ Says(r).ready = r
      /\ Blocked \in CR /\ Same(Blocked, np) /\ Blocked.ready = np.ready
      /\ Same(np, np)
      /\ {"Unready", "PoolNameConflict", "Registered"} \subseteq Ready
  <2>1. Same(np, np) /\ {"Unready", "PoolNameConflict", "Registered"} \subseteq Ready
    BY DEF Same, Ready
  <2>2. np \in CR
    OBVIOUS
  <2>3. ASSUME NEW r \in Ready
        PROVE  Says(r) \in CR /\ Same(Says(r), np) /\ Says(r).ready = r
    BY <2>2, <2>3 DEF CR, Same
  <2>4. Blocked \in CR /\ Same(Blocked, np) /\ Blocked.ready = np.ready
    BY <2>2 DEF CR, Same
  <2>5. QED BY <2>1, <2>3, <2>4
<1>3. CASE AddFinalizer
  <2>1. CASE Conflict
    BY <1>1, <1>3, <2>1, EndOfPass DEF AddFinalizer, Conflict, Ends, CRStays
  <2>2. CASE Write([np EXCEPT !.fin = TRUE])
    <3>1. [np EXCEPT !.fin = TRUE] \in CR
      BY FieldUpdate
    <3>2. /\ npFresh /\ StoreTyped
          /\ Rewrites(cur, [np EXCEPT !.fin = TRUE],
                      fresh[cur] /\ [np EXCEPT !.fin = TRUE] = api[cur])
      BY <1>3, <2>2, <3>1, PassStores DEF AddFinalizer, StoreTyped
    <3>3. CASE Conflict
      BY <2>1, <3>3
    <3>4. CASE ~Conflict
      BY <1>3, <3>2, <3>4 DEF AddFinalizer, Holds, Stored
    <3>5. QED BY <3>3, <3>4
  <2>3. QED BY <1>3, <2>1, <2>2 DEF AddFinalizer
<1>4. CASE ResolveCluster
  <2>1. clusterSeen.life \in 0..MaxClusters
    BY DEF Cluster
  <2>2. /\ [np EXCEPT !.owner = clusterSeen.life] \in CR
        /\ Same([np EXCEPT !.owner = clusterSeen.life], np)
        /\ [np EXCEPT !.owner = clusterSeen.life].ready = np.ready
    BY <2>1 DEF CR, Same
  <2>3. Proceeds /\ CRStays
    BY <1>0, <1>4, <2>2
    DEF ResolveCluster, Report, crVars, Proceeds, Order, CRStays
  <2>4. QED BY <1>1, <2>3
<1>5. CASE SetOwner
  <2>1. CASE Conflict
    BY <1>1, <1>5, <2>1, EndOfPass DEF SetOwner, Conflict, Ends, CRStays
  <2>2. CASE Write(np) /\ Goto("list")
    BY <1>5, <2>2, PassStores DEF SetOwner, Goto, Records, Stored, StoreTyped
  <2>3. QED BY <1>5, <2>1, <2>2 DEF SetOwner
<1>6. CASE CheckConflict
  <2>1. Proceeds /\ CRStays
    BY <1>0, <1>6
    DEF CheckConflict, Report, Goto, crVars, Proceeds, Order, CRStays
  <2>2. QED BY <1>1, <2>1
<1>7. CASE GetNodePool
  <2>1. Proceeds /\ CRStays
    BY <1>0, <1>7
    DEF GetNodePool, Report, crVars, Proceeds, Order, CRStays
  <2>2. QED BY <1>1, <2>1
<1>8. CASE UpsertNodePool
  <2>1. Proceeds /\ CRStays
    BY <1>0, <1>8
    DEF UpsertNodePool, crVars, Proceeds, Order, CRStays
  <2>2. QED BY <1>1, <2>1
<1>9. ASSUME NEW a, DeleteNodePool(a) \/ DeletedUnanswered
      PROVE  Proceeds /\ CRStays
  <2>1. PoolName[cur] \in Pools
    BY ConstAssumption DEF ConstAssumption
  <2>2. QED
    BY <1>0, <1>9, <2>1
    DEF DeleteNodePool, DeletedUnanswered, Report, Goto, crVars, Proceeds,
        Order, CRStays
<1>10. CASE DropFinalizer
  <2>1. CASE Conflict
    BY <1>1, <1>10, <2>1, EndOfPass DEF DropFinalizer, Conflict, Ends, CRStays
  <2>2. CASE Write(NoCR) /\ EndPass
    BY <1>10, <2>2, NewValues, EndOfPass, PassStores
    DEF DropFinalizer, Frees, Stored, StoreTyped
  <2>3. QED BY <1>10, <2>1, <2>2 DEF DropFinalizer
<1>11. CASE UpdateStatus
  <2>1. CASE Conflict
    BY <1>1, <1>11, <2>1, EndOfPass DEF UpdateStatus, Conflict, Ends, CRStays
  <2>2. CASE Write(np) /\ EndPass
    BY <1>11, <2>2, EndOfPass, PassStores
    DEF UpdateStatus, Records, Stored, StoreTyped
  <2>3. QED BY <1>11, <2>1, <2>2 DEF UpdateStatus
<1>12. CASE NoAnswer \/ PassAborted
  BY <1>1, <1>12, EndOfPass DEF NoAnswer, PassAborted, crVars, Ends, CRStays
<1>13. QED
  BY <1>1, <1>2, <1>3, <1>4, <1>5, <1>6, <1>7, <1>8, <1>9, <1>10, <1>11, <1>12
  DEF Pass, Fault

LEMMA OutsideKinds ==
    ASSUME Typed, NEW c \in CRs,
           \/ DeleteCR(c) \/ CollectGarbage(c)
           \/ \E b \in Body : CreateCR(c, b) \/ EditCR(c, b)
    PROVE  Outside /\ StoreTyped
<1> USE DEF Typed
<1>0. api[c] \in CR /\ UNCHANGED <<seen, pc, cur, np>>
      /\ npFresh' = (npFresh /\ cur # c)
  BY DEF DeleteCR, CollectGarbage, CreateCR, EditCR, OtherWrites
<1>1. ASSUME NEW n \in CR,
             api' = [api EXCEPT ![c] = n], fresh' = [fresh EXCEPT ![c] = FALSE],
             Creates(api[c], n) \/ Deletes(api[c], n) \/ Edits(api[c], n)
      PROVE  Outside /\ StoreTyped
  BY <1>0, <1>1, OthersRewrite DEF Outside, StoreTyped
<1>2. CASE DeleteCR(c) \/ CollectGarbage(c)
  <2>1. [api[c] EXCEPT !.going = TRUE] \in CR
        /\ [api[c] EXCEPT !.going = TRUE].there = api[c].there
        /\ [api[c] EXCEPT !.going = TRUE].going
        /\ [api[c] EXCEPT !.going = TRUE].fin = api[c].fin
        /\ [api[c] EXCEPT !.going = TRUE].ready = api[c].ready
    BY <1>0, FieldUpdate
  <2>2. Deleted(api[c]) \in CR
    BY <2>1, NewValues DEF Deleted
  <2>3. /\ api[c].there /\ ~api[c].going
        /\ api' = [api EXCEPT ![c] = Deleted(api[c])]
        /\ fresh' = [fresh EXCEPT ![c] = FALSE]
    BY <1>2 DEF DeleteCR, CollectGarbage, OtherWrites
  <2>4. Deletes(api[c], Deleted(api[c]))
    BY <2>1, <2>3, NewValues DEF Deletes, Deleted
  <2>5. QED BY <1>1, <2>2, <2>3, <2>4
<1>3. ASSUME NEW b \in Body, CreateCR(c, b)
      PROVE  Outside /\ StoreTyped
  <2>1. /\ api' = [api EXCEPT ![c] = NewCR(b)]
        /\ fresh' = [fresh EXCEPT ![c] = FALSE] /\ ~api[c].there
    BY <1>3 DEF CreateCR
  <2>2. NewCR(b) \in CR /\ Creates(api[c], NewCR(b))
    BY <2>1, NewValues DEF Creates
  <2>3. QED BY <1>1, <2>1, <2>2
<1>4. ASSUME NEW b \in Body, EditCR(c, b)
      PROVE  Outside /\ StoreTyped
  <2>1. /\ api' = [api EXCEPT ![c] = [api[c] EXCEPT !.body = b]]
        /\ fresh' = [fresh EXCEPT ![c] = FALSE]
        /\ api[c].there /\ ~api[c].going
    BY <1>4 DEF EditCR, OtherWrites
  <2>2. /\ [api[c] EXCEPT !.body = b] \in CR
        /\ [api[c] EXCEPT !.body = b].there = api[c].there
        /\ [api[c] EXCEPT !.body = b].going = api[c].going
        /\ [api[c] EXCEPT !.body = b].fin = api[c].fin
        /\ [api[c] EXCEPT !.body = b].ready = api[c].ready
    BY <1>0 DEF CR
  <2>3. Edits(api[c], [api[c] EXCEPT !.body = b])
    BY <2>1, <2>2 DEF Edits
  <2>4. QED BY <1>1, <2>1, <2>2, <2>3
<1>5. QED BY <1>2, <1>3, <1>4

LEMMA StepKinds ==
    ASSUME Typed, [Next]_vars PROVE Kinds /\ StoreTyped
<1>1. CASE (\E c \in CRs : Pass(c)) \/ Fault
  BY <1>1, PassKinds DEF Kinds
<1>2. CASE Users \/ \E c \in CRs : CollectGarbage(c)
  BY <1>2, OutsideKinds DEF Kinds, Users
<1>3. ASSUME NEW c \in CRs, SyncCR(c)
      PROVE  Kinds /\ StoreTyped
  <2>1. StoreTyped
    BY <1>3 DEF SyncCR, Typed, StoreTyped
  <2>2. Syncs
    BY <1>3 DEF SyncCR, Typed, passVars, Syncs, PassStays
  <2>3. QED BY <2>1, <2>2 DEF Kinds
<1>4. CASE \/ SyncCluster \/ ForegroundDone \/ ClusterMoves
           \/ (\E p \in Pools, v \in NodePool \cup {NoPool} : EditPool(p, v))
           \/ UNCHANGED vars
  <2>1. CRStays /\ PassStays
    BY <1>4
    DEF SyncCluster, ForegroundDone, ClusterMoves, CreateCluster,
        WipeServerData, ClusterReady, DeleteCluster, EditPool, vars, crVars,
        passVars, CRStays, PassStays
  <2>2. QED BY <2>1 DEF Kinds, StoreTyped, CRStays, Typed
<1>5. QED
  BY <1>1, <1>2, <1>3, <1>4 DEF Next, Background

-----------------------------------------------------------------------------
(* The cluster.                                                            *)
ClusterOK ==
    /\ cluster \in Cluster /\ clusterSeen \in Cluster
    /\ clusterLives \in 0..MaxClusters /\ left \in BOOLEAN
    /\ cluster.ready \/ cluster.going => cluster.life # 0
    /\ clusterSeen.ready \/ clusterSeen.going => clusterSeen.life # 0
    /\ cluster.life <= clusterLives

\* The cluster has been deleted, or is being deleted, at least once.
Excused == clusterLives > 0 /\ (cluster.life # 1 \/ cluster.going)

ClusterSteps == SyncCluster \/ ForegroundDone \/ ClusterMoves

LEMMA ClusterStays ==
    ASSUME [Next]_vars, ~ClusterSteps PROVE UNCHANGED clusterVars
<1>1. CASE (\E c \in CRs : Pass(c)) \/ Fault
  BY <1>1
  DEF Pass, Fault, Start, AddFinalizer, ResolveCluster, SetOwner,
      CheckConflict, GetNodePool, UpsertNodePool, DropFinalizer, UpdateStatus,
      NoAnswer, DeleteNodePool, PassAborted, DeletedUnanswered
<1>2. CASE Users \/ \E c \in CRs : SyncCR(c) \/ CollectGarbage(c)
  BY <1>2
  DEF Users, DeleteCR, CreateCR, EditCR, OtherWrites, SyncCR, CollectGarbage
<1>3. CASE \/ \E p \in Pools, v \in NodePool \cup {NoPool} : EditPool(p, v)
           \/ UNCHANGED vars
  BY <1>3 DEF EditPool, vars
<1>4. QED BY <1>1, <1>2, <1>3 DEF Next, Background, ClusterSteps

LEMMA ClusterKinds ==
    ASSUME ClusterOK, [Next]_vars
    PROVE  /\ ClusterOK' /\ clusterSeen' \in {clusterSeen, cluster}
           /\ Excused => Excused'
           /\ left' => left \/ Excused'
           /\ ~left' /\ ~left /\ ~cluster.going
                => \/ UNCHANGED cluster
                   \/ cluster'.life # 0 /\ ~cluster'.going
           /\ ~left' /\ left
                => /\ cluster = NoCluster /\ clusterSeen = NoCluster
                   /\ pc = "idle" /\ UNCHANGED <<cluster, clusterSeen, pc>>
                   /\ pool' = [p \in Pools |-> NoPool]
<1> USE DEF ClusterOK
<1>0. /\ NoCluster \in Cluster /\ NoCluster.life = 0
      /\ ~NoCluster.ready /\ ~NoCluster.going
  <2>1. 0 \in 0..MaxClusters
    BY ConstAssumption DEF ConstAssumption
  <2>2. QED BY <2>1 DEF NoCluster, Cluster
<1>1. cluster.life \in 0..MaxClusters
  BY DEF Cluster
<1>2. CASE UNCHANGED clusterVars
  BY <1>2 DEF clusterVars, Excused
<1>3. CASE SyncCluster
  BY <1>3 DEF SyncCluster, Excused
<1>4. CASE ForegroundDone
  <2>1. /\ cluster' = NoCluster /\ UNCHANGED <<clusterSeen, clusterLives, left>>
        /\ cluster.going
    BY <1>4 DEF ForegroundDone
  <2>2. clusterLives > 0
    BY <1>1, <2>1, ConstAssumption DEF ConstAssumption
  <2>3. QED BY <1>0, <2>1, <2>2 DEF Excused
<1>5. CASE CreateCluster
  <2>1. /\ clusterLives' = clusterLives + 1 /\ clusterLives < MaxClusters
        /\ cluster' = [life |-> clusterLives + 1, ready |-> FALSE, going |-> FALSE]
        /\ UNCHANGED <<clusterSeen, left>>
    BY <1>5 DEF CreateCluster
  <2>2. clusterLives + 1 \in 0..MaxClusters
    BY <2>1, ConstAssumption DEF ConstAssumption
  <2>3. /\ cluster' \in Cluster /\ cluster'.life = clusterLives + 1
        /\ ~cluster'.ready /\ ~cluster'.going
    BY <2>1, <2>2 DEF Cluster
  <2>4. QED
    BY <2>1, <2>2, <2>3, ConstAssumption DEF Excused, ConstAssumption
<1>6. ASSUME NEW r \in BOOLEAN, ClusterReady(r)
      PROVE  /\ cluster' \in Cluster /\ cluster'.life = cluster.life
             /\ cluster'.going = cluster.going /\ cluster.life # 0
             /\ UNCHANGED <<clusterSeen, clusterLives, left>>
  BY <1>6 DEF ClusterReady, Cluster
<1>7. CASE \E r \in BOOLEAN : ClusterReady(r)
  BY <1>6, <1>7 DEF Excused
<1>8. ASSUME NEW f \in BOOLEAN, DeleteCluster(f)
      PROVE  /\ cluster' \in Cluster /\ left' = TRUE
             /\ UNCHANGED <<clusterSeen, clusterLives>>
             /\ cluster.life # 0
             /\ \/ cluster'.life = 0 /\ ~cluster'.ready /\ ~cluster'.going
                \/ cluster'.life = cluster.life /\ cluster'.going
  <2>1. /\ [cluster EXCEPT !.going = TRUE] \in Cluster
        /\ [cluster EXCEPT !.going = TRUE].life = cluster.life
        /\ [cluster EXCEPT !.going = TRUE].going
    BY DEF Cluster
  <2>2. QED BY <1>0, <1>8, <2>1 DEF DeleteCluster
<1>9. CASE \E f \in BOOLEAN : DeleteCluster(f)
  <2>1. /\ cluster' \in Cluster /\ left' = TRUE
        /\ UNCHANGED <<clusterSeen, clusterLives>>
        /\ cluster.life # 0
        /\ \/ cluster'.life = 0 /\ ~cluster'.ready /\ ~cluster'.going
           \/ cluster'.life = cluster.life /\ cluster'.going
    BY <1>8, <1>9
  <2>2. clusterLives > 0
    BY <1>1, <2>1, ConstAssumption DEF ConstAssumption
  <2>3. ClusterOK'
    BY <1>1, <2>1, ConstAssumption DEF ConstAssumption
  <2>4. Excused'
    BY <2>1, <2>2 DEF Excused
  <2>5. QED BY <2>1, <2>3, <2>4
<1>10. CASE WipeServerData
  BY <1>10 DEF WipeServerData, passVars, Excused
<1>11. QED
  <2>1. \/ UNCHANGED clusterVars \/ SyncCluster \/ ForegroundDone
        \/ CreateCluster \/ WipeServerData
        \/ (\E b \in BOOLEAN : ClusterReady(b))
        \/ (\E b \in BOOLEAN : DeleteCluster(b))
    BY ClusterStays DEF ClusterSteps, ClusterMoves
  <2>2. QED
    BY <1>2, <1>3, <1>4, <1>5, <1>7, <1>9, <1>10, <2>1

-----------------------------------------------------------------------------
(* Types.                                                                  *)
WellFormed(o) ==
    /\ o.going => o.there /\ o.fin
    /\ o.ready = "Registered" => o.there

CROK ==
    /\ Typed
    /\ \A c \in CRs : WellFormed(api[c]) /\ WellFormed(seen[c])
    /\ WellFormed(np) /\ (pc # "idle" => np.there)
    /\ lives \in [CRs -> 0..MaxLives]
    /\ got \in NodePool \cup {NoPool}

LEMMA ClusterOKHolds == Spec => []ClusterOK
<1>1. Init => ClusterOK
  <2>1. 0 \in 0..MaxClusters
    BY ConstAssumption DEF ConstAssumption
  <2>2. /\ NoCluster \in Cluster /\ NoCluster.life = 0
        /\ ~NoCluster.ready /\ ~NoCluster.going
    BY <2>1 DEF NoCluster, Cluster
  <2>3. ASSUME Init PROVE ClusterOK
    <3>1. /\ cluster = NoCluster /\ clusterSeen = NoCluster
          /\ clusterLives = 0 /\ left = FALSE
      BY <2>3 DEF Init
    <3>2. cluster \in Cluster /\ clusterSeen \in Cluster
      BY <2>2, <3>1
    <3>3. /\ clusterLives \in 0..MaxClusters /\ left \in BOOLEAN
          /\ cluster.life <= clusterLives
      <4>1. cluster.life = 0
        BY <2>2, <3>1
      <4>2. clusterLives \in 0..MaxClusters
        BY <2>1, <3>1
      <4>3. left \in BOOLEAN
        BY <3>1
      <4>4. cluster.life <= clusterLives
        BY <3>1, <4>1
      <4>5. QED BY <4>2, <4>3, <4>4
    <3>4. /\ ~cluster.ready /\ ~cluster.going
          /\ ~clusterSeen.ready /\ ~clusterSeen.going
      BY <2>2, <3>1
    <3>5. QED BY <3>2, <3>3, <3>4 DEF ClusterOK
  <2>4. QED BY <2>3
<1>2. ClusterOK /\ [Next]_vars => ClusterOK'
  BY ClusterKinds
<1>3. QED BY <1>1, <1>2, PTL DEF Spec

\* What Nomad has and has answered, and the lives of the CRs.
LEMMA PoolSteps ==
    ASSUME Typed, got \in NodePool \cup {NoPool},
           lives \in [CRs -> 0..MaxLives], [Next]_vars
    PROVE  /\ pool' \in [Pools -> NodePool \cup {NoPool}]
           /\ got' \in NodePool \cup {NoPool}
           /\ lives' \in [CRs -> 0..MaxLives]
           /\ \A p \in Pools : pool'[p] # NoPool =>
                \/ pool[p] # NoPool
                \/ pc = "upsert" /\ p = PoolName[cur]
           /\ pool' # pool => UNCHANGED <<api, cluster, clusterLives>>
<1> USE DEF Typed
<1>0. PoolName[cur] \in Pools /\ NoPool \in NodePool \cup {NoPool}
  BY ConstAssumption DEF ConstAssumption
<1>1. CASE UpsertNodePool
  <2>1. DesiredNodePool(got) \in NodePool
    BY ConstAssumption DEF ConstAssumption, DesiredNodePool, NodePool, CR
  <2>2. QED
    BY <1>0, <1>1, <2>1 DEF UpsertNodePool, crVars, clusterVars
<1>2. ASSUME NEW a, DeleteNodePool(a) \/ DeletedUnanswered
      PROVE  /\ pool' \in [Pools -> NodePool \cup {NoPool}]
             /\ \A p \in Pools : pool'[p] # NoPool => pool[p] # NoPool
             /\ UNCHANGED <<got, lives, api, cluster, clusterLives>>
  BY <1>0, <1>2
  DEF DeleteNodePool, DeletedUnanswered, Report, Goto, crVars, clusterVars
<1>3. CASE \/ AddFinalizer \/ ResolveCluster \/ SetOwner \/ CheckConflict
           \/ DropFinalizer \/ UpdateStatus \/ NoAnswer \/ PassAborted
           \/ \E c \in CRs : Start(c)
  BY <1>0, <1>3
  DEF AddFinalizer, ResolveCluster, SetOwner, CheckConflict, DropFinalizer,
      UpdateStatus, NoAnswer, PassAborted, Start, Conflict, EndPass, Report,
      Goto, crVars
<1>4. CASE GetNodePool
  BY <1>0, <1>4 DEF GetNodePool, Report, crVars
<1>5. CASE \E c \in CRs : DeleteCR(c) \/ CollectGarbage(c) \/ SyncCR(c)
                           \/ \E b \in Body : EditCR(c, b)
  BY <1>5 DEF DeleteCR, CollectGarbage, SyncCR, EditCR, OtherWrites, passVars
<1>6. CASE \E c \in CRs, b \in Body : CreateCR(c, b)
  <2>1. PICK c \in CRs, b \in Body : CreateCR(c, b)
    BY <1>6
  <2>2. lives[c] + 1 \in 0..MaxLives
    BY <2>1, ConstAssumption DEF ConstAssumption, CreateCR
  <2>3. QED BY <2>1, <2>2 DEF CreateCR
<1>7. CASE SyncCluster \/ ForegroundDone \/ ClusterMoves
  <2>1. UNCHANGED <<got, lives, api>>
    BY <1>7
    DEF SyncCluster, ForegroundDone, ClusterMoves, CreateCluster,
        WipeServerData, ClusterReady, DeleteCluster, crVars, passVars
  <2>2. \/ UNCHANGED pool
        \/ pool' = [p \in Pools |-> NoPool] /\ UNCHANGED <<cluster, clusterLives>>
    BY <1>7
    DEF SyncCluster, ForegroundDone, ClusterMoves, CreateCluster,
        WipeServerData, ClusterReady, DeleteCluster
  <2>3. QED BY <1>0, <2>1, <2>2
<1>8. CASE \E p \in Pools, v \in NodePool \cup {NoPool} : EditPool(p, v)
  BY <1>8 DEF EditPool, crVars, clusterVars, passVars
<1>9. CASE UNCHANGED vars
  BY <1>9 DEF vars, crVars, passVars
<1>10. QED
  BY <1>1, <1>2, <1>3, <1>4, <1>5, <1>6, <1>7, <1>8, <1>9
  DEF Next, Pass, Fault, Users, Background

LEMMA CROKHolds == Spec => []CROK
<1>1. Init => CROK
  <2> SUFFICES ASSUME Init PROVE CROK
    OBVIOUS
  <2>1. Typed
    <3>1. 0 \in 0..MaxClusters
      BY ConstAssumption DEF ConstAssumption
    <3>2. NoCluster \in Cluster
      BY <3>1 DEF NoCluster, Cluster
    <3>3. QED BY <3>2, NewValues DEF Init, Typed, Step
  <2>2. /\ \A c \in CRs : WellFormed(api[c]) /\ WellFormed(seen[c])
        /\ WellFormed(np)
    BY NewValues DEF Init, WellFormed, NoneLeft
  <2>3. pc = "idle" /\ lives \in [CRs -> 0..MaxLives] /\ got \in NodePool \cup {NoPool}
    BY ConstAssumption DEF Init, ConstAssumption
  <2>4. QED BY <2>1, <2>2, <2>3 DEF CROK
<1>2. CROK /\ ClusterOK /\ [Next]_vars => CROK'
  <2> SUFFICES ASSUME CROK, ClusterOK, [Next]_vars PROVE CROK'
    OBVIOUS
  <2>1. Kinds /\ StoreTyped
    BY StepKinds DEF CROK
  <2>2. [np EXCEPT !.fin = TRUE] \in CR
        /\ [np EXCEPT !.fin = TRUE].there = np.there
        /\ [np EXCEPT !.fin = TRUE].going = np.going
        /\ [np EXCEPT !.fin = TRUE].fin
        /\ [np EXCEPT !.fin = TRUE].ready = np.ready
    BY FieldUpdate DEF CROK, Typed
  <2> USE DEF CROK
  <2>3. Typed'
    <3>1. cluster' \in Cluster /\ clusterSeen' \in Cluster
      BY ClusterKinds DEF ClusterOK
    <3>2. pool' \in [Pools -> NodePool \cup {NoPool}]
      BY PoolSteps
    <3>3. /\ pc' \in Step /\ cur' \in CRs /\ np' \in CR
          /\ npFresh' \in BOOLEAN
      BY <2>1, <2>2
      DEF Typed, Step, Kinds, Begins, Proceeds, Order, Ends, Holds, Records,
          Frees, Outside, Syncs, CRStays, PassStays, Stored, AtRest
    <3>4. QED BY <2>1, <3>1, <3>2, <3>3 DEF Typed, StoreTyped
  <2>4. WellFormed(np') /\ (pc' # "idle" => np'.there)
    <3>1. CASE Begins
      <4>1. WellFormed(seen[cur'])
        BY <3>1 DEF Begins
      <4>2. QED BY <3>1, <4>1 DEF Begins, Same, WellFormed
    <3>2. CASE Proceeds
      <4>1. pc # "idle"
        BY <3>2 DEF Proceeds, Order
      <4>2. QED BY <3>2, <4>1 DEF Proceeds, Same, WellFormed
    <3>3. CASE Holds
      BY <2>2, <3>3 DEF Holds, WellFormed
    <3>4. CASE AtRest(pc', np', npFresh')
      BY <3>4 DEF AtRest, NoneLeft, WellFormed
    <3>5. CASE UNCHANGED np /\ (pc # "idle" \/ UNCHANGED pc)
      BY <3>5
    <3>6. QED
      BY <2>1, <3>1, <3>2, <3>3, <3>4, <3>5
      DEF Kinds, Ends, Records, Frees, Outside, Syncs, PassStays
  <2>5. ASSUME NEW c \in CRs
        PROVE  WellFormed(api'[c])
    <3>1. CASE Holds
      <4>1. WellFormed([np EXCEPT !.fin = TRUE])
        BY <2>2, <3>1 DEF WellFormed
      <4>2. QED BY <2>5, <3>1, <4>1 DEF Holds, Stored, Rewrites
    <3>2. CASE Records
      BY <2>5, <3>2 DEF Records, Stored, Rewrites
    <3>3. CASE Frees
      <4>1. WellFormed(NoCR)
        BY NewValues DEF NoneLeft, WellFormed
      <4>2. QED BY <2>5, <3>3, <4>1 DEF Frees, Stored, Rewrites
    <3>4. CASE Outside
      BY <2>5, <3>4
      DEF Outside, Rewrites, Creates, Deletes, Edits, NoneLeft, WellFormed
    <3>5. CASE UNCHANGED api
      BY <3>5
    <3>6. QED
      BY <2>1, <3>1, <3>2, <3>3, <3>4, <3>5
      DEF Kinds, Begins, Proceeds, Ends, Syncs, CRStays
  <2>6. ASSUME NEW c \in CRs
        PROVE  WellFormed(seen'[c])
    BY <2>1, <2>6
    DEF Kinds, Begins, Proceeds, Ends, Holds, Records, Frees, Outside, Syncs,
        CRStays, Stored
  <2>7. /\ lives' \in [CRs -> 0..MaxLives]
        /\ got' \in NodePool \cup {NoPool}
    BY PoolSteps
  <2>8. QED BY <2>3, <2>4, <2>5, <2>6, <2>7
<1>3. QED BY <1>1, <1>2, ClusterOKHolds, PTL DEF Spec

\* The CRs, their cached copies, the pass and Nomad are what the code can
\* represent, within the bounds, and a terminating CR carries the finalizer.
THEOREM TypeCorrect == Spec => []TypeOK
<1>1. CROK /\ ClusterOK => TypeOK
  BY DEF CROK, ClusterOK, Typed, WellFormed, TypeOK
<1>2. QED BY <1>1, CROKHolds, ClusterOKHolds, PTL

-----------------------------------------------------------------------------
(* A CR that is used for its pool has the finalizer.  The copies are       *)
(* behind the stored CR, but never on the other side of the finalizer: only*)
(* a pass that has seen the deletion takes it off.                         *)
CopiesInv ==
    /\ \A c \in CRs : fresh[c] => seen[c] = api[c]
    /\ npFresh => /\ Same(np, api[cur]) /\ np.there /\ seen[cur].there
                  /\ seen[cur].going = api[cur].going
    /\ \A c \in CRs : seen[c].there /\ seen[c].fin /\ ~seen[c].going
                        => api[c].there /\ api[c].fin

PassInv ==
    /\ pc \in {"cluster", "owner", "list", "get", "upsert"}
         => api[cur].there /\ api[cur].fin
    /\ pc = "finalizer" => np.there /\ ~np.going /\ ~np.fin
    /\ pc \in {"delete", "drop"} => np.going

HoldInv == CopiesInv /\ PassInv

LEMMA HoldInvHolds == Spec => []HoldInv
<1>1. Init => HoldInv
  BY NewValues DEF Init, HoldInv, CopiesInv, PassInv, NoneLeft
<1>2. CROK /\ HoldInv /\ [Next]_vars => HoldInv'
  <2> SUFFICES ASSUME CROK, HoldInv, [Next]_vars PROVE HoldInv'
    OBVIOUS
  <2>1. Kinds /\ cur' \in CRs
    BY StepKinds
    DEF CROK, Typed, Kinds, Begins, Proceeds, Ends, Holds, Records, Frees,
        Outside, Syncs, PassStays, Stored
  <2>2. /\ cur \in CRs /\ npFresh \in BOOLEAN /\ fresh \in [CRs -> BOOLEAN]
        /\ \A c \in CRs : api[c] \in CR /\ seen[c] \in CR
        /\ np \in CR
    BY DEF CROK, Typed
  <2>3. /\ \A c \in CRs : /\ api[c].there \in BOOLEAN /\ api[c].going \in BOOLEAN
                          /\ seen[c].going \in BOOLEAN
        /\ np.there \in BOOLEAN /\ np.going \in BOOLEAN
    BY <2>2, FieldUpdate
  <2> USE DEF HoldInv, CopiesInv, PassInv
  <2>4. CASE Begins
    BY <2>1, <2>2, <2>4 DEF Begins, CRStays, Same
  <2>5. CASE Proceeds
    BY <2>2, <2>5 DEF Proceeds, Order, CRStays, Same
  <2>6. CASE Ends
    BY <2>2, <2>6 DEF Ends, AtRest, CRStays
  <2>7. CASE Holds
    <3>1. /\ np'.there = np.there /\ np'.going = np.going /\ np'.fin
          /\ np.there /\ ~np.going /\ ~np.fin /\ Same(np, api[cur])
      BY <2>2, <2>7, FieldUpdate DEF Holds, Stored
    <3>2. /\ api'[cur] = np' /\ UNCHANGED <<seen, cur, npFresh>>
          /\ \A c \in CRs \ {cur} : api'[c] = api[c] /\ fresh'[c] = fresh[c]
          /\ fresh'[cur] = (fresh[cur] /\ api'[cur] = api[cur])
          /\ pc' = "cluster" /\ npFresh
      BY <2>2, <2>7 DEF Holds, Stored, Rewrites
    <3>3. \A c \in CRs : fresh'[c] => seen'[c] = api'[c]
      BY <2>2, <3>2
    <3>4. Same(np', api'[cur]) /\ api'[cur].going = api[cur].going
      BY <3>1, <3>2 DEF Same
    <3>5. \A c \in CRs : seen'[c].there /\ seen'[c].fin /\ ~seen'[c].going
                           => api'[c].there /\ api'[c].fin
      BY <3>1, <3>2
    <3>6. QED BY <3>1, <3>2, <3>3, <3>4, <3>5
  <2>8. CASE Records
    <3>1. /\ api'[cur] = np /\ UNCHANGED <<seen, cur>> /\ npFresh
          /\ \A c \in CRs \ {cur} : api'[c] = api[c] /\ fresh'[c] = fresh[c]
          /\ fresh'[cur] = (fresh[cur] /\ api'[cur] = api[cur])
      BY <2>2, <2>8 DEF Records, Stored, Rewrites
    <3>2. Same(np, api[cur])
      BY <3>1
    <3>3. \A c \in CRs : fresh'[c] => seen'[c] = api'[c]
      BY <2>2, <3>1
    <3>4. \A c \in CRs : seen'[c].there /\ seen'[c].fin /\ ~seen'[c].going
                           => api'[c].there /\ api'[c].fin
      BY <3>1, <3>2 DEF Same
    <3>5. CASE pc = "owner" /\ pc' = "list" /\ UNCHANGED <<np, npFresh>>
      BY <2>2, <3>1, <3>2, <3>3, <3>4, <3>5 DEF Same
    <3>6. CASE AtRest(pc', np', npFresh')
      BY <3>3, <3>4, <3>6 DEF AtRest
    <3>7. QED BY <2>8, <3>5, <3>6 DEF Records
  <2>9. CASE Frees
    <3>1. /\ UNCHANGED <<seen, cur>> /\ npFresh /\ AtRest(pc', np', npFresh')
          /\ \A c \in CRs \ {cur} : api'[c] = api[c] /\ fresh'[c] = fresh[c]
          /\ fresh'[cur] = (fresh[cur] /\ api'[cur] = api[cur])
      BY <2>2, <2>9 DEF Frees, Stored, Rewrites
    <3>2. np.going /\ Same(np, api[cur]) /\ seen[cur].going = api[cur].going
      BY <2>9, <3>1 DEF Frees
    <3>3. seen[cur].going
      BY <3>2 DEF Same
    <3>4. \A c \in CRs : fresh'[c] => seen'[c] = api'[c]
      BY <2>2, <3>1
    <3>5. QED BY <3>1, <3>3, <3>4 DEF AtRest
  <2>10. CASE Outside
    <3>1. PICK c \in CRs, n \in CR :
            /\ Rewrites(c, n, FALSE)
            /\ npFresh' = (npFresh /\ cur # c)
            /\ Creates(api[c], n) \/ Deletes(api[c], n) \/ Edits(api[c], n)
      BY <2>10 DEF Outside
    <3>2. /\ api'[c] = n /\ ~fresh'[c] /\ UNCHANGED <<seen, pc, cur, np>>
          /\ \A d \in CRs \ {c} : api'[d] = api[d] /\ fresh'[d] = fresh[d]
      BY <2>10, <3>1 DEF Outside, Rewrites
    <3>3. api[c].there /\ api[c].fin => n.there /\ n.fin
      BY <3>1 DEF Creates, Deletes, Edits
    <3>4. QED BY <2>2, <3>1, <3>2, <3>3
  <2>11. CASE Syncs
    <3>1. PICK c \in CRs : \A d \in CRs :
            /\ seen'[d] = (IF d = c THEN api[d] ELSE seen[d])
            /\ fresh'[d] = (IF d = c THEN TRUE ELSE fresh[d])
      BY <2>11 DEF Syncs
    <3>2. UNCHANGED api /\ PassStays
      BY <2>11 DEF Syncs
    <3>3. npFresh => api[cur].there
      BY DEF Same
    <3>4. QED BY <2>2, <3>1, <3>2, <3>3 DEF PassStays
  <2>12. CASE CRStays /\ PassStays
    BY <2>12 DEF CRStays, PassStays
  <2>13. QED
    BY <2>1, <2>4, <2>5, <2>6, <2>7, <2>8, <2>9, <2>10, <2>11, <2>12 DEF Kinds
<1>3. QED BY <1>1, <1>2, CROKHolds, PTL DEF Spec

-----------------------------------------------------------------------------
(* The finalizer is given up unasked only for a cluster that is gone or    *)
(* going in the cache.  Before the first deletion this means that no pass  *)
(* has seen the cluster yet, and so none has registered a pool.            *)
NoPools == \A p \in Pools : pool[p] = NoPool

CacheInv ==
    ~left => /\ ~cluster.going /\ ~clusterSeen.going
             /\ clusterSeen.life # 0 => cluster.life # 0
             /\ clusterSeen.life = 0
                  => NoPools /\ pc \notin {"owner", "list", "get", "upsert"}

DropInv == ~left /\ pc = "drop" => pool[PoolName[cur]] = NoPool

\* Where a pass is once the cluster has been resolved, or given up on.
LEMMA PcSteps ==
    ASSUME Kinds
    PROVE  /\ pc' \in {"owner", "list", "get", "upsert"}
                => \/ pc \in {"owner", "list", "get", "upsert"}
                   \/ clusterSeen.ready /\ pc = "cluster"
           /\ pc' = "drop"
                => \/ pc = "drop" /\ UNCHANGED cur
                   \/ Begins /\ (clusterSeen.life = 0 \/ clusterSeen.going)
                   \/ UNCHANGED cur /\ pool'[PoolName[cur]] = NoPool
BY DEF Kinds, Begins, Proceeds, Order, Ends, Holds, Records, Frees, Outside,
       Syncs, PassStays, Stored, AtRest

LEMMA CacheInvHolds == Spec => [](CacheInv /\ DropInv)
<1>1. Init => CacheInv /\ DropInv
  BY DEF Init, CacheInv, DropInv, NoPools, NoCluster
<1>2. CROK /\ ClusterOK /\ CacheInv /\ DropInv /\ [Next]_vars
        => CacheInv' /\ DropInv'
  <2> SUFFICES ASSUME CROK, ClusterOK, CacheInv, DropInv, [Next]_vars, ~left'
               PROVE  CacheInv' /\ DropInv'
    BY DEF CacheInv, DropInv
  <2>1. Kinds
    BY StepKinds DEF CROK
  <2>2. /\ PoolName[cur] \in Pools
        /\ \A p \in Pools : pool'[p] # NoPool =>
             pool[p] # NoPool \/ (pc = "upsert" /\ p = PoolName[cur])
    BY PoolSteps, ConstAssumption DEF CROK, Typed, ConstAssumption
  <2>3. CASE left
    <3>1. /\ cluster = NoCluster /\ clusterSeen = NoCluster
          /\ pc = "idle" /\ UNCHANGED <<cluster, clusterSeen, pc>>
          /\ pool' = [p \in Pools |-> NoPool]
      BY <2>3, ClusterKinds
    <3>2. QED BY <3>1 DEF CacheInv, DropInv, NoPools, NoCluster
  <2>4. CASE ~left
    <3>1. /\ UNCHANGED cluster \/ (cluster'.life # 0 /\ ~cluster'.going)
          /\ clusterSeen' \in {clusterSeen, cluster}
      BY <2>4, ClusterKinds DEF CacheInv
    <3>2. /\ ~cluster'.going /\ ~clusterSeen'.going
          /\ clusterSeen'.life # 0 => cluster'.life # 0
      BY <2>4, <3>1 DEF CacheInv
    <3>3. ASSUME clusterSeen'.life = 0
          PROVE  /\ NoPools'
                 /\ pc' \notin {"owner", "list", "get", "upsert"}
      <4>1. clusterSeen.life = 0
        BY <2>4, <3>1, <3>3 DEF CacheInv
      <4>2. NoPools /\ pc \notin {"owner", "list", "get", "upsert"}
            /\ ~clusterSeen.ready
        BY <2>4, <4>1 DEF CacheInv, ClusterOK
      <4>3. QED BY <2>1, <2>2, <4>2, PcSteps DEF NoPools
    <3>4. ASSUME pc' = "drop"
          PROVE  pool'[PoolName[cur']] = NoPool
      <4>1. CASE pc = "drop" /\ UNCHANGED cur
        BY <2>2, <2>4, <4>1 DEF DropInv
      <4>2. CASE Begins /\ (clusterSeen.life = 0 \/ clusterSeen.going)
        <5>1. PoolName[cur'] \in Pools
          BY <4>2, ConstAssumption DEF Begins, ConstAssumption
        <5>2. NoPools /\ pc # "upsert"
          BY <2>4, <4>2 DEF CacheInv
        <5>3. QED BY <2>2, <5>1, <5>2 DEF NoPools
      <4>3. CASE UNCHANGED cur /\ pool'[PoolName[cur]] = NoPool
        BY <4>3
      <4>4. QED BY <2>1, <3>4, <4>1, <4>2, <4>3, PcSteps
    <3>5. QED BY <3>2, <3>3, <3>4 DEF CacheInv, DropInv
  <2>5. QED BY <2>3, <2>4
<1>3. QED BY <1>1, <1>2, CROKHolds, ClusterOKHolds, PTL DEF Spec

\* A CR loses the finalizer only in a pass's last Update.
LEMMA FinalizerStays ==
    ASSUME CROK, HoldInv, [Next]_vars, NEW c \in CRs,
           api[c].there, api[c].fin
    PROVE  \/ api'[c].there /\ api'[c].fin
           \/ Frees /\ c = cur
<1>1. Kinds
  BY StepKinds DEF CROK
<1>2. cur \in CRs /\ np \in CR
  BY DEF CROK, Typed
<1>3. CASE Holds
  <2>1. Same(np, api[cur]) /\ ~np.fin
    BY <1>3 DEF Holds, Stored, HoldInv, CopiesInv, PassInv
  <2>2. c # cur
    BY <2>1 DEF Same
  <2>3. QED BY <1>3, <2>2 DEF Holds, Stored, Rewrites
<1>4. CASE Records
  <2>1. Same(np, api[cur])
    BY <1>4 DEF Records, Stored, HoldInv, CopiesInv
  <2>2. QED BY <1>4, <2>1 DEF Records, Stored, Rewrites, Same
<1>5. CASE Frees /\ c # cur
  BY <1>5 DEF Frees, Stored, Rewrites
<1>6. CASE Outside
  BY <1>6 DEF Outside, Rewrites, Creates, Deletes, Edits
<1>7. CASE UNCHANGED api
  BY <1>7
<1>8. QED
  BY <1>1, <1>3, <1>4, <1>5, <1>6, <1>7
  DEF Kinds, Begins, Proceeds, Ends, Syncs, CRStays

\* As long as the cluster has not been deleted since Nomad was fresh, every
\* pool that is in Nomad has a CR whose finalizer will delete it, however the
\* passes, the caches and the cluster's phase interleave.
THEOREM NoPoolIsOrphaned == Spec => []NoOrphan
<1>1. Init => NoOrphan
  BY DEF Init, NoOrphan
<1>2. CROK /\ ClusterOK /\ HoldInv /\ CacheInv /\ DropInv /\ NoOrphan
        /\ [Next]_vars => NoOrphan'
  <2> SUFFICES ASSUME CROK, ClusterOK, HoldInv, CacheInv, DropInv, NoOrphan,
                      [Next]_vars
               PROVE  NoOrphan'
    OBVIOUS
  <2> SUFFICES ASSUME ~left', NEW p \in Pools, pool'[p] # NoPool
               PROVE  \E c \in CRs : /\ PoolName[c] = p
                                     /\ api'[c].there /\ api'[c].fin
    BY DEF NoOrphan
  <2>1. pool[p] # NoPool \/ (pc = "upsert" /\ p = PoolName[cur])
    BY PoolSteps DEF CROK
  <2>2. ~left
    BY ClusterKinds
  <2>3. PICK c \in CRs : PoolName[c] = p /\ api[c].there /\ api[c].fin
    <3>1. CASE pool[p] # NoPool
      BY <2>2, <3>1 DEF NoOrphan
    <3>2. CASE pc = "upsert" /\ p = PoolName[cur]
      BY <3>2 DEF HoldInv, PassInv, CROK, Typed
    <3>3. QED BY <2>1, <3>1, <3>2
  <2>4. ~(Frees /\ c = cur)
    BY <2>1, <2>2, <2>3 DEF Frees, DropInv
  <2>5. QED BY <2>3, <2>4, FinalizerStays
<1>3. QED
  BY <1>1, <1>2, CROKHolds, ClusterOKHolds, HoldInvHolds, CacheInvHolds, PTL
  DEF Spec

-----------------------------------------------------------------------------
(* PoolIsManaged.  ManagedObject is excused for good by the first deletion *)
(* of the cluster, so before that CacheInv and DropInv apply.              *)
LeftInv == left => Excused

LEMMA LeftInvHolds == Spec => []LeftInv
<1>1. Init => LeftInv
  BY DEF Init, LeftInv
<1>2. ClusterOK /\ LeftInv /\ [Next]_vars => LeftInv'
  BY ClusterKinds DEF LeftInv
<1>3. QED BY <1>1, <1>2, ClusterOKHolds, PTL DEF Spec

Object == pool[PoolName[SomeCR]] # NoPool

\* A step moves the CRs, or the cluster, or the pools.
LEMMA OneAtATime ==
    ASSUME CROK, [Next]_vars
    PROVE  \/ UNCHANGED <<pool, cluster, clusterLives>>
           \/ UNCHANGED <<pool, api>>
           \/ UNCHANGED <<api, cluster, clusterLives>>
<1>1. CASE pool' # pool
  BY <1>1, PoolSteps DEF CROK
<1>2. CASE UNCHANGED pool /\ ClusterSteps
  BY <1>2
  DEF ClusterSteps, SyncCluster, ForegroundDone, ClusterMoves, CreateCluster,
      WipeServerData, ClusterReady, DeleteCluster, crVars
<1>3. CASE UNCHANGED pool /\ ~ClusterSteps
  BY <1>3, ClusterStays DEF clusterVars
<1>4. QED BY <1>1, <1>2, <1>3

\* What a step makes of one CR, as ManagedObject sees it.
LEMMA PhaseSteps ==
    ASSUME CROK, HoldInv, [Next]_vars, SomeCR \in CRs
    PROVE  \/ Phase' = Phase
           \/ Phase = "absent" /\ Phase' = "new"
           \/ Phase = "new" /\ Phase' \in {"held", "absent"}
           \/ Phase = "held" /\ Phase' = "going"
           \/ Frees /\ cur = SomeCR /\ Phase = "going" /\ Phase' = "absent"
<1>1. Kinds
  BY StepKinds DEF CROK
<1>2. cur \in CRs /\ np \in CR /\ api[SomeCR] \in CR
  BY DEF CROK, Typed
<1>3. CASE UNCHANGED api
  BY <1>3 DEF Phase
<1>4. CASE Holds
  <2>1. CASE cur = SomeCR
    <3>1. /\ Same(np, api[cur]) /\ np.there /\ ~np.going /\ ~np.fin
          /\ api'[cur] = np'
      BY <1>2, <1>4 DEF Holds, Stored, Rewrites, HoldInv, CopiesInv, PassInv
    <3>2. np'.there /\ ~np'.going /\ np'.fin
      BY <1>2, <1>4, <3>1, FieldUpdate DEF Holds
    <3>3. Phase = "new"
      BY <2>1, <3>1 DEF Phase, Same
    <3>4. Phase' = "held"
      BY <2>1, <3>1, <3>2 DEF Phase
    <3>5. QED BY <3>3, <3>4
  <2>2. CASE cur # SomeCR
    BY <1>4, <2>2 DEF Holds, Stored, Rewrites, Phase
  <2>3. QED BY <2>1, <2>2
<1>5. CASE Records
  <2>1. Same(np, api[cur])
    BY <1>5 DEF Records, Stored, HoldInv, CopiesInv
  <2>2. QED
    BY <1>2, <1>5, <2>1 DEF Records, Stored, Rewrites, Same, Phase
<1>6. CASE Frees
  <2>1. CASE cur = SomeCR
    <3>1. Same(np, api[cur]) /\ np.going /\ api'[cur] = NoCR
      BY <1>2, <1>6
      DEF Frees, Stored, Rewrites, HoldInv, CopiesInv, PassInv
    <3>2. Phase = "going"
      BY <1>2, <2>1, <3>1 DEF Phase, Same, CROK, WellFormed
    <3>3. Phase' = "absent"
      BY <2>1, <3>1, NewValues DEF Phase, NoneLeft
    <3>4. QED BY <1>6, <2>1, <3>2, <3>3
  <2>2. CASE cur # SomeCR
    BY <1>6, <2>2 DEF Frees, Stored, Rewrites, Phase
  <2>3. QED BY <2>1, <2>2
<1>7. CASE Outside
  <2>1. PICK c \in CRs, n \in CR :
          /\ Rewrites(c, n, FALSE)
          /\ Creates(api[c], n) \/ Deletes(api[c], n) \/ Edits(api[c], n)
    BY <1>7 DEF Outside
  <2>2. CASE c = SomeCR
    <3>1. api'[SomeCR] = n
      BY <2>1, <2>2 DEF Rewrites
    <3>2. QED
      BY <1>2, <2>1, <2>2, <3>1, FieldUpdate
      DEF Creates, Deletes, Edits, NoneLeft, Phase
  <2>3. CASE c # SomeCR
    BY <2>1, <2>3 DEF Rewrites, Phase
  <2>4. QED BY <2>2, <2>3
<1>8. QED
  BY <1>1, <1>3, <1>4, <1>5, <1>6, <1>7
  DEF Kinds, Begins, Proceeds, Ends, Syncs, CRStays

\* The reconciler keeps the promise of ManagedObject for a pool that one CR
\* names: no pool without a CR that holds it, no CR given up before its pool,
\* until the cluster is deleted for the first time.
THEOREM ThePoolIsManaged ==
    ASSUME \A d \in CRs \ {SomeCR} : PoolName[d] # PoolName[SomeCR]
    PROVE  Spec => PoolIsManaged
<1>0. SomeCR \in CRs /\ PoolName[SomeCR] \in Pools
  BY ConstAssumption DEF ConstAssumption, SomeCR
<1>1. Init => Managed!Init
  <2> SUFFICES ASSUME Init PROVE Managed!Init
    OBVIOUS
  <2>1. Phase = "absent"
    BY <1>0, NewValues DEF Init, Phase, NoneLeft
  <2>2. ~Object /\ ~Excused
    BY <1>0 DEF Init, Object, Excused
  <2>3. QED BY <2>1, <2>2 DEF Managed!Init, Object, Excused
<1>2. CROK /\ ClusterOK /\ HoldInv /\ DropInv /\ LeftInv /\ [Next]_vars
        => [Managed!Next]_(Managed!vars)
  <2> SUFFICES ASSUME CROK, ClusterOK, HoldInv, DropInv, LeftInv, [Next]_vars
               PROVE  [Managed!Next]_(Managed!vars)
    OBVIOUS
  <2> USE DEF Object, Excused
  <2>1. CASE UNCHANGED <<pool, cluster, clusterLives>>
    <3>1. Object' = Object /\ Excused' = Excused
      BY <2>1
    <3>2. Frees /\ cur = SomeCR => ~Object \/ Excused
      BY DEF Frees, DropInv, LeftInv
    <3>3. QED
      BY <1>0, <3>1, <3>2, PhaseSteps
      DEF Managed!Next, Managed!Create, Managed!Hold, Managed!Dismiss,
          Managed!Delete, Managed!Release, Managed!vars
  <2>2. CASE UNCHANGED <<pool, api>>
    <3>1. Object' = Object /\ Phase' = Phase
      BY <2>2 DEF Phase
    <3>2. Excused' = Excused \/ Excused' = TRUE
      <4>1. Excused => Excused'
        BY ClusterKinds
      <4>2. QED BY <4>1
    <3>3. QED BY <3>1, <3>2 DEF Managed!Next, Managed!Excuse, Managed!vars
  <2>3. CASE UNCHANGED <<api, cluster, clusterLives>>
    <3>1. Phase' = Phase /\ Excused' = Excused
      BY <2>3 DEF Phase
    <3>2. CASE Object' => Object
      BY <3>1, <3>2 DEF Managed!Next, Managed!Remove, Managed!vars
    <3>3. CASE Object' /\ ~Object
      <4>1. pc = "upsert" /\ PoolName[SomeCR] = PoolName[cur]
        BY <1>0, <3>3, PoolSteps DEF CROK
      <4>2. cur = SomeCR
        BY <1>0, <4>1 DEF CROK, Typed
      <4>3. Phase \in {"held", "going"}
        BY <4>1, <4>2 DEF HoldInv, PassInv, Phase
      <4>4. Object' = TRUE
        BY <3>3
      <4>5. QED BY <3>1, <4>3, <4>4 DEF Managed!Next, Managed!Register
    <3>4. QED BY <3>2, <3>3
  <2>4. QED BY <2>1, <2>2, <2>3, OneAtATime
<1>3. QED
  BY <1>1, <1>2, CROKHolds, ClusterOKHolds, HoldInvHolds, CacheInvHolds,
     LeftInvHolds, PTL
  DEF Spec, PoolIsManaged, Managed!Spec

-----------------------------------------------------------------------------
(* AtMostOneRegistered.  The cached list of the other CRs may be old, but  *)
(* a CR is Registered only by a pass that was begun from its cached copy,  *)
(* so one that is Registered and live is live in the cache as well; and    *)
(* passes do not overlap.                                                  *)
KnownInv ==
    \A c \in CRs : api[c].ready = "Registered" /\ ~api[c].going
                     => seen[c].there /\ ~seen[c].going

NoRival(c) ==
    \A d \in CRs \ {c} :
        PoolName[d] = PoolName[c] /\ api[d].ready = "Registered"
          => api[d].going

ReportInv ==
    /\ npFresh /\ pc # "status" => np.ready = api[cur].ready
    /\ pc \in {"get", "upsert"} => NoRival(cur)
    /\ npFresh /\ pc = "status" /\ np.ready = "Registered"
         => api[cur].ready = "Registered" \/ NoRival(cur)

\* A CR that becomes Registered, or comes back from its deletion, is the one
\* that a pass reports on.
LEMMA RegisteredSteps ==
    ASSUME CROK, HoldInv, ReportInv, [Next]_vars, NEW c \in CRs,
           api'[c].ready = "Registered", ~api'[c].going
    PROVE  \/ api[c].ready = "Registered" /\ ~api[c].going
           \/ /\ Records /\ pc = "status" /\ c = cur /\ NoRival(c)
              /\ seen[c].there /\ ~seen[c].going
<1>1. Kinds
  BY StepKinds DEF CROK
<1>2. cur \in CRs /\ np \in CR /\ api[c] \in CR /\ api[cur] \in CR
  BY DEF CROK, Typed
<1>3. CASE UNCHANGED api
  BY <1>3
<1>4. CASE c # cur /\ (Holds \/ Records \/ Frees)
  BY <1>4 DEF Holds, Records, Frees, Stored, Rewrites
<1>5. CASE c = cur /\ Holds
  <2>1. /\ api'[c] = np' /\ np'.ready = np.ready /\ np'.going = np.going
        /\ Same(np, api[c]) /\ np.ready = api[c].ready
    BY <1>2, <1>5, FieldUpdate
    DEF Holds, Stored, Rewrites, HoldInv, CopiesInv, ReportInv
  <2>2. QED BY <2>1 DEF Same
<1>6. CASE c = cur /\ Records
  <2>1. /\ api'[c] = np /\ Same(np, api[c]) /\ npFresh
        /\ seen[c].there /\ seen[c].going = api[c].going
    BY <1>6 DEF Records, Stored, Rewrites, HoldInv, CopiesInv
  <2>2. ~api[c].going
    BY <2>1 DEF Same
  <2>3. CASE pc = "owner"
    BY <1>6, <2>1, <2>2, <2>3 DEF ReportInv
  <2>4. CASE pc = "status"
    BY <1>6, <2>1, <2>2, <2>4 DEF ReportInv
  <2>5. QED BY <1>6, <2>3, <2>4 DEF Records
<1>7. CASE c = cur /\ Frees
  BY <1>7, NewValues DEF Frees, Stored, Rewrites, NoneLeft
<1>8. CASE Outside
  <2>1. PICK d \in CRs, n \in CR :
          /\ Rewrites(d, n, FALSE)
          /\ Creates(api[d], n) \/ Deletes(api[d], n) \/ Edits(api[d], n)
    BY <1>8 DEF Outside
  <2>2. CASE c = d
    BY <2>1, <2>2 DEF Rewrites, Creates, Deletes, Edits, NoneLeft
  <2>3. CASE c # d
    BY <2>1, <2>3 DEF Rewrites
  <2>4. QED BY <2>2, <2>3
<1>9. QED
  BY <1>1, <1>3, <1>4, <1>5, <1>6, <1>7, <1>8
  DEF Kinds, Begins, Proceeds, Ends, Syncs, CRStays

LEMMA RivalInvHolds == Spec => [](KnownInv /\ ReportInv)
<1>1. Init => KnownInv /\ ReportInv
  BY NewValues DEF Init, KnownInv, ReportInv, NoneLeft
<1>2. CROK /\ HoldInv /\ KnownInv /\ ReportInv /\ [Next]_vars
        => KnownInv' /\ ReportInv'
  <2> SUFFICES ASSUME CROK, HoldInv, KnownInv, ReportInv, [Next]_vars
               PROVE  KnownInv' /\ ReportInv'
    OBVIOUS
  <2>1. Kinds
    BY StepKinds DEF CROK
  <2>2. cur \in CRs /\ np \in CR /\ np.going \in BOOLEAN
    BY FieldUpdate DEF CROK, Typed
  <2>3. ASSUME NEW c \in CRs, api'[c].ready = "Registered", ~api'[c].going
        PROVE  seen'[c].there /\ ~seen'[c].going
    <3>1. seen[c].there /\ ~seen[c].going
      BY <2>3, RegisteredSteps DEF KnownInv
    <3>2. CASE UNCHANGED seen
      BY <3>1, <3>2
    <3>3. CASE Syncs
      <4>1. UNCHANGED api /\ seen'[c] \in {api[c], seen[c]}
        BY <3>3 DEF Syncs
      <4>2. api[c].there
        BY <2>3, <4>1 DEF CROK, WellFormed
      <4>3. QED BY <2>3, <3>1, <4>1, <4>2
    <3>4. QED
      BY <2>1, <3>2, <3>3
      DEF Kinds, Begins, Proceeds, Ends, Holds, Records, Frees, Outside,
          CRStays, Stored
  <2>4. ASSUME UNCHANGED cur, NoRival(cur), ~Records
        PROVE  NoRival(cur)'
    <3> SUFFICES ASSUME NEW d \in CRs \ {cur}, PoolName[d] = PoolName[cur],
                        api'[d].ready = "Registered", ~api'[d].going
                 PROVE  FALSE
      BY <2>4 DEF NoRival
    <3>1. api[d].ready = "Registered" /\ ~api[d].going
      BY <2>4, RegisteredSteps
    <3>2. QED BY <2>4, <3>1 DEF NoRival
  <2>5. CASE Begins
    <3>1. npFresh' => seen[cur'] = api[cur'] /\ np'.ready = api'[cur'].ready
      BY <2>5 DEF Begins, CRStays, HoldInv, CopiesInv
    <3>2. pc' \notin {"get", "upsert"}
      BY <2>5 DEF Begins
    <3>3. QED BY <2>3, <3>1, <3>2 DEF KnownInv, ReportInv
  <2>6. CASE Proceeds
    <3>1. UNCHANGED <<api, cur, npFresh>>
      BY <2>6 DEF Proceeds, CRStays
    <3>2. pc # "status" /\ ~Records
      BY <2>6 DEF Proceeds, Order, Records
    <3>3. npFresh' /\ pc' # "status" => np'.ready = api'[cur'].ready
      BY <2>6, <3>1, <3>2 DEF Proceeds, ReportInv
    <3>4. pc' \in {"get", "upsert"} => NoRival(cur)
      <4>1. CASE pc = "get"
        BY <4>1 DEF ReportInv
      <4>2. CASE pc = "list" /\ ~HasPoolNameConflict
        <5> SUFFICES ASSUME NEW d \in CRs \ {cur}, PoolName[d] = PoolName[cur],
                            api[d].ready = "Registered", ~api[d].going
                     PROVE  FALSE
          BY DEF NoRival
        <5>1. seen[d].there /\ ~seen[d].going
          BY DEF KnownInv
        <5>2. QED BY <4>2, <5>1 DEF HasPoolNameConflict
      <4>3. QED BY <2>6, <4>1, <4>2 DEF Proceeds, Order
    <3>5. npFresh /\ np'.ready = "Registered"
            => api[cur].ready = "Registered" \/ NoRival(cur)
      BY <2>6, <3>2 DEF Proceeds, ReportInv
    <3>6. QED
      BY <2>3, <2>4, <3>1, <3>2, <3>3, <3>4, <3>5 DEF KnownInv, ReportInv, NoRival
  <2>7. CASE Ends
    BY <2>3, <2>7 DEF Ends, AtRest, KnownInv, ReportInv
  <2>8. CASE Holds
    <3>1. /\ npFresh /\ pc' = "cluster" /\ UNCHANGED cur
          /\ np'.ready = np.ready /\ api'[cur] = np'
      BY <2>2, <2>8, FieldUpdate DEF Holds, Stored, Rewrites
    <3>2. QED BY <2>3, <3>1 DEF KnownInv, ReportInv
  <2>9. CASE Records
    <3>1. api'[cur] = np /\ UNCHANGED cur
      BY <2>2, <2>9 DEF Records, Stored, Rewrites
    <3>2. QED BY <2>3, <2>9, <3>1 DEF Records, AtRest, KnownInv, ReportInv
  <2>10. CASE Frees
    BY <2>3, <2>10 DEF Frees, AtRest, KnownInv, ReportInv
  <2>11. CASE Outside
    <3>1. PICK c \in CRs, n \in CR :
            /\ Rewrites(c, n, FALSE)
            /\ npFresh' = (npFresh /\ cur # c)
      BY <2>11 DEF Outside
    <3>2. UNCHANGED <<pc, cur, np>>
      BY <2>11 DEF Outside
    <3>3. npFresh' => npFresh /\ api'[cur] = api[cur]
      BY <2>2, <3>1 DEF Rewrites
    <3>4. CASE Records
      BY <2>3, <2>9, <3>4
    <3>5. CASE ~Records
      BY <2>3, <2>4, <3>2, <3>3, <3>5 DEF KnownInv, ReportInv
    <3>6. QED BY <3>4, <3>5
  <2>12. CASE Syncs \/ (CRStays /\ PassStays)
    <3>1. UNCHANGED <<api, pc, cur, np, npFresh>>
      BY <2>12 DEF Syncs, CRStays, PassStays
    <3>2. QED BY <2>3, <3>1 DEF KnownInv, ReportInv, NoRival
  <2>13. QED
    BY <2>1, <2>5, <2>6, <2>7, <2>8, <2>9, <2>10, <2>11, <2>12 DEF Kinds
<1>3. QED BY <1>1, <1>2, CROKHolds, HoldInvHolds, PTL DEF Spec

\* Two live CRs never both report that they registered the same pool, so they
\* never fight over it, although each decides on a cached list of the others.
THEOREM OneReportsThePool == Spec => []AtMostOneRegistered
<1>1. Init => AtMostOneRegistered
  BY NewValues DEF Init, AtMostOneRegistered, NoneLeft
<1>2. CROK /\ HoldInv /\ ReportInv /\ AtMostOneRegistered /\ [Next]_vars
        => AtMostOneRegistered'
  <2> SUFFICES ASSUME CROK, HoldInv, ReportInv, AtMostOneRegistered, [Next]_vars,
                      NEW c \in CRs, NEW d \in CRs,
                      c # d, PoolName[c] = PoolName[d],
                      api'[c].ready = "Registered", ~api'[c].going,
                      api'[d].ready = "Registered", ~api'[d].going
               PROVE  FALSE
    BY DEF AtMostOneRegistered
  <2>1. \/ api[c].ready = "Registered" /\ ~api[c].going
        \/ c = cur /\ NoRival(c)
    BY RegisteredSteps
  <2>2. \/ api[d].ready = "Registered" /\ ~api[d].going
        \/ d = cur /\ NoRival(d)
    BY RegisteredSteps
  <2>3. QED BY <2>1, <2>2 DEF AtMostOneRegistered, NoRival
<1>3. QED
  BY <1>1, <1>2, CROKHolds, HoldInvHolds, RivalInvHolds, PTL DEF Spec
=============================================================================
