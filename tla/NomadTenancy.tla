---------------------------- MODULE NomadTenancy ----------------------------
(***************************************************************************)
(* A NomadNamespace CR and a NomadJob CR that places its job into that     *)
(* namespace by name.  The two reconcilers run concurrently and meet only  *)
(* in Nomad, which houses a job only in a namespace it has, and keeps a    *)
(* namespace that has jobs.                                                *)
(*                                                                         *)
(* One of them, the subject, is modelled call by call.  The other, its     *)
(* peer, does to its own object whatever Nomad lets it do, at any time.    *)
(* The subject is chosen at the start, so both are checked.                *)
(***************************************************************************)
CONSTANTS
    NsBody, Extra, NoExtra, NoSpace,        \* of NomadNamespace
    JobBody, Invalid, NoJob,                \* of NomadJob
    Foreign                                 \* of both

ASSUME ConstAssumption ==
    /\ NsBody # {} /\ NoExtra \in Extra
    /\ NoSpace \notin [body : NsBody \cup {Foreign}, extra : Extra]
    /\ JobBody # {} /\ Invalid \subseteq JobBody
    /\ NoJob \notin JobBody \cup {Foreign} /\ Foreign \notin JobBody \cup NsBody

VARIABLES
    subject,                            \* "namespace" or "job"
    cr, crSeen, seenFresh,              \* the subject's CR
    pc, cp, cpFresh,                    \* the subject's pass
    cluster, clusterSeen,               \* the NomadCluster
    space, got,                         \* the namespace in Nomad
    job                                 \* the job in Nomad

crVars   == <<subject, cr, crSeen, seenFresh>>
passVars == <<pc, cp, cpFresh, got>>
nomad    == <<space, job>>
vars     == <<crVars, passVars, cluster, clusterSeen, nomad>>

N == INSTANCE NomadNamespace WITH Body <- NsBody, busy <- job # NoJob
J == INSTANCE NomadJob WITH Body <- JobBody, housed <- space # NoSpace

OfNamespace == subject = "namespace"
OfJob       == subject = "job"

-----------------------------------------------------------------------------
(* The promise, for the subject.                                           *)

Phase ==
    IF ~cr.there THEN "absent" ELSE IF cr.going THEN "going"
    ELSE IF cr.fin THEN "held" ELSE "new"

\* The servers' data goes with the cluster.
Excused == ~cluster.there \/ cluster.going

Object == IF OfNamespace THEN space # NoSpace ELSE job # NoJob

Managed == INSTANCE ManagedObject WITH
    phase <- Phase, object <- Object, excused <- Excused

-----------------------------------------------------------------------------
TypeOK ==
    /\ \/ OfNamespace /\ N!TypeOK
       \/ OfJob /\ J!TypeOK
    /\ cluster \in N!Cluster /\ clusterSeen \in N!Cluster
    /\ job # NoJob => space # NoSpace

Init ==
    /\ \/ OfNamespace /\ N!Init /\ job = NoJob
       \/ OfJob /\ J!Init /\ space = NoSpace /\ got = NoSpace
    /\ \E r \in BOOLEAN :
         cluster = [there |-> TRUE, ready |-> r, going |-> FALSE]
    /\ clusterSeen = cluster

-----------------------------------------------------------------------------
(* The subject: its passes and what may befall them.                       *)

Pass ==
    /\ \/ OfNamespace /\ N!Pass /\ UNCHANGED job
       \/ OfJob /\ J!Pass /\ UNCHANGED <<space, got>>
    /\ UNCHANGED <<subject, cluster, clusterSeen>>

Fault ==
    /\ \/ OfNamespace /\ N!Fault /\ UNCHANGED job
       \/ OfJob /\ J!Fault /\ UNCHANGED <<space, got>>
    /\ UNCHANGED <<subject, cluster, clusterSeen>>

Others == UNCHANGED <<subject, cluster, clusterSeen, nomad, got>>

Users ==
    /\ \/ OfNamespace /\ N!Users
       \/ OfJob /\ J!Users
    /\ Others

SyncCR ==
    /\ \/ OfNamespace /\ N!SyncCR
       \/ OfJob /\ J!SyncCR
    /\ Others

CollectGarbage ==
    /\ \/ OfNamespace /\ N!CollectGarbage
       \/ OfJob /\ J!CollectGarbage
    /\ Others

-----------------------------------------------------------------------------
(* Nomad, between the subject, its peer, and those who edit or delete the  *)
(* subject's object behind the operator's back.                            *)

NomadStep ==
    /\ cluster.there /\ (job' # NoJob => space' # NoSpace)
    /\ UNCHANGED <<crVars, passVars, cluster, clusterSeen>>

Peer ==
    /\ \/ /\ OfNamespace /\ UNCHANGED space
          /\ job' \in {NoJob, Foreign} \ {job}
       \/ /\ OfJob /\ UNCHANGED job
          /\ space' \in {NoSpace, CHOOSE s \in N!Space : TRUE} \ {space}
    /\ NomadStep

EditNomad ==
    /\ \/ /\ OfNamespace /\ space # NoSpace /\ UNCHANGED job
          /\ space' \in (N!Space \cup {NoSpace}) \ {space}
       \/ /\ OfJob /\ job # NoJob /\ UNCHANGED space
          /\ job' \in {Foreign, NoJob} \ {job}
    /\ NomadStep

-----------------------------------------------------------------------------
(* The cluster: its Ready condition comes and goes, until it is deleted.   *)

ClusterStep(c) ==
    cluster' = c /\ UNCHANGED <<crVars, passVars, clusterSeen, nomad>>

NoCluster == [there |-> FALSE, ready |-> FALSE, going |-> FALSE]

ClusterReady == cluster.there /\ ClusterStep([cluster EXCEPT !.ready = ~@])

\* In the background, or in the foreground, after the CRs that it owns.
DeleteCluster ==
    /\ cluster.there /\ ~cluster.going
    /\ \/ ClusterStep(NoCluster)
       \/ ClusterStep([cluster EXCEPT !.going = TRUE])

ForegroundDone ==
    /\ cluster.going /\ ~(cr.there /\ cr.owned)
    /\ ClusterStep(NoCluster)

SyncCluster ==
    /\ clusterSeen # cluster /\ clusterSeen' = cluster
    /\ UNCHANGED <<crVars, passVars, cluster, nomad>>

-----------------------------------------------------------------------------
Background == SyncCR \/ SyncCluster \/ CollectGarbage \/ ForegroundDone

Next ==
    \/ Pass \/ Background
    \/ Fault \/ Users \/ Peer \/ EditNomad \/ ClusterReady \/ DeleteCluster

Spec == Init /\ [][Next]_vars

FairSpec ==
    /\ Spec
    /\ WF_vars(Pass) /\ WF_vars(SyncCR) /\ WF_vars(SyncCluster)
    /\ WF_vars(CollectGarbage) /\ WF_vars(ForegroundDone)

-----------------------------------------------------------------------------
(* Properties.                                                             *)

\* What the two finalizers are for: Nomad has a namespace or a job only on
\* account of a CR that holds it, and the CR goes only after it, or else with
\* the cluster, whatever fails, conflicts or is read too late in between.
SubjectIsManaged == Managed!Spec

\* Ready=True is stored for the spec that was registered, and for no later
\* one (ObservedGeneration), whatever was edited during the pass.
ReportMatchesSpec ==
    [][OfJob /\ cr.ready # "Registered" /\ cr'.ready = "Registered"
         => job \in {cr.body, Foreign, NoJob}]_vars

\* desiredNamespace's promise to preserve the unmanaged fields: quota and
\* capabilities are only lost if they are written between Get and Upsert.
UnmanagedKept ==
    [][OfNamespace /\ Pass /\ space # NoSpace /\ space' # NoSpace
         => space'.extra = space.extra \/ (pc = "upsert" /\ got # space)]_vars

\* In the end users, faults and the cluster leave things alone; the peer and
\* what runs by itself do not.
Calm         == <>[][Pass \/ Background \/ Peer]_vars
ClusterStays == <>[](cluster.there /\ cluster.ready /\ ~cluster.going)

\* Whatever was edited, lost, refused or left half done, and whichever of the
\* CRs was there first: the namespace comes to be as its CR declares it; so
\* does the job, once it has a namespace, or its CR says why not.
NamespaceConverges ==
    (Calm /\ ClusterStays /\ <>[](OfNamespace /\ cr.there /\ ~cr.going))
    => <>[](/\ space # NoSpace /\ space.body = cr.body
            /\ cr.ready = "Registered")

JobConverges ==
    (/\ Calm /\ ClusterStays
     /\ <>[](OfJob /\ cr.there /\ ~cr.going /\ space # NoSpace))
    => <>[](IF cr.body \in Invalid THEN cr.ready = "Refused"
            ELSE job = cr.body /\ cr.ready = "Registered")

\* A namespace that is kept by its jobs says so.
RefusalIsReported ==
    (/\ Calm /\ ClusterStays
     /\ <>[](OfNamespace /\ cr.going /\ job # NoJob))
    => <>[]cr.blocked

\* A deleted CR goes: that of the job even if its namespace stays or has gone,
\* its spec is invalid or an earlier answer was lost; that of the namespace
\* once the job is gone.  Deleting both therefore never ends in a standstill.
DeletionCompletes ==
    (/\ Calm /\ (ClusterStays \/ <>[]~cluster.there)
     /\ (OfNamespace => <>[](job = NoJob)))
    => <>[]~cr.going

\* "Gated so it never deadlocks a cascade": a foreground deletion of the
\* cluster waits for the CR, and the CR does not wait for the cluster.
CascadeCompletes == Calm => <>[]~cluster.going
=============================================================================
