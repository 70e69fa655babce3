----------------------------- MODULE ManagedCR ------------------------------
(***************************************************************************)
(* What the NomadNamespace and the NomadJob reconciler have in common: one *)
(* custom resource (CR), its cached copy, the finalizer around what is     *)
(* done to Nomad, the NomadCluster it refers to and its status.            *)
(*                                                                         *)
(* A component module EXTENDS this one and adds what its pass does to      *)
(* Nomad, between "apply" and the final "status", or at "remove".  As in   *)
(* NomadPool there is one action per remote call, and a cache read belongs *)
(* to the step before the next call.                                       *)
(***************************************************************************)
CONSTANT Body   \* the managed content of the CR's spec

VARIABLES
    cr,          \* the CR in the API server
    crSeen,      \* the CR in the informer cache
    seenFresh,   \* is that the stored resourceVersion?
    pc,          \* the pass's next call
    cp, cpFresh, \* the pass's copy of the CR; is its version the stored one?
    cluster,     \* the NomadCluster the CR refers to
    clusterSeen  \* the same in the informer cache

crVars   == <<cr, crSeen, seenFresh>>
passVars == <<pc, cp, cpFresh>>

-----------------------------------------------------------------------------
\* The Ready condition by its reason, and DeleteBlocked, which is never cleared.
Ready == {"Unknown", "Unready", "Refused", "Registered"}

CR == [there : BOOLEAN, going : BOOLEAN, fin : BOOLEAN, owned : BOOLEAN,
       body : Body, ready : Ready, blocked : BOOLEAN]

NewCR(b) == [there |-> TRUE, going |-> FALSE, fin |-> FALSE, owned |-> FALSE,
             body |-> b, ready |-> "Unknown", blocked |-> FALSE]

NoCR == [NewCR(CHOOSE b \in Body : TRUE) EXCEPT !.there = FALSE]

Cluster == [there : BOOLEAN, ready : BOOLEAN, going : BOOLEAN]

TypeCR ==
    /\ cr \in CR /\ crSeen \in CR /\ cp \in CR
    /\ seenFresh \in BOOLEAN /\ cpFresh \in BOOLEAN
    /\ cr.going => cr.there /\ cr.fin

\* The CR may be one that was created while the operator was down.
InitCR ==
    /\ \/ cr = NoCR
       \/ \E b \in Body : cr = NewCR(b)
    /\ crSeen = cr /\ seenFresh = TRUE
    /\ pc = "idle" /\ cp = NoCR /\ cpFresh = FALSE

-----------------------------------------------------------------------------
(* The pass.                                                               *)

Goto(p) == pc' = p /\ UNCHANGED <<cp, cpFresh>>

EndPass == pc' = "idle" /\ cp' = NoCR /\ cpFresh' = FALSE

\* Take the copy, changed to c, to the Status().Update that ends the pass.
Report(c) == pc' = "status" /\ cp' = c /\ UNCHANGED cpFresh

\* Mutant: a patch, which is accepted at any resourceVersion.
WriteUnfenced(c) == cr' = c /\ seenFresh' = (seenFresh /\ c = cr)

\* Update and Status().Update are accepted at the stored resourceVersion only.
Write(c) ==
    /\ cpFresh
    /\ cr' = c
    /\ seenFresh' = (seenFresh /\ c = cr)

Conflict == ~cpFresh /\ EndPass /\ UNCHANGED <<cr, seenFresh>>

\* Mutant: the finalizer does not look at the cluster's deletion.
StartBlocking ==
    /\ pc = "idle" /\ crSeen.there
    /\ cpFresh' = seenFresh
    /\ \/ /\ ~crSeen.going
          /\ pc' = IF crSeen.fin THEN "cluster" ELSE "finalizer"
          /\ cp' = crSeen
       \/ /\ crSeen.going /\ crSeen.fin /\ ~clusterSeen.there
          /\ pc' = "drop" /\ cp' = crSeen
       \/ /\ crSeen.going /\ crSeen.fin /\ clusterSeen.there
          /\ ~clusterSeen.ready
          /\ pc' = "status" /\ cp' = [crSeen EXCEPT !.blocked = TRUE]
       \/ /\ crSeen.going /\ crSeen.fin /\ clusterSeen.ready
          /\ pc' = "remove" /\ cp' = crSeen
    /\ UNCHANGED crVars

\* The work queue hands the worker a CR the cache knows.  A terminating one
\* is finalized if it still has the finalizer; clusterSeen is a cache read.
Start ==
    /\ pc = "idle" /\ crSeen.there
    /\ cpFresh' = seenFresh
    /\ \/ /\ ~crSeen.going
          /\ pc' = IF crSeen.fin THEN "cluster" ELSE "finalizer"
          /\ cp' = crSeen
       \/ /\ crSeen.going /\ crSeen.fin
          /\ ~clusterSeen.there \/ clusterSeen.going
          /\ pc' = "drop" /\ cp' = crSeen
       \/ /\ crSeen.going /\ crSeen.fin
          /\ clusterSeen.there /\ ~clusterSeen.going /\ ~clusterSeen.ready
          /\ pc' = "status" /\ cp' = [crSeen EXCEPT !.blocked = TRUE]
       \/ /\ crSeen.going /\ crSeen.fin
          /\ clusterSeen.ready /\ ~clusterSeen.going
          /\ pc' = "remove" /\ cp' = crSeen
    /\ UNCHANGED crVars

\* The finalizer goes on before anything is done to Nomad.
AddFinalizer ==
    /\ pc = "finalizer"
    /\ \/ /\ Write([cp EXCEPT !.fin = TRUE])
          /\ pc' = "cluster" /\ cp' = [cp EXCEPT !.fin = TRUE]
          /\ UNCHANGED cpFresh
       \/ Conflict
    /\ UNCHANGED crSeen

\* The cluster as the cache has it; SetControllerReference changes the copy.
ResolveCluster ==
    /\ pc = "cluster"
    /\ \/ ~clusterSeen.ready /\ Report([cp EXCEPT !.ready = "Unready"])
       \/ /\ clusterSeen.ready
          /\ pc' = IF cp.owned THEN "apply" ELSE "owner"
          /\ cp' = [cp EXCEPT !.owned = TRUE]
          /\ UNCHANGED cpFresh
    /\ UNCHANGED crVars

SetOwner ==
    /\ pc = "owner"
    /\ \/ Write(cp) /\ Goto("apply")
       \/ Conflict
    /\ UNCHANGED crSeen

UpdateStatus ==
    /\ pc = "status"
    /\ \/ Write(cp) /\ EndPass
       \/ Conflict
    /\ UNCHANGED crSeen

\* The Update that removes the last finalizer of a terminating CR removes it.
DropFinalizer ==
    /\ pc = "drop"
    /\ \/ Write(NoCR) /\ EndPass
       \/ Conflict
    /\ UNCHANGED crSeen

\* The steps that no component changes.
CommonSteps ==
    \/ Start \/ AddFinalizer \/ ResolveCluster \/ SetOwner
    \/ UpdateStatus \/ DropFinalizer

\* A call fails, or takes effect with its answer lost, or the operator crashes.
PassAborted == pc # "idle" /\ EndPass /\ UNCHANGED crVars

-----------------------------------------------------------------------------
(* Users, the informer cache and the garbage collector.                    *)

\* A write of another actor moves the resourceVersion.
OtherWrites(c) ==
    /\ cr' = c /\ seenFresh' = FALSE /\ cpFresh' = FALSE
    /\ UNCHANGED <<crSeen, pc, cp>>

\* What a delete request leaves of the CR.
Deleted == IF cr.fin THEN [cr EXCEPT !.going = TRUE] ELSE NoCR

CreateCR(b) == ~cr.there /\ OtherWrites(NewCR(b))

DeleteCR == cr.there /\ ~cr.going /\ OtherWrites(Deleted)

EditCR(b) ==
    /\ cr.there /\ ~cr.going /\ b # cr.body
    /\ OtherWrites([cr EXCEPT !.body = b])

SyncCR ==
    /\ ~seenFresh
    /\ crSeen' = cr /\ seenFresh' = TRUE
    /\ UNCHANGED <<cr, passVars>>

\* The dependents of an owner that is gone, or deleted in the foreground.
CollectGarbage ==
    /\ cr.there /\ ~cr.going /\ cr.owned
    /\ ~cluster.there \/ cluster.going
    /\ OtherWrites(Deleted)

Users == DeleteCR \/ \E b \in Body : CreateCR(b) \/ EditCR(b)
=============================================================================
