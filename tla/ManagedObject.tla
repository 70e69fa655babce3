--------------------------- MODULE ManagedObject ----------------------------
(***************************************************************************)
(* What the operator promises of one custom resource (CR) and the object   *)
(* in Nomad that it manages: the object is registered only while the CR    *)
(* carries the finalizer, and the CR gives the finalizer up only when the  *)
(* object is gone, unless the cluster has been deleted.  The NomadPool,    *)
(* NomadNamespace and NomadJob reconcilers implement it.                   *)
(***************************************************************************)
VARIABLES
    phase,    \* the CR: absent, new, held by the finalizer, or terminating
    object,   \* is the object in Nomad?
    excused   \* has the cluster ever been deleted?

vars == <<phase, object, excused>>

Phase == {"absent", "new", "held", "going"}

TypeOK == phase \in Phase /\ object \in BOOLEAN /\ excused \in BOOLEAN

Init == phase \in {"absent", "new"} /\ object = FALSE /\ excused = FALSE

Create   == phase = "absent" /\ phase' = "new"  /\ UNCHANGED <<object, excused>>
Hold     == phase = "new"    /\ phase' = "held" /\ UNCHANGED <<object, excused>>
Dismiss  == phase = "new"    /\ phase' = "absent" /\ UNCHANGED <<object, excused>>
Delete   == phase = "held"   /\ phase' = "going" /\ UNCHANGED <<object, excused>>

\* A pass that began before the deletion may still register the object.
Register ==
    /\ phase \in {"held", "going"} /\ object' = TRUE
    /\ UNCHANGED <<phase, excused>>

Remove == object' = FALSE /\ UNCHANGED <<phase, excused>>

Release ==
    /\ phase = "going"
    /\ ~object \/ excused
    /\ phase' = "absent" /\ UNCHANGED <<object, excused>>

Excuse == excused' = TRUE /\ UNCHANGED <<phase, object>>

Next ==
    \/ Create \/ Hold \/ Dismiss \/ Delete \/ Register \/ Remove \/ Release
    \/ Excuse

Spec == Init /\ [][Next]_vars
=============================================================================
