--------------------------- MODULE NomadNamespace ---------------------------
(***************************************************************************)
(* The NomadNamespace reconciler of                                        *)
(* internal/controller/nomadnamespace_controller.go: one NomadNamespace CR *)
(* and the Nomad namespace it declares.  ManagedCR is the part of the pass *)
(* around the calls to Nomad; busy is whether the namespace has jobs.      *)
(***************************************************************************)
EXTENDS ManagedCR

CONSTANTS
    Foreign,   \* managed content that somebody else has put there
    Extra,     \* unmanaged content: quota, capabilities
    NoExtra,   \* that of a namespace the operator has created
    NoSpace    \* what Nomad answers for a namespace it does not have

VARIABLES
    space,     \* the namespace in Nomad
    got,       \* the namespace as the pass has fetched it
    busy       \* are there non-terminal jobs in it?

Space == [body : Body \cup {Foreign}, extra : Extra]

TypeOK ==
    /\ TypeCR
    /\ space \in Space \cup {NoSpace} /\ got \in Space \cup {NoSpace}
    /\ pc \in {"idle", "finalizer", "cluster", "owner", "apply", "upsert",
               "status", "remove", "drop"}

Init == InitCR /\ space = NoSpace /\ got = NoSpace

-----------------------------------------------------------------------------
Common == CommonSteps /\ UNCHANGED <<space, got>>

\* Another live NomadNamespace names the same namespace, as far as the cache
\* knows.
NameConflict ==
    /\ pc = "apply" /\ Report([cp EXCEPT !.ready = "Refused"])
    /\ UNCHANGED <<crVars, space, got>>

\* Mutant: the namespace is registered as the CR declares it.
DesiredNamespaceAlone(existing) == [body |-> cp.body, extra |-> NoExtra]

\* Managed fields from the CR, unmanaged ones from the namespace as fetched.
DesiredNamespace(existing) ==
    [body |-> cp.body,
     extra |-> IF existing = NoSpace THEN NoExtra ELSE existing.extra]

\* Mutant: a namespace that exists is never updated.
GetNamespaceOnce ==
    /\ pc = "apply" /\ cluster.there
    /\ IF space = NoSpace
         THEN Goto("upsert") /\ got' = space
         ELSE Report([cp EXCEPT !.ready = "Registered"]) /\ UNCHANGED got
    /\ UNCHANGED <<crVars, space>>

\* The pass registers only what differs from the fetched namespace.
GetNamespace ==
    /\ pc = "apply" /\ cluster.there
    /\ IF space = NoSpace \/ space.body # cp.body
         THEN Goto("upsert") /\ got' = space
         ELSE Report([cp EXCEPT !.ready = "Registered"]) /\ UNCHANGED got
    /\ UNCHANGED <<crVars, space>>

UpsertNamespace ==
    /\ pc = "upsert" /\ cluster.there
    /\ space' = DesiredNamespace(got) /\ got' = NoSpace
    /\ Report([cp EXCEPT !.ready = "Registered"])
    /\ UNCHANGED crVars

\* Mutant: a refusal is an error of the pass.
DeleteNamespaceSilently(answered) ==
    /\ pc = "remove"
    /\ \/ /\ answered /\ cluster.there /\ ~busy
          /\ space' = NoSpace /\ Goto("drop")
       \/ (~answered \/ busy) /\ EndPass /\ UNCHANGED space
    /\ UNCHANGED <<crVars, got>>

\* Nomad deletes the namespace, does not have it, refuses because jobs are in
\* it, or does not answer.  answered: Nomad has answered.
DeleteNamespace(answered) ==
    /\ pc = "remove"
    /\ \/ /\ answered /\ cluster.there /\ ~busy
          /\ space' = NoSpace /\ Goto("drop")
       \/ /\ ~answered \/ busy
          /\ Report([cp EXCEPT !.blocked = TRUE]) /\ UNCHANGED space
    /\ UNCHANGED <<crVars, got>>

\* The deletion takes effect and its answer is lost.
DeletedUnanswered ==
    /\ pc = "remove" /\ cluster.there /\ ~busy
    /\ space' = NoSpace /\ Report([cp EXCEPT !.blocked = TRUE])
    /\ UNCHANGED <<crVars, got>>

\* Without a cluster Nomad does not answer, and the pass ends in an error.
NoAnswer ==
    /\ pc \in {"apply", "upsert"} /\ ~cluster.there
    /\ EndPass /\ got' = NoSpace
    /\ UNCHANGED <<crVars, space>>

Pass ==
    \/ Common \/ GetNamespace \/ UpsertNamespace \/ NoAnswer
    \/ DeleteNamespace(cluster.there)

Fault ==
    \/ PassAborted /\ got' = NoSpace /\ UNCHANGED space
    \/ NameConflict \/ DeleteNamespace(FALSE) \/ DeletedUnanswered
=============================================================================
