------------------------------ MODULE NomadJob ------------------------------
(***************************************************************************)
(* The NomadJob reconciler of internal/controller/nomadjob_controller.go:  *)
(* one NomadJob CR and the job it declares in a Nomad namespace, to which  *)
(* it refers by name only; housed is whether Nomad has that namespace.     *)
(***************************************************************************)
EXTENDS ManagedCR

CONSTANTS
    Invalid,   \* the contents that decodeJob refuses
    Foreign,   \* a job that somebody else has edited
    NoJob      \* no such job

VARIABLES
    job,       \* the job in Nomad, non-terminal as long as it exists
    housed     \* does its namespace exist?

TypeOK ==
    /\ TypeCR
    /\ job \in (Body \ Invalid) \cup {Foreign, NoJob}
    /\ pc \in {"idle", "finalizer", "cluster", "owner", "apply", "register",
               "derive", "status", "remove", "drop"}

Init == InitCR /\ job = NoJob

-----------------------------------------------------------------------------
Common == CommonSteps /\ UNCHANGED job

\* decodeJob: the spec is no job, or its id or namespace is not the CR's.
DecodeFails ==
    /\ pc = "apply" /\ cp.body \in Invalid
    /\ Report([cp EXCEPT !.ready = "Refused"])
    /\ UNCHANGED <<crVars, job>>

\* Mutants: a spec that cannot be decoded is planned all the same; a job that
\* exists is not registered again.
PlanJobUndecoded ==
    /\ pc = "apply" /\ cluster.there /\ housed
    /\ Goto(IF job = cp.body THEN "derive" ELSE "register")
    /\ UNCHANGED <<crVars, job>>
PlanJobOnce ==
    /\ pc = "apply" /\ cp.body \notin Invalid /\ cluster.there /\ housed
    /\ Goto(IF job # NoJob THEN "derive" ELSE "register")
    /\ UNCHANGED <<crVars, job>>

\* Plan, a dry run: does the declared job differ from Nomad's?
PlanJob ==
    /\ pc = "apply" /\ cp.body \notin Invalid /\ cluster.there /\ housed
    /\ Goto(IF job = cp.body THEN "derive" ELSE "register")
    /\ UNCHANGED <<crVars, job>>

RegisterJob ==
    /\ pc = "register" /\ cluster.there /\ housed
    /\ job' = cp.body /\ Goto("derive")
    /\ UNCHANGED crVars

\* GetJob and JobGroupSummary, which has no answer for a job that is gone.
DeriveStatus ==
    /\ pc = "derive" /\ cluster.there
    /\ \/ job # NoJob /\ Report([cp EXCEPT !.ready = "Registered"])
       \/ job = NoJob /\ EndPass
    /\ UNCHANGED <<crVars, job>>

\* Mutants: a failed call does not keep the finalizer; a job that is gone
\* already counts as a failure.
DeregisterJobAtBest(answered) ==
    /\ pc = "remove" /\ Goto("drop")
    /\ job' = IF answered /\ cluster.there THEN NoJob ELSE job
    /\ UNCHANGED crVars
DeregisterJobStrict(answered) ==
    /\ pc = "remove"
    /\ \/ /\ answered /\ cluster.there /\ job # NoJob
          /\ job' = NoJob /\ Goto("drop")
       \/ /\ ~answered \/ job = NoJob
          /\ UNCHANGED job
          /\ Report([cp EXCEPT !.blocked = TRUE])
    /\ UNCHANGED crVars

\* Deregister with purge: never refused, and a job that is gone is fine.
DeregisterJob(answered) ==
    /\ pc = "remove"
    /\ \/ answered /\ cluster.there /\ job' = NoJob /\ Goto("drop")
       \/ ~answered /\ UNCHANGED job /\ Report([cp EXCEPT !.blocked = TRUE])
    /\ UNCHANGED crVars

DeregisteredUnanswered ==
    /\ pc = "remove" /\ cluster.there
    /\ job' = NoJob /\ Report([cp EXCEPT !.blocked = TRUE])
    /\ UNCHANGED crVars

\* Without a cluster Nomad does not answer, without the namespace it refuses.
NoAnswer ==
    /\ pc \in {"apply", "register", "derive"}
    /\ pc = "apply" => cp.body \notin Invalid
    /\ ~cluster.there \/ (pc # "derive" /\ ~housed)
    /\ EndPass
    /\ UNCHANGED <<crVars, job>>

Pass ==
    \/ Common \/ DecodeFails \/ PlanJob \/ RegisterJob \/ DeriveStatus
    \/ NoAnswer \/ DeregisterJob(cluster.there)

Fault ==
    \/ PassAborted /\ UNCHANGED job
    \/ DeregisterJob(FALSE) \/ DeregisteredUnanswered
=============================================================================
