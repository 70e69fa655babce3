------------------------ MODULE NomadTenancy_proofs ------------------------
(***************************************************************************)
(* Proofs about NomadTenancy.  The two reconcilers share the part of the   *)
(* pass that ManagedCR models, so most steps below treat the namespace's   *)
(* (N!...) and the job's (J!...) version of an action together.            *)
(***************************************************************************)
EXTENDS NomadTenancy, TLAPS

-----------------------------------------------------------------------------
(* The subject's CR, whichever it is.                                      *)
CRof(B) == [there : BOOLEAN, going : BOOLEAN, fin : BOOLEAN, owned : BOOLEAN,
            body : B, blocked : BOOLEAN,
            ready : {"Unknown", "Unready", "Refused", "Registered"}]

SubjectBody == IF OfNamespace THEN NsBody ELSE JobBody

NoneLeft(c) == ~c.there /\ ~c.going /\ ~c.fin /\ c.ready = "Unknown"

LEMMA Subjects ==
    /\ OfNamespace => ~OfJob /\ SubjectBody = NsBody
    /\ OfJob => ~OfNamespace /\ SubjectBody = JobBody
    /\ N!CR = CRof(NsBody) /\ J!CR = CRof(JobBody)
<1>1. /\ OfNamespace => ~OfJob /\ SubjectBody = NsBody
      /\ OfJob => ~OfNamespace /\ SubjectBody = JobBody
  BY DEF OfNamespace, OfJob, SubjectBody
<1>2. N!CR = CRof(NsBody)
  BY DEF N!CR, N!Ready, CRof
<1>3. J!CR = CRof(JobBody)
  BY DEF J!CR, J!Ready, CRof
<1>4. QED BY <1>1, <1>2, <1>3

LEMMA NewValues ==
    /\ N!NoCR \in CRof(NsBody) /\ NoneLeft(N!NoCR)
    /\ J!NoCR \in CRof(JobBody) /\ NoneLeft(J!NoCR)
    /\ \A b \in NsBody :
         /\ N!NewCR(b) \in CRof(NsBody) /\ N!NewCR(b).there
         /\ ~N!NewCR(b).going /\ ~N!NewCR(b).fin
         /\ N!NewCR(b).ready = "Unknown"
    /\ \A b \in JobBody :
         /\ J!NewCR(b) \in CRof(JobBody) /\ J!NewCR(b).there
         /\ ~J!NewCR(b).going /\ ~J!NewCR(b).fin
         /\ J!NewCR(b).ready = "Unknown"
<1>1. ASSUME NEW b \in NsBody
      PROVE  /\ N!NewCR(b) \in CRof(NsBody) /\ N!NewCR(b).there
             /\ ~N!NewCR(b).going /\ ~N!NewCR(b).fin
             /\ N!NewCR(b).ready = "Unknown"
  BY DEF N!NewCR, CRof
<1>2. ASSUME NEW b \in JobBody
      PROVE  /\ J!NewCR(b) \in CRof(JobBody) /\ J!NewCR(b).there
             /\ ~J!NewCR(b).going /\ ~J!NewCR(b).fin
             /\ J!NewCR(b).ready = "Unknown"
  BY DEF J!NewCR, CRof
<1>3. N!NoCR \in CRof(NsBody) /\ NoneLeft(N!NoCR)
  <2>1. (CHOOSE b \in NsBody : TRUE) \in NsBody
    BY ConstAssumption DEF ConstAssumption
  <2>2. QED BY <2>1 DEF N!NoCR, N!NewCR, CRof, NoneLeft
<1>4. J!NoCR \in CRof(JobBody) /\ NoneLeft(J!NoCR)
  <2>1. (CHOOSE b \in JobBody : TRUE) \in JobBody
    BY ConstAssumption DEF ConstAssumption
  <2>2. QED BY <2>1 DEF J!NoCR, J!NewCR, CRof, NoneLeft
<1>5. QED BY <1>1, <1>2, <1>3, <1>4

LEMMA CRUpdate ==
    ASSUME NEW B, NEW c \in CRof(B), NEW v \in BOOLEAN, NEW b \in B,
           NEW r \in {"Unknown", "Unready", "Refused", "Registered"}
    PROVE  /\ [c EXCEPT !.blocked = v] \in CRof(B)
           /\ [c EXCEPT !.owned = v] \in CRof(B)
           /\ [c EXCEPT !.fin = v] \in CRof(B)
           /\ [c EXCEPT !.going = v] \in CRof(B)
           /\ [c EXCEPT !.body = b] \in CRof(B)
           /\ [c EXCEPT !.ready = r] \in CRof(B)
<1>1. [c EXCEPT !.blocked = v] \in CRof(B) BY DEF CRof
<1>2. [c EXCEPT !.owned = v] \in CRof(B)   BY DEF CRof
<1>3. [c EXCEPT !.fin = v] \in CRof(B)     BY DEF CRof
<1>4. [c EXCEPT !.going = v] \in CRof(B)   BY DEF CRof
<1>5. [c EXCEPT !.body = b] \in CRof(B)    BY DEF CRof
<1>6. [c EXCEPT !.ready = r] \in CRof(B)   BY DEF CRof
<1>7. QED BY <1>1, <1>2, <1>3, <1>4, <1>5, <1>6

\* What of a CR the finalizer logic and Nomad look at.
Same(c, d) ==
    /\ c.there = d.there /\ c.going = d.going
    /\ c.fin = d.fin /\ c.body = d.body

LEMMA FieldUpdate ==
    ASSUME NEW B, NEW c \in CRof(B), NEW v, NEW b, NEW r
    PROVE  /\ Same([c EXCEPT !.blocked = v], c)
           /\ Same([c EXCEPT !.owned = v], c)
           /\ Same([c EXCEPT !.ready = r], c)
           /\ [c EXCEPT !.blocked = v].ready = c.ready
           /\ [c EXCEPT !.owned = v].ready = c.ready
           /\ [c EXCEPT !.ready = r].ready = r
           /\ [c EXCEPT !.fin = v].there = c.there
           /\ [c EXCEPT !.fin = v].going = c.going
           /\ [c EXCEPT !.fin = v].fin = v
           /\ [c EXCEPT !.fin = v].body = c.body
           /\ [c EXCEPT !.fin = v].ready = c.ready
           /\ [c EXCEPT !.going = v].there = c.there
           /\ [c EXCEPT !.going = v].going = v
           /\ [c EXCEPT !.going = v].fin = c.fin
           /\ [c EXCEPT !.going = v].ready = c.ready
           /\ [c EXCEPT !.body = b].there = c.there
           /\ [c EXCEPT !.body = b].going = c.going
           /\ [c EXCEPT !.body = b].fin = c.fin
           /\ [c EXCEPT !.body = b].ready = c.ready
<1>1. /\ Same([c EXCEPT !.blocked = v], c)
      /\ [c EXCEPT !.blocked = v].ready = c.ready
  BY DEF CRof, Same
<1>2. /\ Same([c EXCEPT !.owned = v], c)
      /\ [c EXCEPT !.owned = v].ready = c.ready
  BY DEF CRof, Same
<1>3. /\ Same([c EXCEPT !.ready = r], c)
      /\ [c EXCEPT !.ready = r].ready = r
  BY DEF CRof, Same
<1>4. /\ [c EXCEPT !.fin = v].there = c.there
      /\ [c EXCEPT !.fin = v].going = c.going
      /\ [c EXCEPT !.fin = v].fin = v
      /\ [c EXCEPT !.fin = v].body = c.body
      /\ [c EXCEPT !.fin = v].ready = c.ready
  BY DEF CRof
<1>5. /\ [c EXCEPT !.going = v].there = c.there
      /\ [c EXCEPT !.going = v].going = v
      /\ [c EXCEPT !.going = v].fin = c.fin
      /\ [c EXCEPT !.going = v].ready = c.ready
  BY DEF CRof
<1>6. /\ [c EXCEPT !.body = b].there = c.there
      /\ [c EXCEPT !.body = b].going = c.going
      /\ [c EXCEPT !.body = b].fin = c.fin
      /\ [c EXCEPT !.body = b].ready = c.ready
  BY DEF CRof
<1>7. QED BY <1>1, <1>2, <1>3, <1>4, <1>5, <1>6

-----------------------------------------------------------------------------
(* Types.  That a terminating CR has the finalizer is inductive only if it *)
(* is said of the cached and of the pass's copy as well, from which the    *)
(* stored CR is written.                                                   *)
WellFormed(c) == c \in CRof(SubjectBody) /\ (c.going => c.there /\ c.fin)

SubjectOK ==
    /\ OfNamespace \/ OfJob
    /\ WellFormed(cr) /\ WellFormed(crSeen) /\ WellFormed(cp)
    /\ seenFresh \in BOOLEAN /\ cpFresh \in BOOLEAN
    /\ cluster \in N!Cluster /\ clusterSeen \in N!Cluster

NomadOK ==
    /\ OfNamespace =>
         /\ space \in N!Space \cup {NoSpace} /\ got \in N!Space \cup {NoSpace}
         /\ pc \in {"idle", "finalizer", "cluster", "owner", "apply", "upsert",
                    "status", "remove", "drop"}
    /\ OfJob =>
         /\ job \in (JobBody \ Invalid) \cup {Foreign, NoJob}
         /\ pc = "register" => cp.body \notin Invalid
         /\ pc \in {"idle", "finalizer", "cluster", "owner", "apply",
                    "register", "derive", "status", "remove", "drop"}
    /\ job # NoJob => space # NoSpace

-----------------------------------------------------------------------------
(* What a step does to the subject's CR, its cached copy and the pass,     *)
(* whichever of the two reconcilers takes it.                              *)
CRStays == UNCHANGED <<cr, crSeen, seenFresh>>

PassStays == UNCHANGED <<pc, cp, cpFresh>>

AtRest(p, c, fresh) ==
    p = "idle" /\ c \in CRof(SubjectBody) /\ NoneLeft(c) /\ fresh = FALSE

Ends == CRStays /\ pc # "idle" /\ AtRest(pc', cp', cpFresh')

Begins ==
    /\ CRStays /\ pc = "idle" /\ crSeen.there
    /\ cpFresh' = seenFresh
    /\ cp' \in CRof(SubjectBody) /\ Same(cp', crSeen)
    /\ cp'.ready = crSeen.ready
    /\ \/ pc' = "finalizer" /\ ~crSeen.going /\ ~crSeen.fin
       \/ pc' = "cluster" /\ ~crSeen.going /\ crSeen.fin
       \/ pc' = "drop" /\ crSeen.going
            /\ (~clusterSeen.there \/ clusterSeen.going)
       \/ pc' \in {"status", "remove"} /\ crSeen.going

\* The steps of a pass that leave the CR alone.
Order ==
    \/ pc = "cluster" /\ pc' \in {"owner", "apply", "status"}
    \/ pc = "apply" /\ pc' \in {"upsert", "register", "derive", "status"}
    \/ pc = "upsert" /\ pc' = "status"
    \/ pc = "register" /\ pc' = "derive"
    \/ pc = "derive" /\ pc' = "status"
    \/ pc = "remove" /\ pc' = "status"
    \/ pc = "remove" /\ pc' = "drop" /\ ~Object'

Proceeds ==
    /\ CRStays /\ UNCHANGED cpFresh
    /\ cp' \in CRof(SubjectBody) /\ Same(cp', cp)
    /\ pc' # "status" => cp'.ready = cp.ready
    /\ Order

\* Its writes of the CR.
Stored(c) ==
    /\ cpFresh /\ UNCHANGED crSeen
    /\ cr' = c /\ seenFresh' = (seenFresh /\ c = cr)

Holds ==
    /\ pc = "finalizer" /\ pc' = "cluster" /\ Stored(cp')
    /\ cpFresh' = cpFresh
    /\ cp' = [cp EXCEPT !.fin = TRUE]

Records ==
    /\ Stored(cp)
    /\ \/ pc = "owner" /\ pc' = "apply" /\ UNCHANGED <<cp, cpFresh>>
       \/ pc = "status" /\ AtRest(pc', cp', cpFresh')

Frees ==
    /\ pc = "drop" /\ cpFresh /\ UNCHANGED crSeen
    /\ cr' \in CRof(SubjectBody) /\ NoneLeft(cr')
    /\ seenFresh' = (seenFresh /\ cr' = cr)
    /\ AtRest(pc', cp', cpFresh')

\* Those of users and of the garbage collector.
Creates == ~cr.there /\ cr'.there /\ ~cr'.going /\ ~cr'.fin
Deletes ==
    /\ cr.there /\ ~cr.going
    /\ IF cr.fin THEN cr' = [cr EXCEPT !.going = TRUE] ELSE NoneLeft(cr')
Edits ==
    /\ cr.there /\ ~cr.going
    /\ cr'.there /\ ~cr'.going /\ cr'.fin = cr.fin

Outside ==
    /\ seenFresh' = FALSE /\ cpFresh' = FALSE /\ UNCHANGED <<crSeen, pc, cp>>
    /\ cr' \in CRof(SubjectBody) /\ cr'.ready \in {"Unknown", cr.ready}
    /\ Creates \/ Deletes \/ Edits

Syncs == crSeen' = cr /\ seenFresh' = TRUE /\ UNCHANGED cr /\ PassStays

Kinds ==
    /\ UNCHANGED subject
    /\ \/ Begins \/ Proceeds \/ Ends
       \/ Holds \/ Records \/ Frees
       \/ Outside \/ Syncs \/ (CRStays /\ PassStays)

-----------------------------------------------------------------------------

Typed ==
    /\ OfNamespace \/ OfJob
    /\ cr \in CRof(SubjectBody) /\ crSeen \in CRof(SubjectBody)
    /\ cp \in CRof(SubjectBody)
    /\ seenFresh \in BOOLEAN /\ cpFresh \in BOOLEAN

LEMMA SubjectStays ==
    [Next]_vars => /\ UNCHANGED subject /\ SubjectBody' = SubjectBody
                   /\ OfNamespace' = OfNamespace /\ OfJob' = OfJob
<1>1. [Next]_vars => UNCHANGED subject
  BY DEF Next, Background, Pass, Fault, Users, SyncCR, CollectGarbage, Others,
         Peer, EditNomad, NomadStep, ClusterReady, DeleteCluster,
         ForegroundDone, SyncCluster, ClusterStep, crVars, vars
<1>2. QED BY <1>1 DEF SubjectBody, OfNamespace, OfJob

LEMMA EndOfPass ==
    /\ N!EndPass /\ OfNamespace /\ UNCHANGED subject
         => AtRest(pc', cp', cpFresh')
    /\ J!EndPass /\ OfJob /\ UNCHANGED subject => AtRest(pc', cp', cpFresh')
<1>1. UNCHANGED subject => SubjectBody' = SubjectBody
  BY DEF SubjectBody, OfNamespace
<1>2. QED BY <1>1, Subjects, NewValues DEF N!EndPass, J!EndPass, AtRest

\* The part of the pass that the two reconcilers share.
LEMMA CommonKinds ==
    ASSUME Typed, UNCHANGED subject,
           \/ OfNamespace /\ N!CommonSteps
           \/ OfJob /\ J!CommonSteps
    PROVE  Begins \/ Proceeds \/ Ends \/ Holds \/ Records \/ Frees
<1> USE DEF Typed
<1>0. SubjectBody' = SubjectBody
  BY DEF SubjectBody, OfNamespace
<1>1. /\ OfNamespace => ~OfJob /\ SubjectBody = NsBody
      /\ OfJob => ~OfNamespace /\ SubjectBody = JobBody
  BY Subjects
<1>2. /\ OfNamespace /\ N!EndPass => AtRest(pc', cp', cpFresh')
      /\ OfJob /\ J!EndPass => AtRest(pc', cp', cpFresh')
  BY EndOfPass
<1>3. CASE N!Start \/ J!Start
  <2>1. /\ [crSeen EXCEPT !.blocked = TRUE] \in CRof(SubjectBody)
        /\ Same([crSeen EXCEPT !.blocked = TRUE], crSeen)
        /\ [crSeen EXCEPT !.blocked = TRUE].ready = crSeen.ready
    BY DEF CRof, Same
  <2>2. Same(crSeen, crSeen)
    BY DEF Same
  <2>3. Begins
    BY <1>3, <2>1, <2>2
    DEF N!Start, J!Start, N!crVars, J!crVars, Begins, CRStays
  <2>4. QED BY <2>3
<1>4. CASE (OfNamespace /\ N!AddFinalizer) \/ (OfJob /\ J!AddFinalizer)
  BY <1>2, <1>4
  DEF N!AddFinalizer, J!AddFinalizer, N!Write, J!Write, N!Conflict, J!Conflict,
      Holds, Stored, Ends, CRStays
<1>5. CASE N!ResolveCluster \/ J!ResolveCluster
  <2>1. /\ [cp EXCEPT !.owned = TRUE] \in CRof(SubjectBody)
        /\ Same([cp EXCEPT !.owned = TRUE], cp)
        /\ [cp EXCEPT !.owned = TRUE].ready = cp.ready
        /\ [cp EXCEPT !.ready = "Unready"] \in CRof(SubjectBody)
        /\ Same([cp EXCEPT !.ready = "Unready"], cp)
    BY DEF CRof, Same
  <2>2. Proceeds
    BY <1>5, <2>1
    DEF N!ResolveCluster, J!ResolveCluster, N!Report, J!Report, N!crVars,
        J!crVars, Proceeds, Order, CRStays
  <2>3. QED BY <2>2
<1>6. CASE (OfNamespace /\ N!SetOwner) \/ (OfJob /\ J!SetOwner)
  BY <1>2, <1>6
  DEF N!SetOwner, J!SetOwner, N!Write, J!Write, N!Conflict, J!Conflict,
      N!Goto, J!Goto, Records, Stored, Ends, CRStays
<1>7. CASE (OfNamespace /\ N!UpdateStatus) \/ (OfJob /\ J!UpdateStatus)
  BY <1>2, <1>7
  DEF N!UpdateStatus, J!UpdateStatus, N!Write, J!Write, N!Conflict,
      J!Conflict, Records, Stored, Ends, CRStays
<1>8. CASE (OfNamespace /\ N!DropFinalizer) \/ (OfJob /\ J!DropFinalizer)
  <2>1. /\ OfNamespace => N!NoCR \in CRof(SubjectBody) /\ NoneLeft(N!NoCR)
        /\ OfJob => J!NoCR \in CRof(SubjectBody) /\ NoneLeft(J!NoCR)
    BY <1>1, NewValues
  <2>2. QED
    BY <1>0, <1>2, <1>8, <2>1
    DEF N!DropFinalizer, J!DropFinalizer, N!Write, J!Write, N!Conflict,
        J!Conflict, Frees, Ends, CRStays
<1>9. CASE OfNamespace /\ N!CommonSteps
  BY <1>3, <1>4, <1>5, <1>6, <1>7, <1>8, <1>9 DEF N!CommonSteps
<1>10. CASE OfJob /\ J!CommonSteps
  BY <1>3, <1>4, <1>5, <1>6, <1>7, <1>8, <1>10 DEF J!CommonSteps
<1>11. QED BY <1>9, <1>10

\* What it does at Nomad.
LEMMA NomadKinds ==
    ASSUME Typed, UNCHANGED subject, Pass \/ Fault
    PROVE  \/ OfNamespace /\ N!CommonSteps
           \/ OfJob /\ J!CommonSteps
           \/ Proceeds \/ Ends
<1> USE DEF Typed
<1>0. /\ SubjectBody' = SubjectBody
      /\ OfNamespace' = OfNamespace /\ OfJob' = OfJob
  BY DEF SubjectBody, OfNamespace, OfJob
<1>1. /\ OfNamespace => ~OfJob /\ SubjectBody = NsBody
      /\ OfJob => ~OfNamespace /\ SubjectBody = JobBody
  BY Subjects
<1>2. /\ OfNamespace /\ N!EndPass => AtRest(pc', cp', cpFresh')
      /\ OfJob /\ J!EndPass => AtRest(pc', cp', cpFresh')
  BY EndOfPass
<1>3. /\ \A r \in {"Refused", "Registered"} :
           /\ [cp EXCEPT !.ready = r] \in CRof(SubjectBody)
           /\ Same([cp EXCEPT !.ready = r], cp)
      /\ [cp EXCEPT !.blocked = TRUE] \in CRof(SubjectBody)
      /\ Same([cp EXCEPT !.blocked = TRUE], cp)
      /\ Same(cp, cp)
  BY DEF CRof, Same
<1> USE DEF CRStays, Proceeds, Order
<1>4. ASSUME OfNamespace, N!NameConflict \/ N!GetNamespace \/ N!UpsertNamespace
      PROVE  Proceeds
  BY <1>0, <1>3, <1>4
  DEF N!NameConflict, N!GetNamespace, N!UpsertNamespace, N!Report, N!Goto,
      N!crVars
<1>5. ASSUME OfNamespace, NEW a,
             N!DeleteNamespace(a) \/ N!DeletedUnanswered
      PROVE  Proceeds
  BY <1>0, <1>1, <1>3, <1>5
  DEF N!DeleteNamespace, N!DeletedUnanswered, N!Report, N!Goto, N!crVars,
      Object
<1>6. ASSUME OfNamespace, N!NoAnswer \/ N!PassAborted
      PROVE  Ends
  BY <1>0, <1>2, <1>6 DEF N!NoAnswer, N!PassAborted, N!crVars, Ends
<1>7. ASSUME OfJob, J!DecodeFails \/ J!PlanJob \/ J!RegisterJob
      PROVE  Proceeds
  BY <1>0, <1>3, <1>7
  DEF J!DecodeFails, J!PlanJob, J!RegisterJob, J!Report, J!Goto, J!crVars
<1>8. ASSUME OfJob, J!DeriveStatus
      PROVE  Proceeds \/ Ends
  BY <1>0, <1>2, <1>3, <1>8 DEF J!DeriveStatus, J!Report, J!crVars, Ends
<1>9. ASSUME OfJob, NEW a,
             J!DeregisterJob(a) \/ J!DeregisteredUnanswered
      PROVE  Proceeds
  BY <1>0, <1>1, <1>3, <1>9
  DEF J!DeregisterJob, J!DeregisteredUnanswered, J!Report, J!Goto, J!crVars,
      Object
<1>10. ASSUME OfJob, J!NoAnswer \/ J!PassAborted
       PROVE  Ends
  BY <1>0, <1>2, <1>10 DEF J!NoAnswer, J!PassAborted, J!crVars, Ends
<1>11. QED
  <2>1. CASE Pass
    <3>1. ASSUME OfNamespace, N!Pass PROVE N!CommonSteps \/ Proceeds \/ Ends
      BY <1>4, <1>5, <1>6, <3>1 DEF N!Pass, N!Common
    <3>2. ASSUME OfJob, J!Pass PROVE J!CommonSteps \/ Proceeds \/ Ends
      BY <1>7, <1>8, <1>9, <1>10, <3>2 DEF J!Pass, J!Common
    <3>3. QED BY <2>1, <3>1, <3>2 DEF Pass
  <2>2. CASE Fault
    <3>1. ASSUME OfNamespace, N!Fault PROVE Proceeds \/ Ends
      BY <1>4, <1>5, <1>6, <3>1 DEF N!Fault
    <3>2. ASSUME OfJob, J!Fault PROVE Proceeds \/ Ends
      BY <1>9, <1>10, <3>2 DEF J!Fault
    <3>3. QED BY <2>2, <3>1, <3>2 DEF Fault
  <2>3. QED BY <2>1, <2>2

\* Users and the garbage collector.
LEMMA OutsideKinds ==
    ASSUME Typed, UNCHANGED subject, Users \/ CollectGarbage PROVE Outside
<1> USE DEF Typed
<1>0. SubjectBody' = SubjectBody
  BY DEF SubjectBody, OfNamespace
<1>1. /\ OfNamespace => ~OfJob /\ SubjectBody = NsBody
      /\ OfJob => ~OfNamespace /\ SubjectBody = JobBody
  BY Subjects
<1>2. /\ [cr EXCEPT !.going = TRUE] \in CRof(SubjectBody)
      /\ [cr EXCEPT !.going = TRUE].ready = cr.ready
  BY DEF CRof
<1>3. ASSUME NEW b \in SubjectBody
      PROVE  /\ [cr EXCEPT !.body = b] \in CRof(SubjectBody)
             /\ [cr EXCEPT !.body = b].there = cr.there
             /\ [cr EXCEPT !.body = b].going = cr.going
             /\ [cr EXCEPT !.body = b].fin = cr.fin
             /\ [cr EXCEPT !.body = b].ready = cr.ready
  BY DEF CRof
<1>4. /\ OfNamespace => N!NoCR \in CRof(SubjectBody) /\ NoneLeft(N!NoCR)
      /\ OfJob => J!NoCR \in CRof(SubjectBody) /\ NoneLeft(J!NoCR)
  BY <1>1, NewValues
<1> USE DEF Outside
<1>5. CASE \/ OfNamespace /\ (N!DeleteCR \/ N!CollectGarbage)
           \/ OfJob /\ (J!DeleteCR \/ J!CollectGarbage)
  <2>1. /\ cr.there /\ ~cr.going
        /\ seenFresh' = FALSE /\ cpFresh' = FALSE /\ UNCHANGED <<crSeen, pc, cp>>
        /\ IF cr.fin THEN cr' = [cr EXCEPT !.going = TRUE]
                     ELSE /\ cr' \in CRof(SubjectBody)
                          /\ NoneLeft(cr')
    BY <1>4, <1>5
    DEF N!DeleteCR, J!DeleteCR, N!CollectGarbage, J!CollectGarbage,
        N!OtherWrites, J!OtherWrites, N!Deleted, J!Deleted
  <2>2. cr' \in CRof(SubjectBody) /\ cr'.ready \in {"Unknown", cr.ready}
    BY <1>2, <2>1 DEF NoneLeft
  <2>3. QED BY <1>0, <2>1, <2>2 DEF Deletes
<1>6. CASE \/ OfNamespace /\ \E b \in NsBody : N!CreateCR(b)
           \/ OfJob /\ \E b \in JobBody : J!CreateCR(b)
  <2>1. /\ ~cr.there /\ cr' \in CRof(SubjectBody) /\ cr'.there /\ ~cr'.going
        /\ ~cr'.fin /\ cr'.ready = "Unknown"
        /\ seenFresh' = FALSE /\ cpFresh' = FALSE /\ UNCHANGED <<crSeen, pc, cp>>
    BY <1>1, <1>6, NewValues
    DEF N!CreateCR, J!CreateCR, N!OtherWrites, J!OtherWrites
  <2>2. QED BY <1>0, <2>1 DEF Creates
<1>7. CASE \/ OfNamespace /\ \E b \in NsBody : N!EditCR(b)
           \/ OfJob /\ \E b \in JobBody : J!EditCR(b)
  <2>1. /\ cr.there /\ ~cr.going
        /\ \E b \in SubjectBody : cr' = [cr EXCEPT !.body = b]
        /\ seenFresh' = FALSE /\ cpFresh' = FALSE /\ UNCHANGED <<crSeen, pc, cp>>
    BY <1>1, <1>7 DEF N!EditCR, J!EditCR, N!OtherWrites, J!OtherWrites
  <2>2. QED BY <1>0, <1>3, <2>1 DEF Edits
<1>8. QED
  BY <1>5, <1>6, <1>7 DEF Users, CollectGarbage, N!Users, J!Users

LEMMA StepKinds ==
    ASSUME Typed, [Next]_vars PROVE Kinds
<1>1. UNCHANGED subject
  BY SubjectStays
<1>2. CASE Pass \/ Fault
  BY <1>1, <1>2, CommonKinds, NomadKinds DEF Kinds
<1>3. CASE Users \/ CollectGarbage
  BY <1>1, <1>3, OutsideKinds DEF Kinds
<1>4. CASE SyncCR
  BY <1>1, <1>4
  DEF Kinds, SyncCR, N!SyncCR, J!SyncCR, N!passVars, J!passVars, Syncs,
      PassStays
<1>5. CASE \/ Peer \/ EditNomad \/ ClusterReady \/ DeleteCluster
           \/ ForegroundDone \/ SyncCluster \/ UNCHANGED vars
  BY <1>1, <1>5
  DEF Kinds, Peer, EditNomad, NomadStep, ClusterReady, DeleteCluster,
      ForegroundDone, ClusterStep, SyncCluster, CRStays, PassStays, vars,
      crVars, passVars
<1>6. QED BY <1>2, <1>3, <1>4, <1>5 DEF Next, Background

\* The cluster: once it is deleted there is no way back.
LEMMA ClusterKinds ==
    ASSUME cluster \in N!Cluster, clusterSeen \in N!Cluster, [Next]_vars
    PROVE  /\ cluster' \in N!Cluster /\ clusterSeen' \in {clusterSeen, cluster}
           /\ Excused => Excused'
<1>1. CASE ClusterReady \/ DeleteCluster \/ ForegroundDone
  <2>1. /\ \A b \in BOOLEAN : [cluster EXCEPT !.ready = b] \in N!Cluster
        /\ \A b : [cluster EXCEPT !.ready = b].there = cluster.there
        /\ \A b : [cluster EXCEPT !.ready = b].going = cluster.going
    BY DEF N!Cluster
  <2>2. /\ [cluster EXCEPT !.going = TRUE] \in N!Cluster
        /\ [cluster EXCEPT !.going = TRUE].going
    BY DEF N!Cluster
  <2>3. NoCluster \in N!Cluster /\ ~NoCluster.there
    BY DEF NoCluster, N!Cluster
  <2>4. cluster.ready \in BOOLEAN
    BY DEF N!Cluster
  <2>5. UNCHANGED clusterSeen
    BY <1>1 DEF ClusterReady, DeleteCluster, ForegroundDone, ClusterStep
  <2>6. \/ cluster' = [cluster EXCEPT !.ready = ~cluster.ready]
        \/ cluster' = [cluster EXCEPT !.going = TRUE]
        \/ cluster' = NoCluster
    BY <1>1 DEF ClusterReady, DeleteCluster, ForegroundDone, ClusterStep
  <2>7. QED BY <2>1, <2>2, <2>3, <2>4, <2>5, <2>6 DEF Excused
<1>2. CASE SyncCluster
  BY <1>2 DEF SyncCluster, Excused
<1>3. CASE UNCHANGED <<cluster, clusterSeen>>
  BY <1>3 DEF Excused
<1>4. \/ UNCHANGED <<cluster, clusterSeen>>
      \/ ClusterReady \/ DeleteCluster \/ ForegroundDone \/ SyncCluster
  BY DEF Next, Background, Pass, Fault, Users, SyncCR, CollectGarbage, Others,
         Peer, EditNomad, NomadStep, vars
<1>5. QED BY <1>1, <1>2, <1>3, <1>4
-----------------------------------------------------------------------------
LEMMA SubjectOKHolds == Spec => []SubjectOK
<1>1. Init => SubjectOK
  <2> SUFFICES ASSUME Init PROVE SubjectOK
    OBVIOUS
  <2>1. cluster \in N!Cluster /\ clusterSeen = cluster
    BY DEF Init, N!Cluster
  <2>2. /\ OfNamespace \/ OfJob
        /\ WellFormed(cr) /\ crSeen = cr /\ WellFormed(cp)
        /\ seenFresh = TRUE /\ cpFresh = FALSE
    BY Subjects, NewValues
    DEF Init, WellFormed, NoneLeft, N!Init, N!InitCR, J!Init, J!InitCR
  <2>3. QED BY <2>1, <2>2 DEF SubjectOK
<1>2. SubjectOK /\ [Next]_vars => SubjectOK'
  <2> SUFFICES ASSUME SubjectOK, [Next]_vars PROVE SubjectOK'
    OBVIOUS
  <2>1. /\ UNCHANGED subject /\ SubjectBody' = SubjectBody
        /\ OfNamespace' = OfNamespace /\ OfJob' = OfJob
    BY SubjectStays
  <2>2. Kinds
    BY StepKinds DEF SubjectOK, WellFormed, Typed
  <2>3. cluster' \in N!Cluster /\ clusterSeen' \in N!Cluster
    BY ClusterKinds DEF SubjectOK
  <2> USE DEF SubjectOK, WellFormed
  <2>4. /\ cr' \in CRof(SubjectBody) /\ crSeen' \in CRof(SubjectBody)
        /\ cp' \in CRof(SubjectBody)
        /\ seenFresh' \in BOOLEAN /\ cpFresh' \in BOOLEAN
    <3>1. [cp EXCEPT !.fin = TRUE] \in CRof(SubjectBody)
      BY DEF CRof
    <3>2. QED
      BY <2>1, <2>2, <3>1
      DEF Kinds, Begins, Proceeds, Ends, Holds, Records, Frees, Outside, Syncs,
          CRStays, PassStays, Stored, AtRest
  <2>5. cr'.going => cr'.there /\ cr'.fin
    <3>1. /\ [cr EXCEPT !.going = TRUE].there = cr.there
          /\ [cr EXCEPT !.going = TRUE].fin = cr.fin
          /\ [cp EXCEPT !.fin = TRUE].there = cp.there
          /\ [cp EXCEPT !.fin = TRUE].going = cp.going
          /\ [cp EXCEPT !.fin = TRUE].fin = TRUE
      BY DEF CRof
    <3>2. QED
      BY <2>2, <3>1
      DEF Kinds, Begins, Proceeds, Ends, Holds, Records, Frees, Outside, Syncs,
          CRStays, Stored, NoneLeft, Creates, Deletes, Edits
  <2>6. cp'.going => cp'.there /\ cp'.fin
    <3>1. /\ [cp EXCEPT !.fin = TRUE].there = cp.there
          /\ [cp EXCEPT !.fin = TRUE].going = cp.going
          /\ [cp EXCEPT !.fin = TRUE].fin = TRUE
      BY DEF CRof
    <3>2. QED
      BY <2>2, <3>1
      DEF Kinds, Begins, Proceeds, Ends, Holds, Records, Frees, Outside, Syncs,
          PassStays, Same, NoneLeft, AtRest
  <2>7. crSeen'.going => crSeen'.there /\ crSeen'.fin
    BY <2>2
    DEF Kinds, Begins, Proceeds, Ends, Holds, Records, Frees, Outside, Syncs,
        CRStays, Stored
  <2>8. QED
    BY <2>1, <2>3, <2>4, <2>5, <2>6, <2>7
<1>3. QED BY <1>1, <1>2, PTL DEF Spec

LEMMA CommonGoesTo ==
    ASSUME N!CommonSteps \/ J!CommonSteps
    PROVE  pc' \in {"idle", "finalizer", "cluster", "owner", "apply", "status",
                    "remove", "drop"}
BY DEF N!CommonSteps, J!CommonSteps, N!Start, J!Start, N!AddFinalizer,
       J!AddFinalizer, N!ResolveCluster, J!ResolveCluster, N!SetOwner,
       J!SetOwner, N!UpdateStatus, J!UpdateStatus, N!DropFinalizer,
       J!DropFinalizer, N!Conflict, J!Conflict, N!EndPass, J!EndPass, N!Report,
       J!Report, N!Goto, J!Goto

LEMMA NomadOKHolds == Spec => []NomadOK
<1>1. Init => NomadOK
  <2> SUFFICES ASSUME Init PROVE NomadOK
    OBVIOUS
  <2>1. CASE OfNamespace /\ N!Init /\ job = NoJob
    BY <2>1, Subjects DEF NomadOK, N!Init, N!InitCR
  <2>2. CASE OfJob /\ J!Init /\ space = NoSpace /\ got = NoSpace
    BY <2>2, Subjects DEF NomadOK, J!Init, J!InitCR
  <2>3. QED BY <2>1, <2>2 DEF Init
<1>2. SubjectOK /\ NomadOK /\ [Next]_vars => NomadOK'
  <2> SUFFICES ASSUME SubjectOK, NomadOK, [Next]_vars PROVE NomadOK'
    OBVIOUS
  <2>1. OfNamespace' = OfNamespace /\ OfJob' = OfJob
    BY SubjectStays
  <2>2. /\ OfNamespace => ~OfJob /\ cp.body \in NsBody
        /\ OfJob => ~OfNamespace /\ cp.body \in JobBody
    BY Subjects DEF SubjectOK, WellFormed, CRof
  <2> USE DEF NomadOK
  <2>3. CASE OfNamespace /\ (N!Pass \/ N!Fault) /\ UNCHANGED job
    <3>1. ASSUME N!Common
          PROVE  NomadOK'
      BY <2>1, <2>2, <2>3, <3>1, CommonGoesTo DEF N!Common
    <3>2. ASSUME N!GetNamespace \/ N!NameConflict \/ N!NoAnswer
                 \/ (N!PassAborted /\ got' = NoSpace /\ UNCHANGED space)
          PROVE  NomadOK'
      BY <2>1, <2>2, <2>3, <3>2
      DEF N!GetNamespace, N!NameConflict, N!NoAnswer, N!PassAborted, N!Report,
          N!Goto, N!EndPass
    <3>3. ASSUME N!UpsertNamespace
          PROVE  NomadOK'
      <4>1. N!DesiredNamespace(got) \in N!Space
        BY <2>2, <2>3, ConstAssumption
        DEF ConstAssumption, N!DesiredNamespace, N!Space
      <4>2. NoSpace \notin N!Space
        BY ConstAssumption DEF ConstAssumption, N!Space
      <4>3. QED
        BY <2>1, <2>2, <2>3, <3>3, <4>1, <4>2 DEF N!UpsertNamespace, N!Report
    <3>4. ASSUME NEW a, N!DeleteNamespace(a) \/ N!DeletedUnanswered
          PROVE  NomadOK'
      BY <2>1, <2>2, <2>3, <3>4
      DEF N!DeleteNamespace, N!DeletedUnanswered, N!Report, N!Goto
    <3>5. QED
      BY <2>3, <3>1, <3>2, <3>3, <3>4 DEF N!Pass, N!Fault
  <2>4. CASE OfJob /\ (J!Pass \/ J!Fault) /\ UNCHANGED <<space, got>>
    <3>1. ASSUME J!Common
          PROVE  NomadOK'
      BY <2>1, <2>2, <2>4, <3>1, CommonGoesTo DEF J!Common
    <3>2. ASSUME J!DecodeFails \/ J!PlanJob \/ J!DeriveStatus \/ J!NoAnswer
                 \/ (J!PassAborted /\ UNCHANGED job)
          PROVE  NomadOK'
      BY <2>1, <2>2, <2>4, <3>2
      DEF J!DecodeFails, J!PlanJob, J!DeriveStatus, J!NoAnswer, J!PassAborted,
          J!Report, J!Goto, J!EndPass
    <3>3. ASSUME J!RegisterJob
          PROVE  NomadOK'
      BY <2>1, <2>2, <2>4, <3>3 DEF J!RegisterJob, J!Goto
    <3>4. ASSUME NEW a, J!DeregisterJob(a) \/ J!DeregisteredUnanswered
          PROVE  NomadOK'
      BY <2>1, <2>2, <2>4, <3>4
      DEF J!DeregisterJob, J!DeregisteredUnanswered, J!Report, J!Goto
    <3>5. QED
      BY <2>4, <3>1, <3>2, <3>3, <3>4 DEF J!Pass, J!Fault
  <2>5. CASE Users \/ SyncCR \/ CollectGarbage
    <3>1. UNCHANGED <<pc, cp, space, got, job>>
      BY <2>5
      DEF Users, SyncCR, CollectGarbage, Others, nomad, N!Users, J!Users,
          N!DeleteCR, J!DeleteCR, N!CreateCR, J!CreateCR, N!EditCR, J!EditCR,
          N!CollectGarbage, J!CollectGarbage, N!OtherWrites, J!OtherWrites,
          N!SyncCR, J!SyncCR, N!passVars, J!passVars
    <3>2. QED BY <2>1, <3>1
  <2>6. CASE Peer \/ EditNomad
    BY <2>1, <2>2, <2>6 DEF Peer, EditNomad, NomadStep, passVars
  <2>7. CASE \/ ClusterReady \/ DeleteCluster \/ ForegroundDone \/ SyncCluster
             \/ UNCHANGED vars
    BY <2>1, <2>7
    DEF ClusterReady, DeleteCluster, ForegroundDone, ClusterStep, SyncCluster,
        passVars, nomad, vars
  <2>8. QED
    BY <2>3, <2>4, <2>5, <2>6, <2>7 DEF Next, Background, Pass, Fault
<1>3. QED BY <1>1, <1>2, SubjectOKHolds, PTL DEF Spec

\* The CR, its cached copy, the pass, Nomad's answer and Nomad's own state are
\* what the code can represent, a terminating CR carries the finalizer, and a
\* job has a namespace.
THEOREM TypeCorrect == Spec => []TypeOK
<1>1. SubjectOK /\ NomadOK => TypeOK
  <2> SUFFICES ASSUME SubjectOK, NomadOK PROVE TypeOK
    OBVIOUS
  <2>1. CASE OfNamespace
    BY <2>1, Subjects
    DEF SubjectOK, WellFormed, NomadOK, TypeOK, N!TypeOK, N!TypeCR
  <2>2. CASE OfJob
    BY <2>2, Subjects
    DEF SubjectOK, WellFormed, NomadOK, TypeOK, J!TypeOK, J!TypeCR
  <2>3. QED BY <2>1, <2>2 DEF SubjectOK
<1>2. QED BY <1>1, SubjectOKHolds, NomadOKHolds, PTL

-----------------------------------------------------------------------------
(* SubjectIsManaged.  Why a pass that works from copies never leaves the   *)
(* object without a CR that holds it:                                      *)

\* the copies are behind the stored CR, but never on the other side of the
\* finalizer, since only this operator takes it off, in a pass that has seen
\* the deletion;
CopiesInv ==
    /\ seenFresh => crSeen = cr
    /\ cpFresh => Same(cp, cr) /\ crSeen.going = cr.going
    /\ crSeen.there /\ crSeen.fin /\ ~crSeen.going => cr.there /\ cr.fin

\* a pass that goes on to Nomad has put the finalizer on or found it there;
PassInv ==
    /\ pc \in {"cluster", "owner", "apply", "upsert", "register", "derive"}
         => cr.there /\ cr.fin
    /\ pc = "finalizer" => cp.there /\ ~cp.going /\ ~cp.fin
    /\ pc \in {"remove", "drop"} => cp.going

\* and one that takes it off has removed the object or seen the cluster's end.
ExcuseInv ==
    /\ ~clusterSeen.there \/ clusterSeen.going => Excused
    /\ pc = "drop" => ~Object \/ Excused

HoldInv == CopiesInv /\ PassInv /\ ExcuseInv

\* A step moves the CR and its copies, or the cluster, or Nomad; only the
\* upsert of a namespace and the registration of a job make the object.
LEMMA OneAtATime ==
    ASSUME SubjectOK, [Next]_vars
    PROVE  /\ \/ UNCHANGED <<cluster, Object>>
              \/ UNCHANGED <<cr, Object>>
              \/ UNCHANGED <<cr, cluster>>
           /\ Object' => Object \/ pc \in {"upsert", "register"}
<1>1. OfNamespace' = OfNamespace /\ OfJob' = OfJob
  BY SubjectStays
<1>2. /\ OfNamespace => ~OfJob /\ OfNamespace'
      /\ OfJob => ~OfNamespace /\ ~OfNamespace' /\ OfJob'
      /\ OfNamespace \/ OfJob
  BY <1>1 DEF OfNamespace, OfJob, SubjectOK
<1>3. CASE OfNamespace /\ (N!Pass \/ N!Fault) /\ UNCHANGED <<job, cluster>>
  <2>1. \/ UNCHANGED space
        \/ UNCHANGED cr /\ (space' = NoSpace \/ pc = "upsert")
    BY <1>3
    DEF N!Pass, N!Fault, N!Common, N!GetNamespace, N!UpsertNamespace,
        N!NoAnswer, N!DeleteNamespace, N!NameConflict, N!DeletedUnanswered,
        N!crVars
  <2>2. QED BY <1>2, <1>3, <2>1 DEF Object
<1>4. CASE OfJob /\ (J!Pass \/ J!Fault) /\ UNCHANGED <<space, cluster>>
  <2>1. \/ UNCHANGED job
        \/ UNCHANGED cr /\ (job' = NoJob \/ pc = "register")
    BY <1>4
    DEF J!Pass, J!Fault, J!Common, J!DecodeFails, J!PlanJob, J!RegisterJob,
        J!DeriveStatus, J!NoAnswer, J!DeregisterJob, J!DeregisteredUnanswered,
        J!crVars
  <2>2. QED BY <1>2, <1>4, <2>1 DEF Object
<1>5. CASE Users \/ SyncCR \/ CollectGarbage
  <2>1. UNCHANGED <<cluster, space, job>>
    BY <1>5 DEF Users, SyncCR, CollectGarbage, Others, nomad
  <2>2. QED BY <1>2, <2>1 DEF Object
<1>6. CASE Peer \/ EditNomad
  <2>1. UNCHANGED <<cr, cluster>>
    BY <1>6 DEF Peer, EditNomad, NomadStep, crVars
  <2>2. Object' => Object
    BY <1>2, <1>6 DEF Peer, EditNomad, Object
  <2>3. QED BY <2>1, <2>2
<1>7. CASE \/ ClusterReady \/ DeleteCluster \/ ForegroundDone \/ SyncCluster
           \/ UNCHANGED vars
  <2>1. UNCHANGED <<cr, space, job>>
    BY <1>7
    DEF ClusterReady, DeleteCluster, ForegroundDone, ClusterStep, SyncCluster,
        crVars, nomad, vars
  <2>2. QED BY <1>2, <2>1 DEF Object
<1>8. QED
  BY <1>3, <1>4, <1>5, <1>6, <1>7 DEF Next, Background, Pass, Fault

LEMMA HoldInvHolds == Spec => []HoldInv
<1>1. Init => HoldInv
  <2> SUFFICES ASSUME Init PROVE HoldInv
    OBVIOUS
  <2>1. /\ crSeen = cr /\ ~cpFresh /\ pc = "idle" /\ ~cr.fin
        /\ clusterSeen = cluster
    BY NewValues DEF Init, N!Init, N!InitCR, J!Init, J!InitCR, NoneLeft
  <2>2. QED BY <2>1 DEF HoldInv, CopiesInv, PassInv, ExcuseInv, Excused
<1>2. SubjectOK /\ HoldInv /\ [Next]_vars => HoldInv'
  <2> SUFFICES ASSUME SubjectOK, HoldInv, [Next]_vars PROVE HoldInv'
    OBVIOUS
  <2>1. Kinds
    BY StepKinds DEF SubjectOK, WellFormed, Typed
  <2>2. /\ [cr EXCEPT !.going = TRUE].there = cr.there
        /\ [cr EXCEPT !.going = TRUE].going
        /\ [cr EXCEPT !.going = TRUE].fin = cr.fin
        /\ [cp EXCEPT !.fin = TRUE].there = cp.there
        /\ [cp EXCEPT !.fin = TRUE].going = cp.going
        /\ [cp EXCEPT !.fin = TRUE].fin
    BY DEF SubjectOK, WellFormed, CRof
  <2> USE DEF HoldInv
  <2>3. CopiesInv' /\ PassInv'
    <3> USE DEF CopiesInv, PassInv
    <3>1. CASE Begins
      BY <3>1 DEF Begins, CRStays, Same
    <3>2. CASE Proceeds
      BY <3>2 DEF Proceeds, Order, CRStays, Same
    <3>3. CASE Ends
      BY <3>3 DEF Ends, AtRest, CRStays
    <3>4. CASE Holds
      <4>1. cp.there /\ ~cp.going /\ ~cp.fin /\ Same(cp, cr)
        BY <3>4 DEF Holds, Stored
      <4>2. /\ cr' = cp' /\ cr'.there /\ ~cr'.going /\ cr'.fin
            /\ cpFresh' = cpFresh /\ pc' = "cluster" /\ UNCHANGED crSeen
            /\ seenFresh' = (seenFresh /\ cr' = cr)
        BY <2>2, <3>4, <4>1 DEF Holds, Stored
      <4>3. crSeen.going = cr.going /\ ~cr.going
        BY <3>4, <4>1 DEF Holds, Stored, Same
      <4>4. Same(cp', cr') /\ crSeen'.going = cr'.going
        <5>1. cr'.going = cp.going
          BY <2>2, <3>4 DEF Holds, Stored
        <5>2. cp.going \in BOOLEAN /\ crSeen.going \in BOOLEAN
          BY DEF SubjectOK, WellFormed, CRof
        <5>3. QED BY <4>1, <4>2, <4>3, <5>1, <5>2 DEF Same
      <4>5. CopiesInv'
        BY <4>2, <4>3, <4>4
      <4>6. PassInv'
        BY <4>2
      <4>7. QED BY <4>5, <4>6
    <3>5. CASE Records
      <4>1. /\ cpFresh /\ cr' = cp /\ UNCHANGED crSeen
            /\ seenFresh' = (seenFresh /\ cr' = cr)
        BY <3>5 DEF Records, Stored
      <4>2. Same(cr', cr)
        BY <4>1
      <4>3. CopiesInv'
        BY <3>5, <4>1, <4>2 DEF Records, AtRest, Same
      <4>4. PassInv'
        BY <3>5, <4>1, <4>2 DEF Records, AtRest, Same
      <4>5. QED BY <4>3, <4>4
    <3>6. CASE Frees
      <4>1. cpFresh /\ cp.going /\ Same(cp, cr) /\ crSeen.going = cr.going
        BY <3>6 DEF Frees
      <4>2. crSeen'.going
        BY <3>6, <4>1 DEF Frees, Same, SubjectOK, WellFormed, CRof
      <4>3. QED BY <3>6, <4>2 DEF Frees, AtRest
    <3>7. CASE Outside
      BY <2>2, <3>7 DEF Outside, Creates, Deletes, Edits, NoneLeft
    <3>8. CASE Syncs
      BY <3>8 DEF Syncs, PassStays
    <3>9. CASE CRStays /\ PassStays
      BY <3>9 DEF CRStays, PassStays
    <3>10. QED
      BY <2>1, <3>1, <3>2, <3>3, <3>4, <3>5, <3>6, <3>7, <3>8, <3>9 DEF Kinds
  <2>4. ExcuseInv'
    <3>1. /\ clusterSeen' \in {clusterSeen, cluster}
          /\ Excused => Excused'
      BY ClusterKinds DEF SubjectOK
    <3>2. ~clusterSeen'.there \/ clusterSeen'.going => Excused'
      BY <3>1 DEF ExcuseInv, Excused
    <3>3. ASSUME pc' = "drop", ~Excused' PROVE ~Object'
      <4>1. pc = "drop" \/ Begins \/ Proceeds
        BY <2>1, <3>3
        DEF Kinds, Ends, AtRest, Holds, Records, Frees, Outside, Syncs,
            PassStays
      <4>2. CASE pc = "drop"
        BY <3>1, <3>3, <4>2, OneAtATime DEF ExcuseInv
      <4>3. CASE Begins
        BY <3>1, <3>3, <4>3 DEF Begins, ExcuseInv
      <4>4. CASE Proceeds
        BY <3>3, <4>4 DEF Proceeds, Order
      <4>5. QED BY <4>1, <4>2, <4>3, <4>4
    <3>4. QED BY <3>2, <3>3 DEF ExcuseInv
  <2>5. QED BY <2>3, <2>4
<1>3. QED BY <1>1, <1>2, SubjectOKHolds, PTL DEF Spec

\* What the two finalizers are for: Nomad has a namespace or a job only on
\* account of a CR that holds it, and the CR goes only after it, or else with
\* the cluster, whatever fails, conflicts or is read too late in between.
THEOREM TenancyIsManaged == Spec => SubjectIsManaged
<1>1. Init => Managed!Init
  <2> SUFFICES ASSUME Init PROVE Managed!Init
    OBVIOUS
  <2>1. ~cr.going /\ ~cr.fin /\ cluster.there /\ ~cluster.going
    BY NewValues DEF Init, N!Init, N!InitCR, J!Init, J!InitCR, NoneLeft
  <2>2. Phase \in {"absent", "new"}
    BY <2>1 DEF Phase
  <2>3. Object = FALSE
    BY Subjects DEF Init, N!Init, J!Init, Object
  <2>4. QED BY <2>1, <2>2, <2>3 DEF Managed!Init, Excused
<1>2. SubjectOK /\ HoldInv /\ [Next]_vars => [Managed!Next]_(Managed!vars)
  <2> SUFFICES ASSUME SubjectOK, HoldInv, [Next]_vars
               PROVE  [Managed!Next]_(Managed!vars)
    OBVIOUS
  <2>1. Kinds
    BY StepKinds DEF SubjectOK, WellFormed, Typed
  <2>2. CASE UNCHANGED <<cluster, Object>>
    <3>1. \/ Phase' = Phase
          \/ Phase = "absent" /\ Phase' = "new"
          \/ Phase = "new" /\ Phase' \in {"held", "absent"}
          \/ Phase = "held" /\ Phase' = "going"
          \/ Phase = "going" /\ (~Object \/ Excused) /\ Phase' = "absent"
      <4>1. CASE Begins \/ Proceeds \/ Ends \/ Syncs \/ (CRStays /\ PassStays)
        BY <4>1 DEF Begins, Proceeds, Ends, Syncs, CRStays, Phase
      <4>2. CASE Holds
        <5>1. cr.there /\ ~cr.going /\ ~cr.fin
          BY <4>2 DEF Holds, Stored, HoldInv, CopiesInv, PassInv, Same
        <5>2. /\ [cp EXCEPT !.fin = TRUE].there = cp.there
              /\ [cp EXCEPT !.fin = TRUE].going = cp.going
              /\ [cp EXCEPT !.fin = TRUE].fin
          BY DEF SubjectOK, WellFormed, CRof
        <5>3. cr'.there /\ ~cr'.going /\ cr'.fin
          BY <4>2, <5>2 DEF Holds, Stored, HoldInv, PassInv
        <5>4. QED BY <5>1, <5>3 DEF Phase
      <4>3. CASE Records
        BY <4>3 DEF Records, Stored, HoldInv, CopiesInv, Same, Phase
      <4>4. CASE Frees
        <5>1. cp.going /\ Same(cp, cr)
          BY <4>4 DEF Frees, HoldInv, CopiesInv, PassInv
        <5>2. cr.going /\ cr.there
          BY <5>1 DEF Same, SubjectOK, WellFormed
        <5>3. ~Object \/ Excused
          BY <4>4 DEF Frees, HoldInv, ExcuseInv
        <5>4. QED BY <4>4, <5>2, <5>3 DEF Frees, NoneLeft, Phase
      <4>5. CASE Outside
        <5>1. /\ [cr EXCEPT !.going = TRUE].there = cr.there
              /\ [cr EXCEPT !.going = TRUE].going
          BY DEF SubjectOK, WellFormed, CRof
        <5>2. QED
          BY <4>5, <5>1 DEF Outside, Creates, Deletes, Edits, NoneLeft, Phase
      <4>6. QED
        BY <2>1, <4>1, <4>2, <4>3, <4>4, <4>5 DEF Kinds
    <3>2. Excused' = Excused
      BY <2>2 DEF Excused
    <3>3. QED
      BY <2>2, <3>1, <3>2
      DEF Managed!Next, Managed!Create, Managed!Hold, Managed!Dismiss,
          Managed!Delete, Managed!Release, Managed!vars
  <2>3. CASE UNCHANGED <<cr, Object>>
    <3>1. Phase' = Phase
      BY <2>3 DEF Phase
    <3>2. Excused' = Excused \/ Excused' = TRUE
      <4>1. Excused => Excused'
        BY ClusterKinds DEF SubjectOK
      <4>2. QED BY <4>1 DEF Excused
    <3>3. QED
      BY <2>3, <3>1, <3>2 DEF Managed!Next, Managed!Excuse, Managed!vars
  <2>4. CASE UNCHANGED <<cr, cluster>>
    <3>1. Phase' = Phase /\ Excused' = Excused
      BY <2>4 DEF Phase, Excused
    <3>2. CASE Object' => Object
      BY <3>1, <3>2 DEF Managed!Next, Managed!Remove, Managed!vars, Object
    <3>3. CASE pc \in {"upsert", "register"} /\ Object'
      <4>1. Phase \in {"held", "going"}
        BY <3>3 DEF HoldInv, PassInv, Phase
      <4>2. Object' = TRUE
        BY <3>3 DEF Object
      <4>3. QED BY <3>1, <4>1, <4>2 DEF Managed!Next, Managed!Register
    <3>4. QED BY <3>2, <3>3, OneAtATime
  <2>5. QED BY <2>2, <2>3, <2>4, OneAtATime
<1>3. QED
  BY <1>1, <1>2, SubjectOKHolds, HoldInvHolds, PTL
  DEF Spec, SubjectIsManaged, Managed!Spec

-----------------------------------------------------------------------------
(* ReportMatchesSpec.  A pass that can still write the CR has the stored   *)
(* Ready condition until it reports, and it reports Registered only of the *)
(* job it has compared with its copy or registered from it.                *)
Reportable(b) == {b, Foreign, NoJob}

ReportInv ==
    /\ cpFresh /\ pc # "status" => cp.ready = cr.ready
    /\ OfJob /\ cpFresh /\ pc = "status"
         /\ cp.ready = "Registered" /\ cr.ready # "Registered"
         => job \in Reportable(cp.body)
    /\ OfJob /\ pc = "derive" => job \in Reportable(cp.body)

\* Where the Registered of a report comes from, and what becomes of the job.
LEMMA JobSteps ==
    ASSUME SubjectOK, OfJob, [Next]_vars
    PROVE  /\ Proceeds /\ pc' = "status" /\ pc # "derive"
                => cp'.ready \in {"Unready", "Refused", cp.ready}
           /\ pc' = "derive" /\ pc # "derive" => job' = cp'.body
           /\ job' \in Reportable(job) \/ pc = "register"
<1> USE DEF Reportable
<1>1. ~OfNamespace
  BY Subjects
<1>2. /\ \A r : [cp EXCEPT !.ready = r].ready = r
      /\ [cp EXCEPT !.blocked = TRUE].ready = cp.ready
  BY DEF SubjectOK, WellFormed, CRof
<1>3. CASE J!Common /\ pc # "cluster" /\ UNCHANGED job
  BY <1>3
  DEF J!Common, J!CommonSteps, J!Start, J!AddFinalizer, J!ResolveCluster,
      J!SetOwner, J!UpdateStatus, J!DropFinalizer, J!Conflict, J!EndPass,
      J!Goto, Proceeds, Order
<1>4. CASE J!Common /\ pc = "cluster" /\ UNCHANGED job
  BY <1>2, <1>4
  DEF J!Common, J!CommonSteps, J!Start, J!AddFinalizer, J!ResolveCluster,
      J!SetOwner, J!UpdateStatus, J!DropFinalizer, J!Report
<1>5. CASE J!DecodeFails \/ J!PlanJob \/ J!RegisterJob \/ J!DeriveStatus
  BY <1>2, <1>5
  DEF J!DecodeFails, J!PlanJob, J!RegisterJob, J!DeriveStatus, J!Report,
      J!Goto, J!EndPass
<1>6. CASE \/ J!NoAnswer \/ (J!PassAborted /\ UNCHANGED job)
           \/ (\E a : J!DeregisterJob(a)) \/ J!DeregisteredUnanswered
  BY <1>2, <1>6
  DEF J!NoAnswer, J!PassAborted, J!DeregisterJob, J!DeregisteredUnanswered,
      J!Report, J!Goto, J!EndPass
<1>7. CASE Users \/ CollectGarbage
  <2>1. UNCHANGED <<pc, job>>
    BY <1>7
    DEF Users, CollectGarbage, Others, nomad, N!Users, J!Users, N!DeleteCR,
        J!DeleteCR, N!CreateCR, J!CreateCR, N!EditCR, J!EditCR,
        N!CollectGarbage, J!CollectGarbage, N!OtherWrites, J!OtherWrites
  <2>2. QED BY <2>1 DEF Proceeds, Order
<1>8. CASE SyncCR \/ Peer \/ EditNomad
  <2>1. UNCHANGED <<pc, cp>> /\ job' \in {job, Foreign, NoJob}
    BY <1>1, <1>8
    DEF SyncCR, Others, nomad, N!SyncCR, J!SyncCR, N!passVars, J!passVars,
        Peer, EditNomad, NomadStep, passVars
  <2>2. QED BY <2>1
<1>9. CASE \/ ClusterReady \/ DeleteCluster \/ ForegroundDone \/ SyncCluster
           \/ UNCHANGED vars
  <2>1. UNCHANGED <<pc, cp, job>>
    BY <1>9
    DEF ClusterReady, DeleteCluster, ForegroundDone, ClusterStep, SyncCluster,
        passVars, nomad, vars
  <2>2. QED BY <2>1
<1>10. CASE Pass \/ Fault
  <2>1. \/ J!Common
        \/ J!DecodeFails \/ J!PlanJob \/ J!RegisterJob \/ J!DeriveStatus
        \/ J!NoAnswer \/ (J!PassAborted /\ UNCHANGED job)
        \/ (\E a : J!DeregisterJob(a)) \/ J!DeregisteredUnanswered
    BY <1>1, <1>10 DEF Pass, Fault, J!Pass, J!Fault
  <2>2. J!Common => UNCHANGED job
    BY DEF J!Common
  <2>3. QED BY <1>3, <1>4, <1>5, <1>6, <2>1, <2>2
<1>11. QED
  BY <1>7, <1>8, <1>9, <1>10 DEF Next, Background

LEMMA ReportInvHolds == Spec => []ReportInv
<1>1. Init => ReportInv
  BY DEF Init, N!Init, N!InitCR, J!Init, J!InitCR, ReportInv
<1>2. SubjectOK /\ HoldInv /\ ReportInv /\ [Next]_vars => ReportInv'
  <2> SUFFICES ASSUME SubjectOK, HoldInv, ReportInv, [Next]_vars
               PROVE  ReportInv'
    OBVIOUS
  <2>1. Kinds /\ OfJob' = OfJob
    BY StepKinds, SubjectStays DEF SubjectOK, WellFormed, Typed
  <2>2. /\ [cp EXCEPT !.fin = TRUE].ready = cp.ready
        /\ [cp EXCEPT !.fin = TRUE].body = cp.body
    BY DEF SubjectOK, WellFormed, CRof
  <2>3. cpFresh' /\ pc' # "status" => cp'.ready = cr'.ready
    BY <2>1, <2>2
    DEF Kinds, Begins, Proceeds, Ends, Holds, Records, Frees, Outside, Syncs,
        CRStays, PassStays, Stored, AtRest, Order, HoldInv, CopiesInv, ReportInv
  <2>4. ASSUME OfJob, pc' = "derive"
        PROVE  job' \in Reportable(cp'.body)
    <3>1. CASE pc # "derive"
      BY <2>4, <3>1, JobSteps DEF Reportable
    <3>2. CASE pc = "derive"
      <4>1. cp'.body = cp.body
        BY <2>1, <2>4, <3>2
        DEF Kinds, Begins, Proceeds, Ends, Holds, Records, Frees, Outside,
            Syncs, PassStays, AtRest, Order, Same
      <4>2. QED
        BY <2>4, <3>2, <4>1, JobSteps DEF ReportInv, Reportable
    <3>3. QED BY <3>1, <3>2
  <2>5. ASSUME OfJob, cpFresh', pc' = "status", cp'.ready = "Registered",
               cr'.ready # "Registered"
        PROVE  job' \in Reportable(cp'.body)
    <3>1. ~Begins
      BY <2>5 DEF Begins, CRStays, HoldInv, CopiesInv
    <3>2. CASE Proceeds /\ pc = "derive"
      BY <2>5, <3>2, JobSteps DEF Proceeds, Same, ReportInv, Reportable
    <3>3. ~(Proceeds /\ pc # "derive")
      <4>1. ~(Proceeds /\ pc = "status")
        BY DEF Proceeds, Order
      <4>2. QED
        BY <2>5, <4>1, JobSteps DEF Proceeds, CRStays, ReportInv
    <3>4. CASE pc = "status" /\ UNCHANGED <<cr, pc, cp, cpFresh>>
      BY <2>5, <3>4, JobSteps DEF ReportInv, Reportable
    <3>5. QED
      BY <2>1, <2>5, <3>1, <3>2, <3>3, <3>4
      DEF Kinds, Ends, Holds, Records, Frees, Outside, Syncs, CRStays,
          PassStays, AtRest
  <2>6. QED BY <2>1, <2>3, <2>4, <2>5 DEF ReportInv
<1>3. QED BY <1>1, <1>2, SubjectOKHolds, HoldInvHolds, PTL DEF Spec

\* Ready=True is stored for the spec that was registered, and for no later
\* one (ObservedGeneration), whatever was edited during the pass.
THEOREM ReportIsOfThisSpec == Spec => ReportMatchesSpec
<1>1. SubjectOK /\ HoldInv /\ ReportInv /\ [Next]_vars
        => [OfJob /\ cr.ready # "Registered" /\ cr'.ready = "Registered"
              => job \in {cr.body, Foreign, NoJob}]_vars
  <2> SUFFICES ASSUME SubjectOK, HoldInv, ReportInv, [Next]_vars,
                      OfJob, cr.ready # "Registered", cr'.ready = "Registered"
               PROVE  job \in {cr.body, Foreign, NoJob}
    OBVIOUS
  <2>1. Kinds
    BY StepKinds DEF SubjectOK, WellFormed, Typed
  <2>2. /\ [cp EXCEPT !.fin = TRUE].ready = cp.ready
        /\ [cr EXCEPT !.going = TRUE].ready = cr.ready
    BY DEF SubjectOK, WellFormed, CRof
  <2>3. Records /\ pc = "status"
    BY <2>1, <2>2
    DEF Kinds, Begins, Proceeds, Ends, Holds, Records, Frees, Outside, Syncs,
        CRStays, Stored, NoneLeft, ReportInv
  <2>4. QED
    BY <2>3
    DEF Records, Stored, ReportInv, Reportable, HoldInv, CopiesInv, Same
<1>2. QED
  BY <1>1, SubjectOKHolds, HoldInvHolds, ReportInvHolds, PTL
  DEF Spec, ReportMatchesSpec

\* desiredNamespace's promise to preserve the unmanaged fields: quota and
\* capabilities are only lost if they are written between Get and Upsert.
THEOREM UnmanagedIsKept == Spec => UnmanagedKept
<1>1. ASSUME OfNamespace, Pass, space # NoSpace, space' # NoSpace
      PROVE  space'.extra = space.extra \/ (pc = "upsert" /\ got # space)
  <2>1. N!Pass
    BY <1>1, Subjects DEF Pass
  <2>2. \/ space' = space
        \/ pc = "upsert" /\ space' = N!DesiredNamespace(got)
    BY <1>1, <2>1
    DEF N!Pass, N!Common, N!GetNamespace, N!UpsertNamespace, N!NoAnswer,
        N!DeleteNamespace
  <2>3. QED BY <1>1, <2>2 DEF N!DesiredNamespace
<1>2. [Next]_vars
        => [OfNamespace /\ Pass /\ space # NoSpace /\ space' # NoSpace
              => space'.extra = space.extra \/ (pc = "upsert" /\ got # space)]_vars
  BY <1>1
<1>3. QED BY <1>2, PTL DEF Spec, UnmanagedKept
=============================================================================
