----------------------------- MODULE NomadNode -----------------------------
(***************************************************************************)
(* The NomadNode reflector and drain driver: one Nomad client node, the    *)
(* NomadNode custom resource (CR) that reflects it, and the pass of        *)
(* internal/controller/nomadnode_controller.go as it bears on the two.     *)
(*                                                                         *)
(* A pass lists Nomad's nodes once and then works from that list (stub)    *)
(* and from the CR as the informer cache has it (nn), while users edit the *)
(* CR, operators of Nomad drain and cordon the node behind its back, the   *)
(* drain completes, calls fail and the operator crashes.                   *)
(***************************************************************************)
EXTENDS Naturals

CONSTANTS
    Param,      \* drain parameters: deadline and ignoreSystemJobs
    Default,    \* the parameters of an empty spec.drain
    NoDrain     \* no drain

ASSUME ConstAssumption == Default \in Param /\ NoDrain \notin Param

VARIABLES
    node,       \* the node in Nomad
    ours,       \* is the drain in flight one that the operator issued?
    cr,         \* the CR in the API server
    crSeen,     \* the CR in the informer cache
    seenFresh,  \* is that the stored resourceVersion?
    pc,         \* the pass's next call
    stub,       \* the node as the pass has listed it
    nn,         \* the pass's copy of the CR
    nnFresh,    \* is that copy's resourceVersion the stored one?
    past        \* history: what has happened to the node's eligibility

nodeVars  == <<node, ours>>
cacheVars == <<crSeen, seenFresh>>
passVars  == <<pc, stub, nn, nnFresh>>
vars == <<nodeVars, cr, cacheVars, passVars, past>>

-----------------------------------------------------------------------------
Drain == Param \cup {NoDrain}

\* drain: the drain in flight; complete: LastDrain.Status, when none is.
Node == [there : BOOLEAN, drain : Drain, eligible : BOOLEAN, complete : BOOLEAN]

NewNode == [there |-> TRUE, drain |-> NoDrain, eligible |-> TRUE,
            complete |-> FALSE]
NoNode  == [NewNode EXCEPT !.there = FALSE]

\* handled: status.drainObservedGeneration is the current generation;
\* pending and reflected: the conditions DrainSpecPendingRestart and Reconciled
\* (False while the cluster is not Ready, and for an ambiguous name).
CR == [there : BOOLEAN, eligible : BOOLEAN, drain : Drain, handled : BOOLEAN,
       pending : {"Unknown", "True", "False"},
       reflected : {"Unknown", "True", "False"}]

NewCR(eligible, drain) ==
    [there |-> TRUE, eligible |-> eligible, drain |-> drain, handled |-> FALSE,
     pending |-> "Unknown", reflected |-> "Unknown"]

\* clean: nobody has drained or cordoned the node, and its name was never
\* ambiguous; twinned: it was, for a while; disturbed: somebody has.
Past == {"clean", "twinned", "disturbed"}

NoCR == [NewCR(TRUE, NoDrain) EXCEPT !.there = FALSE]

Step == {"idle", "bind", "mint", "drive", "persist", "mirror",
         "duplicates", "mintMinimal", "status", "prune"}

TypeOK ==
    /\ node \in Node /\ stub \in Node
    /\ cr \in CR /\ crSeen \in CR /\ nn \in CR
    /\ seenFresh \in BOOLEAN /\ nnFresh \in BOOLEAN
    /\ ours \in BOOLEAN /\ past \in Past
    /\ pc \in Step
    /\ node.drain # NoDrain => ~node.eligible /\ ~node.complete

Init ==
    /\ node \in {NoNode, NewNode} /\ ours = FALSE
    /\ cr = NoCR /\ crSeen = NoCR /\ seenFresh = TRUE
    /\ pc = "idle" /\ stub = NoNode /\ nn = NoCR /\ nnFresh = FALSE
    /\ past = "clean"

-----------------------------------------------------------------------------
(* Nomad, as the operator calls it.                                        *)

Drained(n, d) ==
    [n EXCEPT !.drain = d, !.eligible = FALSE, !.complete = FALSE]

\* A cancelled drain leaves the node ineligible unless told otherwise.
Undrained(n, markEligible) ==
    [n EXCEPT !.drain = NoDrain, !.eligible = @ \/ markEligible]

-----------------------------------------------------------------------------
(* The pass.                                                               *)

EndPass == pc' = "idle" /\ stub' = NoNode /\ nn' = NoCR /\ nnFresh' = FALSE

\* What was listed is forgotten once it has been driven.
Copy(p, n, f) ==
    /\ pc' = p /\ nn' = n /\ nnFresh' = f
    /\ stub' = IF p \in {"mint", "drive"} THEN stub ELSE NoNode

Goto(p) == Copy(p, nn, nnFresh)

\* ListNodes: the name is bound to its node, is ambiguous (twin), or is
\* absent; others: the list is not empty without it.  The empty list prunes
\* nothing.
ListNodes(twin, others) ==
    /\ pc = "idle"
    /\ stub' = node
    /\ pc' = IF node.there THEN IF twin THEN "duplicates" ELSE "bind"
             ELSE IF others THEN "prune" ELSE "idle"
    /\ past' = IF twin /\ past = "clean" THEN "twinned" ELSE past
    /\ UNCHANGED <<nodeVars, cr, cacheVars, nn, nnFresh>>

\* The cluster is not Ready or does not answer: flag the CR.
MarkClusterNotReady ==
    /\ pc = "idle" /\ crSeen.there
    /\ Copy("status", [crSeen EXCEPT !.reflected = "False"], seenFresh)
    /\ UNCHANGED <<nodeVars, cr, cacheVars, past>>

\* Mutant: the eligibility is not seeded from what was listed.
UpsertNodeUnseeded ==
    /\ pc = "bind"
    /\ \/ crSeen.there /\ Copy("drive", crSeen, seenFresh)
       \/ ~crSeen.there /\ Copy("mint", NewCR(FALSE, NoDrain), FALSE)
    /\ UNCHANGED <<nodeVars, cr, cacheVars, past>>

\* upsertNode reads the CR; a missing one is minted from what was listed.
\* seedDrain asks Nomad for the parameters and may get no answer.
UpsertNode ==
    /\ pc = "bind"
    /\ \/ crSeen.there /\ Copy("drive", crSeen, seenFresh)
       \/ /\ ~crSeen.there /\ stub.drain = NoDrain
          /\ Copy("mint", NewCR(stub.eligible, NoDrain), FALSE)
       \/ /\ ~crSeen.there /\ stub.drain # NoDrain
          /\ \E d \in {node.drain, Default} \ {NoDrain} :
               Copy("mint", NewCR(stub.eligible, d), FALSE)
    /\ UNCHANGED <<nodeVars, cr, cacheVars, past>>

\* Create; when it finds the CR there, the cache is asked once more.
Create(next) ==
    \/ /\ ~cr.there
       /\ cr' = nn /\ seenFresh' = FALSE
       /\ Copy(next, nn, TRUE)
    \/ /\ cr.there /\ crSeen.there
       /\ Copy(next, crSeen, seenFresh) /\ UNCHANGED <<cr, seenFresh>>
    \/ /\ cr.there /\ ~crSeen.there
       /\ EndPass /\ UNCHANGED <<cr, seenFresh>>

Mint ==
    /\ pc = "mint"
    /\ Create("drive")
    /\ UNCHANGED <<nodeVars, crSeen, past>>

\* Mutant: a completed drain does not count.
DrainHandledWhileRunning == nn.handled /\ stub.drain # NoDrain

DrainHandledThisGeneration ==
    /\ nn.handled
    /\ stub.drain # NoDrain \/ (~stub.eligible /\ stub.complete)

\* A drain found running is adopted, not issued again; what it runs with may
\* not be readable.
AdoptDrain ==
    /\ pc = "drive" /\ nn.drain # NoDrain
    /\ ~DrainHandledThisGeneration /\ stub.drain # NoDrain
    /\ \E live \in {node.drain, NoDrain} :
         Copy("persist",
              [nn EXCEPT !.handled = TRUE,
                         !.pending = IF live \in {NoDrain, nn.drain}
                                       THEN "False" ELSE "True"], nnFresh)
    /\ UNCHANGED <<nodeVars, cr, cacheVars, past>>

\* Mutant: a drain found running is issued all the same.
IssueDrainAnyway ==
    /\ pc = "drive" /\ nn.drain # NoDrain
    /\ ~DrainHandledThisGeneration
    /\ node.there
    /\ node' = Drained(node, nn.drain) /\ ours' = TRUE
    /\ Copy("persist", [nn EXCEPT !.handled = TRUE], nnFresh)
    /\ UNCHANGED <<cr, cacheVars, past>>

IssueDrain ==
    /\ pc = "drive" /\ nn.drain # NoDrain
    /\ ~DrainHandledThisGeneration /\ stub.drain = NoDrain
    /\ node.there
    /\ node' = Drained(node, nn.drain) /\ ours' = TRUE
    /\ Copy("persist", [nn EXCEPT !.handled = TRUE], nnFresh)
    /\ UNCHANGED <<cr, cacheVars, past>>

\* Mutant: a drain is cancelled by setting the eligibility.
CancelDrainByToggle ==
    /\ pc = "drive" /\ nn.drain = NoDrain /\ stub.drain # NoDrain
    /\ node.there
    /\ node' = [node EXCEPT !.eligible = nn.eligible]
    /\ Goto("mirror")
    /\ UNCHANGED <<ours, cr, cacheVars, past>>

CancelDrain ==
    /\ pc = "drive" /\ nn.drain = NoDrain /\ stub.drain # NoDrain
    /\ node.there
    /\ node' = Undrained(node, nn.eligible)
    /\ Goto("mirror")
    /\ UNCHANGED <<ours, cr, cacheVars, past>>

\* Nomad refuses to make a draining node eligible.
SetEligibility ==
    /\ pc = "drive" /\ nn.drain = NoDrain /\ stub.drain = NoDrain
    /\ stub.eligible # nn.eligible
    /\ node.there
    /\ \/ /\ ~nn.eligible \/ node.drain = NoDrain
          /\ node' = [node EXCEPT !.eligible = nn.eligible]
          /\ Goto("mirror")
       \/ nn.eligible /\ node.drain # NoDrain /\ EndPass /\ UNCHANGED node
    /\ UNCHANGED <<ours, cr, cacheVars, past>>

NothingToDrive ==
    /\ pc = "drive"
    /\ \/ nn.drain # NoDrain /\ DrainHandledThisGeneration
       \/ /\ nn.drain = NoDrain /\ stub.drain = NoDrain
          /\ stub.eligible = nn.eligible
    /\ Goto("mirror")
    /\ UNCHANGED <<nodeVars, cr, cacheVars, past>>

\* Nomad does not know the node any more: the call fails.
NodeGone ==
    /\ pc = "drive" /\ ~node.there
    /\ EndPass
    /\ UNCHANGED <<nodeVars, cr, cacheVars, past>>

\* Status().Update, accepted at the stored resourceVersion only.
UpdateStatus(p, n) ==
    \/ /\ nnFresh
       /\ cr' = n /\ seenFresh' = (seenFresh /\ n = cr)
       /\ IF p = "idle" THEN EndPass ELSE Copy(p, n, TRUE)
    \/ ~nnFresh /\ EndPass /\ UNCHANGED <<cr, seenFresh>>

\* The generation is persisted before anything else can fail.
PersistGeneration ==
    /\ pc = "persist"
    /\ UpdateStatus("mirror", nn)
    /\ UNCHANGED <<nodeVars, crSeen, past>>

MirrorStatus ==
    /\ pc = "mirror"
    /\ UpdateStatus("idle", [nn EXCEPT !.reflected = "True"])
    /\ UNCHANGED <<nodeVars, crSeen, past>>

\* An ambiguous name is bound to no node, but has a CR that says so.
MarkDuplicates ==
    /\ pc = "duplicates"
    /\ \/ /\ crSeen.there
          /\ Copy("status", [crSeen EXCEPT !.reflected = "False"], seenFresh)
       \/ ~crSeen.there /\ Copy("mintMinimal", NewCR(FALSE, NoDrain), FALSE)
    /\ UNCHANGED <<nodeVars, cr, cacheVars, past>>

MintMinimal ==
    /\ pc = "mintMinimal"
    /\ \/ /\ ~cr.there
          /\ cr' = nn /\ seenFresh' = FALSE
          /\ Copy("status", [nn EXCEPT !.reflected = "False"], TRUE)
       \/ /\ cr.there /\ crSeen.there
          /\ Copy("status", [crSeen EXCEPT !.reflected = "False"], seenFresh)
          /\ UNCHANGED <<cr, seenFresh>>
       \/ /\ cr.there /\ ~crSeen.there
          /\ EndPass /\ UNCHANGED <<cr, seenFresh>>
    /\ UNCHANGED <<nodeVars, crSeen, past>>

FlagStatus ==
    /\ pc = "status"
    /\ UpdateStatus("idle", nn)
    /\ UNCHANGED <<nodeVars, crSeen, past>>

\* A write of somebody else moves the resourceVersion.
OtherWrites(n) == cr' = n /\ seenFresh' = FALSE /\ nnFresh' = FALSE

\* Mutant: only a CR that was bound before is pruned.
PruneReconciled ==
    /\ pc = "prune"
    /\ IF crSeen.there /\ crSeen.reflected = "True"
         THEN cr' = NoCR /\ seenFresh' = (seenFresh /\ ~cr.there)
         ELSE UNCHANGED <<cr, seenFresh>>
    /\ EndPass
    /\ UNCHANGED <<nodeVars, crSeen, past>>

\* pruneAbsent: Nomad has forgotten the node.
PruneAbsent ==
    /\ pc = "prune"
    /\ IF crSeen.there
         THEN cr' = NoCR /\ seenFresh' = (seenFresh /\ ~cr.there)
         ELSE UNCHANGED <<cr, seenFresh>>
    /\ EndPass
    /\ UNCHANGED <<nodeVars, crSeen, past>>

Steps ==
    \/ UpsertNode \/ Mint \/ AdoptDrain \/ IssueDrain \/ CancelDrain
    \/ SetEligibility \/ NothingToDrive \/ NodeGone \/ PersistGeneration
    \/ MirrorStatus \/ MarkDuplicates \/ MintMinimal \/ FlagStatus
    \/ PruneAbsent

\* The pass when nodes are listed and their names are unambiguous.
Pass == Steps \/ ListNodes(FALSE, TRUE)

PassAborted ==
    /\ pc # "idle"
    /\ EndPass
    /\ UNCHANGED <<nodeVars, cr, cacheVars, past>>

Fault ==
    \/ PassAborted \/ MarkClusterNotReady
    \/ ListNodes(FALSE, FALSE) \/ ListNodes(TRUE, TRUE)

-----------------------------------------------------------------------------
(* The cache catches up; users edit and delete the CR.  An edit starts a   *)
(* new generation.                                                         *)

SyncCR ==
    /\ ~seenFresh
    /\ crSeen' = cr /\ seenFresh' = TRUE
    /\ UNCHANGED <<nodeVars, cr, passVars, past>>

EditSpec(eligible, drain) ==
    /\ cr.there /\ (eligible # cr.eligible \/ drain # cr.drain)
    /\ OtherWrites([cr EXCEPT !.eligible = eligible, !.drain = drain,
                              !.handled = FALSE])
    /\ past' = IF eligible /\ drain = NoDrain THEN past ELSE "disturbed"
    /\ UNCHANGED <<nodeVars, crSeen, pc, stub, nn>>

DeleteCR ==
    /\ cr.there
    /\ OtherWrites(NoCR)
    /\ UNCHANGED <<nodeVars, crSeen, pc, stub, nn, past>>

(* Nomad: drains complete, nodes come and go, and its operators drain,     *)
(* undrain and cordon on their own.                                        *)

DrainCompletes ==
    /\ node.drain # NoDrain
    /\ node' = [node EXCEPT !.drain = NoDrain, !.complete = TRUE]
    /\ UNCHANGED <<ours, cr, cacheVars, passVars, past>>

RegisterNode ==
    /\ ~node.there
    /\ node' = NewNode
    /\ UNCHANGED <<ours, cr, cacheVars, passVars, past>>

ForgetNode ==
    /\ node.there
    /\ node' = NoNode
    /\ UNCHANGED <<ours, cr, cacheVars, passVars, past>>

DrainedOutside(d) ==
    /\ node.there
    /\ node' = Drained(node, d) /\ ours' = FALSE /\ past' = "disturbed"
    /\ UNCHANGED <<cr, cacheVars, passVars>>

UndrainedOutside(markEligible) ==
    /\ node.drain # NoDrain
    /\ node' = Undrained(node, markEligible)
    /\ UNCHANGED <<ours, cr, cacheVars, passVars, past>>

CordonedOutside(eligible) ==
    /\ node.there /\ node.drain = NoDrain /\ node.eligible # eligible
    /\ node' = [node EXCEPT !.eligible = eligible] /\ past' = "disturbed"
    /\ UNCHANGED <<ours, cr, cacheVars, passVars>>

Environment ==
    \/ DeleteCR \/ RegisterNode \/ ForgetNode
    \/ \E b \in BOOLEAN, d \in Drain : EditSpec(b, d)
    \/ \E d \in Param : DrainedOutside(d)
    \/ \E b \in BOOLEAN : UndrainedOutside(b) \/ CordonedOutside(b)

Next == Pass \/ Fault \/ SyncCR \/ DrainCompletes \/ Environment

Spec == Init /\ [][Next]_vars

\* The work queue resyncs the cluster every 30 s and on every event; the
\* watch stream is live.  Drains need not complete.
FairSpec == Spec /\ WF_vars(Pass) /\ WF_vars(SyncCR)

-----------------------------------------------------------------------------
(* Properties.                                                             *)

\* The operator does not restart a drain that it issued and that still runs,
\* whatever crashed or conflicted after the call: a restarted deadline would
\* slide for ever (drainHandledThisGeneration, and adoption in driveDesired).
RunningDrainKept ==
    [][IssueDrain => ~(ours /\ node.drain # NoDrain)]_vars

\* A node that nobody, by its CR or in Nomad, has ever drained or cordoned, and
\* whose name was never ambiguous, takes work: no pass, however stale what it
\* listed and read, makes it ineligible ("seed from observed" in upsertNode, and
\* the comparison before SetEligibility in driveDesired).
SeededAsObserved == past = "clean" /\ node.there => node.eligible

\* The same of every node that nobody has drained or cordoned: "spec seeded
\* ONCE at create" (nomadnode_controller.go:151-153), and spec.eligible
\* "Defaults true" (nomadnode_types.go:73-78).
NobodyCordons == past # "disturbed" /\ node.there => node.eligible

Quiet == Pass \/ SyncCR \/ DrainCompletes

\* Spec wins: once users, Nomad's operators and faults are quiet, the node is
\* as its CR wants it -- a drain wanted is running or has completed, an unwanted
\* one is cancelled, the eligibility is the CR's --, the CR says Reconciled, and
\* no drain is issued any more: one that completes is not started over
\* (driveDesired, drainHandledThisGeneration).
SpecWins ==
    <>[][Quiet]_vars /\ <>[](node.there) =>
        /\ <>[](/\ cr.there /\ cr.reflected = "True"
                /\ IF cr.drain = NoDrain
                     THEN node.drain = NoDrain /\ node.eligible = cr.eligible
                     ELSE node.drain # NoDrain \/ (node.complete /\ ~node.eligible))
        /\ <>[][~IssueDrain]_vars

\* The CR of a node that Nomad has forgotten goes away, and stays away.
ForgottenIsPruned ==
    <>[][Quiet]_vars /\ <>[](~node.there) => <>[](~cr.there)

\* What nomadnode_types.go:26-30 says of DrainSpecPendingRestart: "It is False
\* once the desired spec again matches the in-flight drain".
PendingRestartClears ==
    \A d \in Param :
        <>[][Quiet]_vars /\ <>[](cr.drain = d /\ node.drain = d)
            => <>[](cr.pending # "True")
=============================================================================
