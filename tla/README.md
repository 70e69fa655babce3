# nomad-operator in TLA+

TLA+ models of the reconcilers of nomad-operator, the TLC runs that check them
on small instances, and TLAPS proofs about them for every instance.

## 1. The system

nomad-operator is one process with five controllers (`src/internal/controller`).
Each controller has one worker that takes keys from a queue and runs
`Reconcile`, a *pass*, over one object; the five run concurrently. A pass reads
Kubernetes objects from informer caches that lag behind the API server, and
writes to the API server and to Nomad. It keeps nothing in memory for the next
pass: whatever has to survive is in a status, a finalizer, an annotation or in
Nomad.

| component | state it keeps | operations | interacts with |
|---|---|---|---|
| **NomadCluster** (`nomadcluster_controller.go`, `security.go`, `resources_*.go`, `config_render.go`) | status (phase, address, conditions); gossip and token Secrets, retained when the CR goes; the objects it applies | gossip key, certificate gate, external access, drift Event, ConfigMap, Services, routes, StatefulSet, PDB, leader check, token, ACL bootstrap | cert-manager Secret, Gateway or load balancer, Nomad servers; its `status.phase` gates the other four |
| **NomadPool** (`nomadpool_controller.go`) | finalizer, ownerReference, Ready, DeleteBlocked; the pool in Nomad | adopt, detect duplicates, read-modify-write the pool, finalize | NomadCluster (phase, deletion), sibling CRs, Nomad node pools |
| **NomadNode** (`nomadnode_controller.go`) | mirrored status, handled drain generation, conditions; drain and eligibility in Nomad | list, bind, mint and seed, drive, mirror, mark duplicates, prune | NomadCluster (it is the primary object), Nomad clients, operators of Nomad |
| **NomadNamespace** (`nomadnamespace_controller.go`) | as NomadPool; the namespace in Nomad | as NomadPool, with a deletion that Nomad refuses while jobs are in it | NomadCluster, sibling CRs, Nomad namespaces and the jobs in them |
| **NomadJob** (`nomadjob_controller.go`) | finalizer, status; the job in Nomad | adopt, decode, plan, register, derive status, deregister | NomadCluster, Nomad jobs; the namespace, by name and in Nomad only |
| **Nomad API client** (`src/internal/nomad`) | none | one method per call, error classification | Nomad |
| **manager** (`src/cmd/main.go`), generated code, chart, manifests | none | start-up, deployment | |

What is hard here: the order of two writes matters (Secret before ACL bootstrap,
finalizer before registration, status before roll) and anything may happen
between them; a cached read may be older than the pass's own last write; a call
may take effect and its answer be lost; a CR may be deleted and recreated under
the same name while a pass still holds the old one; retained Secrets outlive the
Nomad they describe; users, the garbage collector, other clients of Nomad and
Nomad itself change the same state.

What makes each component correct:

- NomadCluster: the token Nomad honours is never lost; Ready means that the
  *current* Nomad has registered it; a running cluster is not demoted by a blip;
  servers are only rolled onto a published address, and not before an Event was
  emitted for it; the cluster converges and leaves nothing behind.
- NomadPool: no pool outlives the CR that will delete it; duplicates do not
  fight; deletion and cascades terminate; the pool converges to its CR.
- NomadNode: a running drain is not restarted; the CR wins in the end; no
  reconcile cordons a node nobody asked to cordon; forgotten nodes' CRs go.
  Nodes whose names collide leave each other alone, and one of them gets the CR.
- NomadNamespace and NomadJob: nothing in Nomad outlives the CR that will delete
  it; Ready is said of what was registered; whichever CR is there first, both
  converge, and both can be deleted in any order.

`PROJECT.json` lists every hazard at its line with the properties that cover it.

## 2. Modules

| module | models | state and actions |
|---|---|---|
| `NomadCluster` | one NomadCluster CR through several *lives* (UIDs), the whole pass, its Secrets, the objects it owns, Nomad's token | `pc` is the pass's next remote call, `nc`, `sec` its copies; one action per call of `Reconcile`; `finish` is `Leave` and `Finish` |
| `MCNomadCluster` | symmetry for the safety runs | |
| `NomadCluster_proofs`, `NomadCluster_address_proofs` | theorems about `NomadCluster`: types, token, gossip key, Ready; published address, phase, rolls | |
| `NomadPool` | CRs that name pools of one cluster, one worker, the pools in Nomad, the cluster as far as the pass reads it | `Start` dispatches; adoption, conflict check, read-modify-write and finalization are the following actions |
| `MCNomadPool` | all CRs naming one pool; symmetry | |
| `NomadPool_proofs` | theorems about `NomadPool` | |
| `NomadNode` | one client node, its CR, its drain, and the pass as it bears on them | `ListNodes` takes the snapshot (`stub`), the rest of the pass works from it |
| `NomadNodeNames` | the nodes whose names `sanitizeNodeName` maps to one object name, and the one CR they share | `nodes` is the order of CreateIndex, `twins` the ambiguous names; `ListNodes` is `bindNodes` and `resolveCollisionOwners`, `UpsertNode` to `MirrorStatus` are `upsertNode` for one name after another in any order, `MarkDuplicates` to `FlagDuplicate` are `markDuplicates` |
| `NomadNode_proofs`, `NomadNodeNames_proofs` | theorems about the two | |
| `ManagedObject` | the abstract promise of a CR and its object in Nomad | `phase` of the CR, `object`, `excused` (the cluster has been deleted) |
| `ManagedCR` | what the passes of NomadNamespace and NomadJob share: finalizer, cluster gate, ownerReference, status writes, finalizer drop, users, cache, garbage collector | as `NomadPool`, for one CR: `pc`, `cp`; `cluster`, `clusterSeen` |
| `NomadNamespace` | EXTENDS `ManagedCR`: conflict outcome, read-modify-write, deletion and refusal | `space`, `got`; `busy` is given from outside |
| `NomadJob` | EXTENDS `ManagedCR`: decode, plan, register, derive, deregister | `job`; `housed` is given from outside |
| `NomadTenancy` | composes the two in one Nomad with one cluster | instances `N` and `J`; `busy` is "there is a job", `housed` is "there is the namespace" |
| `NomadTenancy_proofs` | theorems about `NomadTenancy` | |

Conventions shared by the modules:

- **A pass is not atomic.** There is one action per remote call; cache reads and
  local decisions belong to the action of the call before or after them.
  `PassAborted` ends a pass between any two calls: a failed Kubernetes call, a
  crash of the operator, or a call that took effect with its answer lost (the
  call's action followed by `PassAborted`). Where the code handles an error
  other than by returning it (Nomad calls, the token Secret), that outcome is an
  action or a disjunct of its own.
- **Optimistic concurrency.** Instead of resource versions, the models keep
  whether a copy still is the stored version (`ncFresh`, `npFresh`, `nnFresh`,
  and for the cache `seenFresh`, `fresh`). Any write of anybody else makes copies
  stale; `Update` and `Status().Update` succeed on fresh copies only and are
  conflicts otherwise; a write that changes nothing leaves the version alone.
  Server-side apply (`Apply`) is not fenced.
- **Caches** (`crSeen`, `secretSeen`, `seen`, `clusterSeen`) catch up in actions
  of their own, as late as the scheduler likes. The token Secret may be seen as
  it was before its annotation.
- **Data** is reduced to what properties tell apart: an address, a token, a key,
  a pool's managed and unmanaged content, the parameters of a drain are model
  values. Messages, events other than the drift Event, and manifests' contents
  are left out. Of the conditions only those that a guard or a property reads are
  kept; in `NomadCluster` the `Ready` condition is assigned with the phase, in
  `NomadNode` `reflected` is the status of `Reconciled`.
- **The drift Event.** `emitted` is a history variable: the addresses for which
  `checkAddressDrift` has handed an Event to the recorder since the last roll.
  `Recorder.Eventf` only queues in memory; what becomes of the Event there is not
  modelled, and no property says that it is stored (section 4).
- **Servers gone.** A pass of an earlier life goes on while the garbage collector
  removes the servers under it. `CheckLeader` and `BootstrapACL` then fail as the
  client's calls do, and the pass ends with the status the code writes for that.
  (`Converges` with two lives showed that the model needs this: without it such a
  pass never ended.)
- **Nomad** answers 404 to the Delete of a pool or a namespace that is not there:
  `errors.go:43-49` accepts nothing else as absence. The repository's integration
  test shows it for jobs only; for pools and namespaces it is assumed, and
  `DeletionCompletes` rests on it after a Delete whose answer was lost.
- **Composition.** In `NomadTenancy` the two CRs would multiply each other's
  states, while they share nothing but Nomad. So one of them, the `subject`, is
  modelled call by call, and its `Peer` may do to its own object whatever Nomad
  allows at any moment: register or purge the job if the namespace is there, create
  or delete the namespace if no job is in it. That is more than the peer's
  reconciler does, hence what is shown of the subject holds beside the real peer.
  The subject is chosen at Init, so both get their turn. The two results chain:
  as the job, deletion completes whatever the namespace does; as the namespace, it
  completes once the job stays away; so deleting both completes.
- **Refinement.** `PoolIsManaged` (in `NomadPool`) and `SubjectIsManaged` (in
  `NomadTenancy`) say that a pool, a namespace and a job with their CRs implement
  `ManagedObject` under the mapping given there: the object is registered only
  under a CR that holds the finalizer, and the CR is released only without the
  object, unless the cluster has been deleted. In `NomadPool` the excuse lasts from
  the first deletion of a cluster on: a pass that was under way across deletion,
  wipe and re-creation may register the pool in the new Nomad after its CR has been
  released on account of the old one.
- `NomadNode` forgets what was listed once it has been driven; mirroring it into
  the status writes fields that nothing reads.

Mutants (operators commented "Mutant:") are the bugs that each property is
checked to catch; `PROJECT.json` pairs them.

## 3. Runs

Two workers; every run ends within about three minutes.

| run | instance | shows |
|---|---|---|
| `cluster_single` | 1 server, Managed Gateway, 2 addresses, 2 tokens, 2 keys, 1 life | `RegisteredTokenIsStored`, `ReadyMeansRegistered`, `ProvisionedKeepsAccess`, `DriftIsEmitted`, `NeverDemoted`, `GossipKeyKept`, `RollIsPublished`, types |
| `cluster_recreate` | 3 servers, Existing Gateway, 2 lives, data possibly wiped between lives | `ReadyMeansRegistered`, `RollIsPublished`, `Converges` across delete, wipe and recreate, under `AnsweredSpec` |
| `cluster_live` | 1 server, LoadBalancer, in-place wipes of the servers' data | `Converges`, `LeaderLossIsReported`, `LeavesNothingBehind` under `FairSpec` |
| `pool_safe` | 2 CRs for 1 pool, the pool edited and deleted by others | `NoOrphan`, `AtMostOneRegistered`, types |
| `pool_live` | 1 CR with 2 bodies, 2 lives of the cluster | `PoolIsManaged`, `Converges`, `DeletionCompletes`, `CascadeCompletes` |
| `node_drive` | 1 node, drain wanted or not, everyone interfering | `SeededAsObserved`, `RunningDrainKept`, `SpecWins`, `ForgottenIsPruned`, types |
| `tenancy` | a namespace and a job, each as the subject: unmanaged content, a valid and an invalid job spec, edits behind the operator's back, 1 life of the cluster | `SubjectIsManaged`, `ReportMatchesSpec`, `UnmanagedKept`, `NamespaceConverges`, `JobConverges`, `RefusalIsReported`, `DeletionCompletes`, `CascadeCompletes`, types |
| `node_names` | 3 colliding names, 3 registrations, departures, clashes, edits or deletions | `LoserLeftAlone`, `OwnerKeepsCR`, `OwnerSettles`, `AmbiguityIsShown`, types |
| `cluster_lost`, `pool_duplicate`, `node_twins`, `node_pending` | | violated: the findings of section 4 |

**Bounds.** `MaxLives` and `MaxClusters` bound creations, in the guards of
`CreateCR` and `CreateCluster`; `MaxUpsets` bounds what nodes and users do in
`NomadNodeNames` (in `Upset`); nothing else is counted. In `NomadTenancy` CRs come
and go without bound and the cluster has one life. Two lives let every
object, Secret, cached copy and pass of an earlier life meet the later one; the
code does not distinguish a third. `pool_safe` has one cluster, for time: the
same run with two (9.6 million states, five minutes) finds no error either, and
`NoOrphan` is proved for any number (section 5). Two addresses make a drift, two tokens a
token that Nomad does not know, two CRs a conflict. One worker per controller is
what `main.go` configures. Faults, cache lag and,
outside `NomadNodeNames`, edits and drifts are not bounded. Three colliding names
are needed for a CR whose node has gone while two others compete for it; three
upsets let its owner leave, a successor be ambiguous and the owner return.
NomadTenancy has one namespace body besides a foreign one, two unmanaged contents,
one valid and one invalid job: each tells apart what a guard compares.

**Deadlock** is not checked where the system may really stop: with no CR left to
create and every cache in step, `NomadCluster`, `NomadPool` and `NomadTenancy` may
rest, and `NomadNodeNames` is bounded in its environment. `NomadNode` always lists
again, and its run checks for deadlock.

**Fairness.** A pass always ends in a requeue, a backoff or a timed resync (15 to
60 s), and the work queue never drops a key, so the pass's steps get weak
fairness. Two or more NomadPool CRs share a worker, which serves keys first in,
first out: strong fairness of each CR's `Pass(c)`. Watch streams reconnect and
relist, so each `Sync...` is weakly fair, and so is the garbage collector. No
fairness is assumed of users, of Nomad, of drains completing, or of faults ending:
the liveness properties say what follows *if* the environment and the faults are
quiet from some point on (`PassSeeing`, `Quiet`, `Calm`), starting from whatever state
they have left. `cluster_live` starts `Converges` from what faults, edits and
in-place wipes leave in one life. With two lives that is too large for TLC, so
`cluster_recreate` uses `AnsweredSpec`: calls of the pass still find no leader, no
certificate or no address, conflict, and get no answer from servers that are gone,
but no other call fails, the operator does not crash and nobody edits. What is left
is what an earlier life leaves behind: passes that hold a deleted CR and its stale
copies, objects to take over, retained Secrets, a fresh Nomad. Both have one address
that comes and goes; a drift between two is in `cluster_single` and the theorems.
The safety properties hold across lives with all faults, too: that is proved. In `NomadTenancy` the peer need not be quiet: the subject converges while
its peer goes on, and only what Nomad's rules make necessary (a namespace for the job,
no job for a deletion of the namespace) is assumed to last.

## 4. Findings

Each is a run in which TLC exhibits the behaviour; `PROJECT.json` quotes the lines.

1. `cluster_lost`: after the token Secret is lost, the next pass mints another
   token, takes "already bootstrapped" for "bootstrapped with this token"
   (`security.go:155`), annotates it and reports Ready.
2. `pool_duplicate`: the runbook advises to delete one of two conflicting
   NomadPools; the finalizer of the deleted one removes the pool the other names.
3. `node_twins`: the CR minted for an ambiguous node name has `eligible: false`;
   once the name is unambiguous it is bound and the node is cordoned.
4. `node_pending`: `DrainSpecPendingRestart` stays True after the edited drain has
   been issued and matches.

Further disagreements, met while modelling and stated here only:

- The comment at `nomadcluster_controller.go:330` and the runbook
  (`docs/runbooks/nomadcluster.md:510`) call the Event of an address drift "the durable
  record". `Recorder.Eventf` queues it in memory, and the address is persisted at
  line 148 without waiting for it. If the operator crashes after that, or the Event
  is dropped or not accepted, no later pass sees a drift, and a Ready single-server
  cluster is rolled with no record left. `DriftIsEmitted` says no more than that the
  Event was emitted.
- The owner's re-Get after a lost Create (`nomadnode_controller.go:221`) does not
  check whose CR it got. With colliding names it may be the CR of another node, or
  the minimal one of an ambiguous name, which cordons the node; the comment at 163
  says that an existing CR is owned by its `spec.nodeName`. `LoserLeftAlone`
  therefore excepts the owner.
- `markDuplicates` flags the CR under the sanitized name whichever node it names;
  of two colliding names, one ambiguous and one bound, each pass turns Reconciled
  to True and back to False. `AmbiguityIsShown` and `OwnerSettles` keep to the cases
  where all names are ambiguous or none is.
- A recorded owner whose name is ambiguous is not in `bound`, so its CR is up for
  re-adoption by a colliding name although its nodes are there.
- The comment at `nomadnamespace_controller.go:128` says that "default" is never
  deleted even if it gets past admission; the guard is in `reconcileNamespace` only,
  not in `finalizeNamespace`. Unreachable while the CRD rule stands.

## 5. Proofs

The theorems hold for every value of the constants that the modules' `ConstAssumption`
allows: any sets of addresses, tokens, keys, CRs, pools, bodies, drain parameters
and names (finite for names), any server count and mode the CRD admits, any number
of lives, clusters and upsets. One theorem has a hypothesis of its own,
`ThePoolIsManaged`. All of them are about `Spec`, without fairness.

| module | theorem | states |
|---|---|---|
| `NomadCluster_proofs` | `TypeCorrect` | `[]TypeOK` |
| | `TokenIsNeverStranded` | `[]RegisteredTokenIsStored` |
| | `AnnotationIsTruthful` | `AnnotatedMeansThisToken`, which `LossySpec` violates (finding 1) |
| | `GossipKeyIsKept` | `GossipKeyKept` |
| | `ReadyIsRegistered` | `[]ReadyMeansRegistered` |
| `NomadCluster_address_proofs` | `AccessIsKept` | `[]ProvisionedKeepsAccess` |
| | `ClusterIsNeverDemoted` | `NeverDemoted` |
| | `RollsArePublished` | `RollIsPublished` |
| | `DriftEventIsEmitted` | `[]DriftIsEmitted` |
| `NomadPool_proofs` | `TypeCorrect` | `[]TypeOK` |
| | `NoPoolIsOrphaned` | `[]NoOrphan` |
| | `ThePoolIsManaged` | `PoolIsManaged` (refinement) |
| | `OneReportsThePool` | `[]AtMostOneRegistered` |
| `NomadNode_proofs` | `TypeCorrect` | `[]TypeOK` |
| | `NodeStaysEligible` | `[]SeededAsObserved` |
| | `DrainIsNotRestarted` | `RunningDrainKept` |
| `NomadTenancy_proofs` | `TypeCorrect` | `[]TypeOK` |
| | `TenancyIsManaged` | `SubjectIsManaged` (refinement) |
| | `ReportIsOfThisSpec` | `ReportMatchesSpec` |
| | `UnmanagedIsKept` | `UnmanagedKept` |
| `NomadNodeNames_proofs` | `TypeCorrect` | `[]TypeOK` |
| | `LosersLeaveItAlone` | `LoserLeftAlone` |
| | `OwnersKeepTheirCR` | `OwnerKeepsCR` |

The candidate invariants were checked with TLC before they were proved, on
instances of 640 thousand to 7.5 million states. A large proof goes in two steps:
*kinds* of steps are named first (`Reads`, `Writes`, `Ends`, `Outside`, ...), which
say what a step does to the CR, its copies and the pass whichever action takes it,
and lemmas show that every action is of one of the kinds (`StepKinds`, `PassKinds`,
`OutsideKinds`); the invariants are then shown for each kind. Facts about values
and record updates (`NewValues`, `CRUpdate`, `StatusUpdate`, `Shown`, ...) are lemmas
that the steps cite.

**NomadCluster.** No property is inductive, because the stored status is written
from copies made long before.

- *Token.* The pass may be about to register a token: `TokenInv` adds that a cached
  Secret that is present carries the stored token, and that from the bootstrap call
  on the pass's own copy does. It holds because the Secret is created once and a
  lost Create race is an error.
- *Ready.* `FreshInv` says that a fresh cached CR equals the stored one, and that the
  pass's copy, while fresh, is of the same life as the stored and the cached CR.
  `ReadyInv` says that a provisioned stored status implies that Nomad has registered
  the stored token, that the Secret is annotated, that the StatefulSet is owned by
  this life of the CR (so its data cannot be wiped between lives, `ServersInv`) and
  that the cache and any running pass are of this life too; and that the pass's
  fresh copy implies what the pass has established by then. `ReadyMeansRegistered`
  needs the premise `~InPlaceWipe`: the recovery runbook's wipe under a live CR leaves
  the status behind the truth until the next pass, by design; `Converges` covers it.
- *Address and phase.* `CopyInv`: whatever status the CR, the cache or the pass has,
  if it is provisioned it has the address and ExternalAccessReady; the pass has both
  once it is past external access; and while its copy is fresh and the CR
  provisioned, the copy is.
- *Rolls.* A pass may outlive its CR, so `LivesInv` says that no copy is of a life that
  has not begun, and `RollInv` that, while the CR is the one the pass works for, its
  copy from the address write to the roll is the published status, and the
  ConfigMap, once rendered, is the CR's and carries that address. `DriftInv`: a
  Ready status, stored or in a fresh copy, has an address that the servers are on or
  that an Event was emitted for. That the Event is stored is neither said nor true (section 4).

**NomadPool.** `HoldInv`: the cache and the pass are behind the stored CR, but never
on the other side of the finalizer, as only a pass that has seen the deletion takes
it off (`CopiesInv`), and a pass that goes on to Nomad has put the finalizer on or
found it there (`PassInv`). `CacheInv`: before the first deletion of a cluster, a cache
without one means that no pool has been registered, so a CR given up for that reason
leaves none. `DropInv`: before that deletion a pass takes the finalizer off only when
its pool has gone. With them `NoOrphan` is inductive; `LeftInv` relates `left` to the
excuse of the refinement. For `OneReportsThePool`, `KnownInv`: a live CR that is
Registered is live in the cache too, since its pass began from the cached copy;
`ReportInv`: past the conflict check, and with Registered in a copy that can still be
stored, no other live CR for the pool is Registered. Passes do not overlap.
`ThePoolIsManaged` assumes that no other CR names the pool of the CR it is about. With
two, `ManagedObject` is not what the code implements: the finalizer of one deletes the
pool that the other names (finding 2).

The attempt to prove `NoOrphan` found an error of the model: a wipe of the servers
reset the excuse that the cluster's deletion gives, although a pass or a cache from
before may still act on that deletion: it registers the pool in the next cluster's
Nomad and then gives it up on account of the old one. One cluster, as in `pool_safe`,
does not show it; with two TLC does. `WipeServerData` now keeps the excuse (`left`)
while the cached cluster is behind or a pass is under way, and with that the theorem
holds for any number.

**NomadTenancy.** `CopiesInv` and `PassInv` as for the pool, and `ExcuseInv`: a pass that
takes the finalizer off has removed the object or seen the cluster's end. They are
shown once for whichever of the two CRs is the subject: `StepKinds` shows that the
steps of both reconcilers are of the same nine kinds. The refinement is then a step of
`ManagedObject` or a stutter for each kind. `ReportInv`: a pass that can still write the
CR has its stored Ready condition until it reports, and reports Registered only of a
job that it has compared with its copy or registered from it. `UnmanagedKept` needs
no invariant.

**NomadNode.** `CleanInv`: as long as nobody has drained or cordoned the node, neither
the stored CR, a copy of it, nor what was listed asks for anything else.
`DrainInv`: a pass that has yet to drive the node has listed the drain that the
operator issued, if it still runs, since only an earlier pass can have issued it.

**NomadNodeNames.** `HandInv`: only the owner gives up or creates the CR for a node; what
is driven is a CR that names the node, or the owner's; the CR at hand is there; a CR
is given up for a node that is not bound, as long as the copy that says so is
fresh. `TypeCorrect` rests on lemmas about sequences of distinct names (`TakenOut`,
`PutIn`, `InitialOrder`, `BoundsAreDistinct`).

**Only model-checked.** Every safety and action property that a passing run checks is a
theorem. Liveness under fairness is out of TLAPS's reach and stays with TLC:
`Converges`, `LeaderLossIsReported`, `LeavesNothingBehind`, `DeletionCompletes`,
`CascadeCompletes`, `SpecWins`, `ForgottenIsPruned`, `NamespaceConverges`,
`JobConverges`, `RefusalIsReported`, `OwnerSettles` and `AmbiguityIsShown`. So do the
findings, which are counterexamples.

## 6. Not modelled

- Built-in pool names (refused at admission), node and job counts, member status,
  manifest contents, client construction and TLS configuration: no decision of a
  reconciler depends on them beyond success or failure.
- The verification of an Existing Gateway's listeners is one nondeterministic
  outcome, address or no address (`NoAccess`).
- Edits of a NomadCluster's spec other than as a write that moves the version:
  mode and server count are immutable by CRD rule, other fields only change
  manifests.
- Foreground deletion of a NomadCluster's own objects.
- The string function `sanitizeNodeName`: `NomadNodeNames` starts from names that it
  maps to one object name. Of drains, which `NomadNode` has in full, only the cordon
  is left there.
- Two NomadClusters in one Kubernetes namespace whose nodes share names.
- NomadNamespace: the guard for "default" and the job count. Two CRs for one
  namespace are an outcome of the conflict check (`NameConflict`); two live CRs are
  modelled for pools, whose check is the same.
- NomadJob: the status derived from the job, jobs that finish by themselves, and two
  CRs with one job ID, of which code and docs say nothing.
- A second life of the cluster for namespaces and jobs; `NomadPool` has it.
- The lost update in the pool's read-modify-write can happen in the model; no
  property excludes it, as Nomad offers no check-and-set.

## 7. Plan

Done: `NomadCluster`; `NomadPool`; `NomadNode`; `ManagedObject`, `NomadNamespace`,
`NomadJob` and their composition `NomadTenancy`; `NomadNodeNames`; the theorems of
section 5.

Next:

1. `ClusterLifecycle`, an abstract phase machine that `NomadCluster` implements, with
   the refinement proved from `ReadyInv` and `CopyInv`.
2. The facts behind liveness that are safety properties, as theorems: that a pass
   whose copies are all fresh and whose calls all succeed does not end before its
   last step.
3. The composition of NomadCluster's deletion with the finalizers of the others.
