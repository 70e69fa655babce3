--------------------------- MODULE NomadNodeNames ---------------------------
(***************************************************************************)
(* Node names that collide: the nodes of a cluster whose names             *)
(* sanitizeNodeName maps to one object name, and the one NomadNode custom  *)
(* resource (CR) they share, as the reflector's pass of                    *)
(* internal/controller/nomadnode_controller.go hands it from one to        *)
(* another.  NomadNode has the pass for one node in full; here of the      *)
(* state that is driven only the cordon is left.                           *)
(***************************************************************************)
EXTENDS SequencesExt

CONSTANTS
    Name,      \* the names of the nodes
    NoName,    \* no name
    MaxUpsets  \* bound on what nodes and users do

ASSUME ConstAssumption ==
    /\ IsFiniteSet(Name) /\ Name # {} /\ NoName \notin Name
    /\ MaxUpsets \in Nat

VARIABLES
    nodes,      \* the names with one node, by CreateIndex
    twins,      \* the names with two nodes or more that are not down
    cordoned,   \* the names whose node is ineligible
    cr,         \* the CR in the API server
    crSeen,     \* the CR in the informer cache
    seenFresh,  \* is that the stored resourceVersion?
    pc,         \* the pass's next call
    list,       \* the nodes as the pass has listed them
    todo,       \* the names it has yet to deal with
    name,       \* the name it is dealing with
    nn, nnFresh, \* its copy of the CR; is its version the stored one?
    upsets      \* how often nodes and users have interfered

nomadVars == <<nodes, twins, cordoned>>
crVars    == <<cr, crSeen, seenFresh>>
passVars  == <<pc, list, todo, name, nn, nnFresh>>
vars      == <<nomadVars, crVars, passVars, upsets>>

-----------------------------------------------------------------------------
\* name: spec.nodeName, which is immutable; shown: the Reconciled condition.
CR == [there : BOOLEAN, name : Name \cup {NoName}, cordon : BOOLEAN,
       shown : {"Unknown", "Reflected", "Duplicate"}]

NewCR(n, cordon) ==
    [there |-> TRUE, name |-> n, cordon |-> cordon, shown |-> "Unknown"]

NoCR == [NewCR(NoName, FALSE) EXCEPT !.there = FALSE]

\* same: the names whose node is still the one that was listed.
List == [bound : {<<>>} \cup {s \in UNION {[1..k -> Name] :
                                          k \in 1..Cardinality(Name)} :
                                IsInjective(s)},
         twins : SUBSET Name, cordoned : SUBSET Name, same : SUBSET Name]

NoList == [bound |-> <<>>, twins |-> {}, cordoned |-> {}, same |-> {}]

Bound == ToSet(list.bound)

TypeOK ==
    /\ list \in List
    /\ [list EXCEPT !.bound = nodes, !.twins = twins,
                    !.cordoned = cordoned] \in List
    /\ ToSet(nodes) \cap twins = {}
    /\ \A c \in {cr, crSeen, nn} : c.there => c.name \in Name
    /\ cr \in CR /\ crSeen \in CR /\ nn \in CR
    /\ seenFresh \in BOOLEAN /\ nnFresh \in BOOLEAN
    /\ upsets \in 0..MaxUpsets
    /\ todo \subseteq Name /\ name \in Name \cup {NoName}
    /\ pc \in {"idle", "upsert", "delete", "create", "reget", "drive",
               "mirror", "mark", "createMark", "regetMark", "status", "prune"}

\* All of them are there; the names are alike, so one order will do.
Init ==
    /\ nodes = SetToSeq(Name) /\ twins = {} /\ cordoned = {} /\ upsets = 0
    /\ cr = NoCR /\ crSeen = NoCR /\ seenFresh = TRUE
    /\ pc = "idle" /\ list = NoList /\ todo = {} /\ name = NoName
    /\ nn = NoCR /\ nnFresh = FALSE

-----------------------------------------------------------------------------
(* The pass.                                                               *)

EndPass ==
    /\ pc' = "idle" /\ list' = NoList /\ todo' = {} /\ name' = NoName
    /\ nn' = NoCR /\ nnFresh' = FALSE

\* What was listed is forgotten when it is not needed any more.
Relist(ns) ==
    list' = [list EXCEPT !.cordoned = @ \cap ns, !.same = @ \cap ns]

\* Go on with the name at hand, its CR as in copy; the pass sets the condition.
Goto(p, copy, fresh) ==
    /\ pc' = p /\ nnFresh' = fresh
    /\ nn' = [copy EXCEPT !.shown = "Unknown"]
    /\ Relist(IF p = "mirror" THEN todo ELSE todo \cup {name})
    /\ UNCHANGED <<todo, name>>

\* The names that are bound come first, then those that are ambiguous.
NextName(rest) ==
    IF rest = {} /\ list.twins = {}
      THEN EndPass
      ELSE /\ pc' = IF rest = {} \/ pc = "status" THEN "mark" ELSE "upsert"
           /\ todo' = IF rest = {} THEN list.twins ELSE rest
           /\ name' = NoName /\ nn' = NoCR /\ nnFresh' = FALSE
           /\ IF rest = {} THEN list' = NoList ELSE Relist(rest)

\* bindNodes: a name is bound to its node, or is ambiguous.  Other names keep
\* the list from being empty.
ListNodes ==
    /\ pc = "idle"
    /\ list' = IF nodes = <<>> THEN NoList
               ELSE [bound |-> nodes, twins |-> twins,
                     cordoned |-> cordoned, same |-> ToSet(nodes)]
    /\ todo' = IF nodes # <<>> THEN ToSet(nodes) ELSE twins
    /\ pc' = IF nodes # <<>> THEN "upsert"
             ELSE IF twins # {} THEN "mark" ELSE "prune"
    /\ UNCHANGED <<name, nn, nnFresh, nomadVars, crVars>>

\* resolveCollisionOwners: the lowest CreateIndex.
Owner == Head(list.bound)

\* Mutant: the CR is told by its object name.
NamesByObject(n) == crSeen.there

Names(n) == crSeen.there /\ crSeen.name = n

\* Mutants: the CR of a node that is bound is up for adoption; a CR is never
\* handed on.
AdoptableFromLive(n) == n = Owner
AdoptableNever(n) == n = Owner /\ ~crSeen.there

\* The owner has no CR, or finds one whose node is not bound.
Adoptable(n) == n = Owner /\ (crSeen.there => crSeen.name \notin Bound)

\* Mutant: the name does not get into spec.nodeName.
TakeNameless(n, p, copy) ==
    /\ pc' = p /\ todo' = todo \ {n}
    /\ nn' = [copy EXCEPT !.shown = "Unknown"] /\ nnFresh' = seenFresh
    /\ UNCHANGED <<list, name>>

Take(n, p, copy) ==
    /\ pc' = p /\ name' = n /\ todo' = todo \ {n}
    /\ nn' = [copy EXCEPT !.shown = "Unknown"] /\ nnFresh' = seenFresh
    /\ UNCHANGED list

\* upsertNode reads the CR; one that names another node is left alone, unless
\* it is adoptable.
UpsertNode ==
    /\ pc = "upsert"
    /\ \E n \in todo :
         \/ Names(n) /\ Take(n, "drive", crSeen)
         \/ /\ ~Names(n) /\ Adoptable(n)
            /\ Take(n, IF crSeen.there THEN "delete" ELSE "create", NoCR)
         \/ ~Names(n) /\ ~Adoptable(n) /\ NextName(todo \ {n})
    /\ UNCHANGED <<nomadVars, crVars>>

\* A deletion is by name, whatever CR has that name by now.
DeleteStored == cr' = NoCR /\ seenFresh' = (seenFresh /\ ~cr.there)

DeleteStale ==
    /\ pc = "delete"
    /\ DeleteStored
    /\ Goto("create", NoCR, FALSE)
    /\ UNCHANGED <<nomadVars, crSeen>>

\* When there is a CR after all, the cache is asked for it.
Create(copy, next, reget) ==
    \/ /\ ~cr.there
       /\ cr' = copy /\ seenFresh' = FALSE
       /\ Goto(next, copy, TRUE)
    \/ /\ cr.there /\ UNCHANGED <<cr, seenFresh>>
       /\ Goto(reget, NoCR, FALSE)

\* The spec is seeded with what was listed.
Mint ==
    /\ pc = "create"
    /\ Create(NewCR(name, name \in list.cordoned), "drive", "reget")
    /\ UNCHANGED <<nomadVars, crSeen>>

\* Whatever the cache has, or an error if it has none.
Reget ==
    /\ pc = "reget"
    /\ IF crSeen.there THEN Goto("drive", crSeen, seenFresh)
       ELSE NextName(todo)
    /\ UNCHANGED <<nomadVars, crVars>>

\* A node that has left may or may not still be known to Nomad.
DriveDesired ==
    /\ pc = "drive"
    /\ \/ /\ nn.cordon = (name \in list.cordoned)
          /\ Goto("mirror", nn, nnFresh) /\ UNCHANGED cordoned
       \/ /\ nn.cordon # (name \in list.cordoned)
          /\ name \in list.same
          /\ cordoned' = IF nn.cordon THEN cordoned \cup {name}
                         ELSE cordoned \ {name}
          /\ Goto("mirror", nn, nnFresh)
       \/ /\ nn.cordon # (name \in list.cordoned)
          /\ name \notin list.same /\ UNCHANGED cordoned
          /\ Goto("mirror", nn, nnFresh) \/ NextName(todo)
    /\ UNCHANGED <<nodes, twins, crVars>>

\* Status().Update, accepted at the stored resourceVersion only.
UpdateStatus(shown) ==
    IF nnFresh
      THEN /\ cr' = [nn EXCEPT !.shown = shown]
           /\ seenFresh' = (seenFresh /\ cr' = cr)
      ELSE UNCHANGED <<cr, seenFresh>>

MirrorStatus ==
    /\ pc = "mirror"
    /\ UpdateStatus("Reflected") /\ NextName(todo)
    /\ UNCHANGED <<nomadVars, crSeen>>

\* Mutant: an ambiguous name gets no CR.
MarkExistingDuplicates ==
    /\ pc = "mark"
    /\ IF crSeen.there THEN \E n \in todo : Take(n, "status", crSeen)
       ELSE EndPass
    /\ UNCHANGED <<nomadVars, crVars>>

\* An ambiguous name has the CR flagged, whichever node it names.
MarkDuplicates ==
    /\ pc = "mark"
    /\ \E n \in todo :
         Take(n, IF crSeen.there THEN "status" ELSE "createMark", crSeen)
    /\ UNCHANGED <<nomadVars, crVars>>

\* The minimal CR has the zero value for spec.eligible.
MintMinimal ==
    /\ pc = "createMark"
    /\ Create(NewCR(name, TRUE), "status", "regetMark")
    /\ UNCHANGED <<nomadVars, crSeen>>

RegetMarked ==
    /\ pc = "regetMark"
    /\ IF crSeen.there THEN Goto("status", crSeen, seenFresh) ELSE EndPass
    /\ UNCHANGED <<nomadVars, crVars>>

FlagDuplicate ==
    /\ pc = "status"
    /\ UpdateStatus("Duplicate")
    /\ IF nnFresh THEN NextName(todo) ELSE EndPass
    /\ UNCHANGED <<nomadVars, crSeen>>

\* pruneAbsent, when none of the names is listed.
PruneAbsent ==
    /\ pc = "prune"
    /\ IF crSeen.there THEN DeleteStored ELSE UNCHANGED <<cr, seenFresh>>
    /\ EndPass
    /\ UNCHANGED <<nomadVars, crSeen>>

Steps ==
    \/ ListNodes \/ UpsertNode \/ DeleteStale \/ Mint \/ Reget
    \/ DriveDesired \/ MirrorStatus \/ MarkDuplicates \/ MintMinimal
    \/ RegetMarked \/ FlagDuplicate \/ PruneAbsent

Pass == Steps /\ UNCHANGED upsets

\* A call fails, which costs the name its turn, or the operator crashes.
Fault ==
    /\ \/ pc # "idle" /\ EndPass
       \/ pc \in {"delete", "create", "reget", "drive", "mirror"}
          /\ NextName(todo)
    /\ UNCHANGED <<nomadVars, crVars, upsets>>

-----------------------------------------------------------------------------
(* Nodes come and go, and have their names taken twice; a node that        *)
(* registers anew is another node, and eligible.                           *)

Upset == upsets < MaxUpsets /\ upsets' = upsets + 1

NodeStep(n) ==
    /\ Upset
    /\ list' = [list EXCEPT !.same = @ \ {n}]
    /\ UNCHANGED <<crVars, pc, todo, name, nn, nnFresh>>

Register(n) ==
    /\ n \notin twins
    /\ nodes' = Append(RemoveFirst(nodes, n), n) /\ cordoned' = cordoned \ {n}
    /\ NodeStep(n) /\ UNCHANGED twins

Deregister(n) ==
    /\ n \in ToSet(nodes) \cup twins
    /\ nodes' = RemoveFirst(nodes, n) /\ twins' = twins \ {n}
    /\ cordoned' = cordoned \ {n}
    /\ NodeStep(n)

Twin(n) ==
    /\ n \in ToSet(nodes)
    /\ nodes' = RemoveFirst(nodes, n) /\ twins' = twins \cup {n}
    /\ cordoned' = cordoned \ {n}
    /\ NodeStep(n)

\* One of the two is left, the older or the newer.
Untwin(n) ==
    /\ n \in twins /\ twins' = twins \ {n}
    /\ \E i \in 1..(Len(nodes) + 1) : nodes' = InsertAt(nodes, i, n)
    /\ NodeStep(n) /\ UNCHANGED cordoned

Nodes ==
    \E n \in Name : Register(n) \/ Deregister(n) \/ Twin(n) \/ Untwin(n)

-----------------------------------------------------------------------------
(* Users and the informer cache.                                           *)

OtherWrites(c) ==
    /\ Upset
    /\ cr' = c /\ seenFresh' = FALSE /\ nnFresh' = FALSE
    /\ UNCHANGED <<crSeen, nomadVars, pc, list, todo, name, nn>>

EditCR   == cr.there /\ OtherWrites([cr EXCEPT !.cordon = ~@])
DeleteCR == cr.there /\ OtherWrites(NoCR)
Users    == EditCR \/ DeleteCR

SyncCR ==
    /\ ~seenFresh /\ crSeen' = cr /\ seenFresh' = TRUE
    /\ UNCHANGED <<cr, nomadVars, passVars, upsets>>

-----------------------------------------------------------------------------
Next == Pass \/ SyncCR \/ Fault \/ Nodes \/ Users

Spec == Init /\ [][Next]_vars

FairSpec == Spec /\ WF_vars(Pass) /\ WF_vars(SyncCR)

-----------------------------------------------------------------------------
(* Properties.                                                             *)

\* Eligibility is set, and status written, on account of a CR that names the
\* node, or by the owner: a name that has lost the object name to another
\* "must not hijack it or clobber its status" (upsertNode).  Of the owner more
\* cannot be said: when its Create finds a CR the cache did not have, the one
\* it then takes may name another node.
LoserLeftAlone ==
    [][Pass /\ pc \in {"drive", "mirror"} /\ (cordoned' # cordoned \/ cr' # cr)
         => nn.name = name \/ name = Owner]_vars

\* A CR, and the wish of its user with it, is not given up for another node
\* while its own is bound, unless the pass has read an outdated copy: the
\* deletion by name has no precondition.
OwnerKeepsCR ==
    [][Pass /\ cr.there /\ ~cr'.there /\ nnFresh => cr.name \notin Bound]_vars

Calm == <>[][Pass \/ SyncCR]_vars

\* upsertNode's "always converges on the same deterministic owner": however
\* nodes came, left and had their names taken, and whatever copies the passes
\* read, in the end the CR names one of the nodes for good, reports on it, and
\* has its wish fulfilled.
OwnerSettles ==
    (Calm /\ <>[](nodes # <<>> /\ twins = {}))
    => <>[](/\ cr.there /\ cr.name \in ToSet(nodes)
            /\ cr.shown = "Reflected" /\ cr.cordon = (cr.name \in cordoned))

\* When every name is ambiguous the CR comes to say so, and keeps saying so.
AmbiguityIsShown ==
    (Calm /\ <>[](nodes = <<>> /\ twins # {}))
    => <>[](cr.there /\ cr.shown = "Duplicate")
=============================================================================
