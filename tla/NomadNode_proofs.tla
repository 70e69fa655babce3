-------------------------- MODULE NomadNode_proofs --------------------------
(***************************************************************************)
(* Proofs about NomadNode, for any drain parameters.                       *)
(***************************************************************************)
EXTENDS NomadNode, TLAPS

-----------------------------------------------------------------------------
(* Values.                                                                 *)

\* Nomad does not let a draining node take work, nor calls its drain complete.
DrainsAlone(n) == n.drain # NoDrain => ~n.eligible /\ ~n.complete

LEMMA Nodes ==
    /\ NewNode \in Node /\ NoNode \in Node
    /\ NewNode.there /\ ~NoNode.there
    /\ NewNode.drain = NoDrain /\ NewNode.eligible
    /\ NoNode.drain = NoDrain /\ NoNode.eligible
BY DEF NewNode, NoNode, Node, Drain

LEMMA NodeCalls ==
    ASSUME NEW n \in Node
    PROVE  /\ \A d \in Drain :
                /\ Drained(n, d) \in Node /\ Drained(n, d).drain = d
                /\ DrainsAlone(Drained(n, d))
           /\ \A b \in BOOLEAN :
                /\ Undrained(n, b) \in Node /\ Undrained(n, b).drain = NoDrain
                /\ [n EXCEPT !.eligible = b] \in Node
                /\ [n EXCEPT !.eligible = b].drain = n.drain
                /\ n.eligible => Undrained(n, b).eligible
                /\ DrainsAlone(n) /\ (b => n.drain = NoDrain)
                     => DrainsAlone([n EXCEPT !.eligible = b])
<1>1. ASSUME NEW d \in Drain
      PROVE  /\ Drained(n, d) \in Node /\ Drained(n, d).drain = d
             /\ DrainsAlone(Drained(n, d))
  BY DEF Drained, DrainsAlone, Node
<1>2. ASSUME NEW b \in BOOLEAN
      PROVE  /\ Undrained(n, b) \in Node /\ Undrained(n, b).drain = NoDrain
             /\ [n EXCEPT !.eligible = b] \in Node
             /\ [n EXCEPT !.eligible = b].drain = n.drain
             /\ n.eligible => Undrained(n, b).eligible
             /\ DrainsAlone(n) /\ (b => n.drain = NoDrain)
                  => DrainsAlone([n EXCEPT !.eligible = b])
  BY DEF Undrained, DrainsAlone, Node, Drain
<1>3. QED BY <1>1, <1>2

\* A CR as it is minted.
LEMMA Minted ==
    ASSUME NEW b \in BOOLEAN, NEW d \in Drain
    PROVE  /\ NewCR(b, d) \in CR
           /\ NewCR(b, d).eligible = b /\ NewCR(b, d).drain = d
BY DEF NewCR, CR

LEMMA NoCRFields == NoCR \in CR /\ NoCR.eligible /\ NoCR.drain = NoDrain
BY DEF NoCR, NewCR, CR, Drain

\* What the pass writes into its copy leaves the spec alone.
LEMMA StatusFields ==
    ASSUME NEW c \in CR
    PROVE  /\ \A r \in {"Unknown", "True", "False"} :
                /\ [c EXCEPT !.reflected = r] \in CR
                /\ [c EXCEPT !.reflected = r].eligible = c.eligible
                /\ [c EXCEPT !.reflected = r].drain = c.drain
           /\ /\ [c EXCEPT !.handled = TRUE] \in CR
              /\ [c EXCEPT !.handled = TRUE].eligible = c.eligible
              /\ [c EXCEPT !.handled = TRUE].drain = c.drain
           /\ \A p \in {"True", "False"} :
                /\ [c EXCEPT !.handled = TRUE, !.pending = p] \in CR
                /\ [c EXCEPT !.handled = TRUE, !.pending = p].eligible = c.eligible
                /\ [c EXCEPT !.handled = TRUE, !.pending = p].drain = c.drain
BY DEF CR

-----------------------------------------------------------------------------
(* What a step does, whichever action takes it.                            *)

CRStays   == UNCHANGED <<cr, cacheVars>>
PassStays == UNCHANGED passVars

SameSpec(c, d) == c.eligible = d.eligible /\ c.drain = d.drain

\* The pass lists, reads, drives, and comes to its next call.
Lists ==
    /\ pc = "idle" /\ pc' \in {"idle", "bind", "duplicates", "prune"}
    /\ stub' = node /\ UNCHANGED <<nodeVars, nn, nnFresh>> /\ CRStays
    /\ past' \in Past /\ (past' # past => past = "clean" /\ past' = "twinned")
    /\ pc' = "duplicates" => past' # "clean"

Reads ==
    /\ pc \in {"idle", "bind", "duplicates"}
    /\ UNCHANGED <<nodeVars, past>> /\ CRStays
    /\ pc' \in {"mint", "drive", "mintMinimal", "status"}
    /\ pc \in {"idle", "duplicates"} => pc' \in {"mintMinimal", "status"}
    /\ pc' = "mintMinimal" => pc = "duplicates"
    /\ pc' \in {"mint", "drive"} => pc = "bind"
    /\ stub' = IF pc' \in {"mint", "drive"} THEN stub ELSE NoNode
    /\ nn' \in CR /\ nnFresh' \in BOOLEAN
    /\ \/ SameSpec(nn', crSeen)
       \/ pc' = "mint" /\ nn'.eligible = stub.eligible
            /\ (nn'.drain # NoDrain => stub.drain # NoDrain)
       \/ pc' = "mintMinimal"

Ends ==
    /\ UNCHANGED <<nodeVars, past>> /\ CRStays
    /\ pc' = "idle" /\ stub' = NoNode /\ nn' = NoCR /\ nnFresh' = FALSE

\* The node is changed, or left as it is.
Drives ==
    /\ pc = "drive" /\ pc' \in {"persist", "mirror"}
    /\ CRStays /\ UNCHANGED past
    /\ stub' = NoNode /\ nn' \in CR /\ nnFresh' = nnFresh
    /\ SameSpec(nn', nn)
    /\ node' \in Node /\ DrainsAlone(node') /\ ours' \in BOOLEAN
    /\ \/ UNCHANGED nodeVars
       \/ nn.drain # NoDrain
       \/ /\ nn.drain = NoDrain /\ UNCHANGED ours
          /\ node'.drain \in {NoDrain, node.drain}
          /\ nn.eligible => node'.eligible \/ ~node.eligible

\* A CR is created or its status written: its spec is one the pass has.
Writes ==
    /\ pc \in {"mint", "mintMinimal", "persist", "mirror", "status"}
    /\ UNCHANGED <<nodeVars, crSeen, past>>
    /\ cr' \in CR /\ seenFresh' \in BOOLEAN
    /\ pc' \in {"drive", "mirror", "status", "idle"}
    /\ pc' = "drive" => pc = "mint"
    /\ stub' = IF pc' = "drive" THEN stub ELSE NoNode
    /\ nn' \in CR /\ nnFresh' \in BOOLEAN
    /\ cr' # cr => SameSpec(cr', nn)
    /\ \E c \in {nn, crSeen, NoCR} : SameSpec(nn', c)

Prunes ==
    /\ UNCHANGED <<nodeVars, crSeen, past>>
    /\ cr' \in {cr, NoCR} /\ seenFresh' \in BOOLEAN
    /\ pc' = "idle" /\ stub' = NoNode /\ nn' = NoCR /\ nnFresh' = FALSE

Syncs ==
    /\ UNCHANGED <<nodeVars, cr, past>> /\ PassStays
    /\ crSeen' = cr /\ seenFresh' = TRUE

Users ==
    /\ UNCHANGED <<nodeVars, crSeen, pc, stub, nn>>
    /\ cr' \in CR /\ seenFresh' = FALSE /\ nnFresh' = FALSE
    /\ past' \in Past
    /\ past' = "clean" => past = "clean" /\ cr'.eligible /\ cr'.drain = NoDrain

\* The node changes behind the operator's back.
Outside ==
    /\ CRStays /\ PassStays
    /\ node' \in Node /\ DrainsAlone(node')
    /\ past' \in Past /\ (past' = "clean" => past = "clean")
    /\ ours' \in BOOLEAN
    /\ ours' /\ node'.drain # NoDrain => UNCHANGED <<ours, node>>
    /\ past' = "clean" =>
         /\ node'.drain = NoDrain
         /\ node'.eligible \/ ~node.eligible \/ node.drain # NoDrain

Kinds ==
    \/ Lists \/ Reads \/ Ends \/ Drives \/ Writes \/ Prunes
    \/ Syncs \/ Users \/ Outside \/ UNCHANGED vars


LEMMA PassKinds ==
    ASSUME TypeOK
    PROVE  /\ UpsertNode => Reads
           /\ MarkClusterNotReady \/ MarkDuplicates => Reads
           /\ AdoptDrain \/ IssueDrain \/ CancelDrain \/ NothingToDrive => Drives
           /\ SetEligibility => Drives \/ Ends
           /\ NodeGone \/ PassAborted => Ends
           /\ Mint \/ MintMinimal => Writes
           /\ PersistGeneration \/ MirrorStatus \/ FlagStatus => Writes
           /\ PruneAbsent => Prunes
           /\ \A b, c \in BOOLEAN : ListNodes(b, c) => Lists
<1> USE NoCRFields, Minted, StatusFields, ConstAssumption
<1>0. TypeOK
  OBVIOUS
<1>t. node \in Node /\ stub \in Node /\ cr \in CR /\ crSeen \in CR /\ nn \in CR
  BY <1>0 DEF TypeOK
<1>u. nnFresh \in BOOLEAN /\ seenFresh \in BOOLEAN /\ past \in Past
  BY <1>0 DEF TypeOK
<1>v. DrainsAlone(node) /\ ours \in BOOLEAN
  BY <1>0 DEF TypeOK, DrainsAlone
<1>w. /\ stub.eligible \in BOOLEAN /\ stub.drain \in Drain
      /\ node.drain \in Drain /\ Default \in Drain /\ NoDrain \in Drain
      /\ nn.eligible \in BOOLEAN /\ nn.drain \in Drain
  BY <1>t DEF Node, CR, Drain, ConstAssumption
<1>x. \A c \in {nn, crSeen}, v \in {"Unknown", "True", "False"} :
        /\ [c EXCEPT !.reflected = v] \in CR
        /\ SameSpec([c EXCEPT !.reflected = v], c)
  BY <1>t, StatusFields DEF SameSpec
<1>y. /\ [crSeen EXCEPT !.reflected = "False"] \in CR
      /\ SameSpec([crSeen EXCEPT !.reflected = "False"], crSeen)
      /\ [nn EXCEPT !.reflected = "False"] \in CR
      /\ SameSpec([nn EXCEPT !.reflected = "False"], nn)
      /\ [nn EXCEPT !.reflected = "True"] \in CR
      /\ SameSpec([nn EXCEPT !.reflected = "True"], nn)
  BY <1>x
<1>z. SameSpec(crSeen, crSeen) /\ SameSpec(nn, nn)
  BY DEF SameSpec
<1>1. UpsertNode => Reads
  <2>1. CASE crSeen.there
    BY <1>t, <1>u, <1>z, <2>1
       DEF UpsertNode, Reads, Copy, CRStays, cacheVars
  <2>2. CASE ~crSeen.there
    <3>1. SUFFICES ASSUME UpsertNode PROVE Reads
      OBVIOUS
    <3>2. PICK d \in Drain :
            /\ d # NoDrain => stub.drain # NoDrain
            /\ Copy("mint", NewCR(stub.eligible, d), FALSE)
      BY <1>w, <2>2, <3>1 DEF UpsertNode
    <3>3. /\ NewCR(stub.eligible, d) \in CR
          /\ NewCR(stub.eligible, d).eligible = stub.eligible
          /\ NewCR(stub.eligible, d).drain = d
      BY <1>w DEF NewCR, CR
    <3>4. QED
      BY <3>1, <3>2, <3>3 DEF UpsertNode, Reads, Copy, CRStays, cacheVars
  <2>3. QED BY <2>1, <2>2
<1>2. MarkClusterNotReady => Reads
  BY <1>u, <1>y DEF MarkClusterNotReady, Reads, Copy, CRStays, cacheVars
<1>3. MarkDuplicates => Reads
  <2>1. NewCR(FALSE, NoDrain) \in CR
    BY <1>w, Minted
  <2>2. QED
    BY <1>u, <1>y, <2>1 DEF MarkDuplicates, Reads, Copy, CRStays, cacheVars
<1>4. AdoptDrain => Drives
  <2>1. SUFFICES ASSUME AdoptDrain PROVE Drives
    OBVIOUS
  <2>2. PICK p \in {"True", "False"} :
          Copy("persist", [nn EXCEPT !.handled = TRUE, !.pending = p], nnFresh)
    BY <2>1 DEF AdoptDrain
  <2>3. QED
    BY <1>t, <1>v, <2>1, <2>2
       DEF AdoptDrain, Drives, Copy, CRStays, cacheVars, SameSpec, nodeVars
<1>5. IssueDrain => Drives
  <2>1. SUFFICES ASSUME IssueDrain PROVE Drives
    OBVIOUS
  <2>2. DrainsAlone(node') /\ node' \in Node
    BY <1>t, <1>w, <2>1, NodeCalls DEF IssueDrain
  <2>3. nn' \in CR /\ SameSpec(nn', nn)
    BY <1>t, <2>1, StatusFields DEF IssueDrain, Copy, SameSpec
  <2>4. QED BY <2>1, <2>2, <2>3 DEF IssueDrain, Drives, Copy, CRStays, cacheVars
<1>6. CancelDrain => Drives
  <2>1. SUFFICES ASSUME CancelDrain PROVE Drives
    OBVIOUS
  <2>2. DrainsAlone(node') /\ node' \in Node /\ node'.drain = NoDrain
    <3>1. /\ Undrained(node, nn.eligible) \in Node
          /\ Undrained(node, nn.eligible).drain = NoDrain
      BY <1>t, <1>w, NodeCalls
    <3>2. QED BY <2>1, <3>1 DEF CancelDrain, DrainsAlone
  <2>3. nn.eligible => node'.eligible
    BY <1>t, <1>w, <2>1 DEF CancelDrain, Undrained, Node
  <2>4. QED
    BY <1>t, <1>v, <2>1, <2>2, <2>3
       DEF CancelDrain, Drives, Goto, Copy, CRStays, cacheVars, SameSpec
<1>7. NothingToDrive => Drives
  BY <1>t, <1>v
     DEF NothingToDrive, Drives, Goto, Copy, CRStays, cacheVars, SameSpec, nodeVars
<1>8. SetEligibility => Drives \/ Ends
  <2>1. ASSUME SetEligibility, node' = [node EXCEPT !.eligible = nn.eligible],
               Goto("mirror")
        PROVE  Drives
    <3>1. DrainsAlone(node') /\ node' \in Node /\ node'.drain = node.drain
      BY <1>t, <1>v, <1>w, <2>1, NodeCalls DEF SetEligibility, DrainsAlone, Node
    <3>2. node'.eligible = nn.eligible
      BY <1>t, <2>1 DEF Node
    <3>3. QED
      BY <1>t, <1>v, <2>1, <3>1, <3>2
         DEF SetEligibility, Drives, Goto, Copy, CRStays, cacheVars, SameSpec
  <2>2. ASSUME SetEligibility, EndPass, UNCHANGED node
        PROVE  Ends
    BY <2>2 DEF SetEligibility, EndPass, Ends, CRStays, nodeVars, cacheVars
  <2>3. QED BY <2>1, <2>2 DEF SetEligibility
<1>9. NodeGone \/ PassAborted => Ends
  BY DEF NodeGone, PassAborted, EndPass, Ends, CRStays, nodeVars, cacheVars
<1>10. Mint => Writes
  BY <1>t, <1>u DEF Mint, Create, Writes, Copy, EndPass, SameSpec
<1>11. MintMinimal => Writes
  <2>1. SUFFICES ASSUME MintMinimal PROVE Writes
    OBVIOUS
  <2>2. CASE ~cr.there
    BY <1>t, <1>y, <1>z, <2>1, <2>2 DEF MintMinimal, Writes, Copy
  <2>3. CASE cr.there /\ crSeen.there
    BY <1>t, <1>u, <1>y, <2>1, <2>3 DEF MintMinimal, Writes, Copy
  <2>4. CASE cr.there /\ ~crSeen.there
    BY <1>t, <1>u, <2>1, <2>4 DEF MintMinimal, Writes, EndPass, SameSpec
  <2>5. QED BY <2>2, <2>3, <2>4
<1>12. \A p \in {"idle", "mirror"}, n \in CR :
          UpdateStatus(p, n) =>
            /\ cr' \in CR /\ seenFresh' \in BOOLEAN
            /\ cr' # cr => cr' = n
            /\ pc' \in {p, "idle"} /\ stub' = NoNode
            /\ nn' \in {n, NoCR} /\ nnFresh' \in BOOLEAN
  BY <1>t, <1>u DEF UpdateStatus, Copy, EndPass
<1>13. PersistGeneration => Writes
  BY <1>t, <1>u, <1>12 DEF PersistGeneration, Writes, SameSpec
<1>14. MirrorStatus => Writes
  <2> DEFINE n == [nn EXCEPT !.reflected = "True"]
  <2>1. SUFFICES ASSUME MirrorStatus PROVE Writes
    OBVIOUS
  <2>2. n \in CR /\ SameSpec(n, nn)
    BY <1>y
  <2>3. /\ cr' \in CR /\ seenFresh' \in BOOLEAN
        /\ cr' # cr => cr' = n
        /\ pc' = "idle" /\ stub' = NoNode
        /\ nn' \in {n, NoCR} /\ nnFresh' \in BOOLEAN
    BY <1>12, <2>1, <2>2 DEF MirrorStatus
  <2>4. QED BY <2>1, <2>2, <2>3 DEF MirrorStatus, Writes, SameSpec
<1>15. FlagStatus => Writes
  BY <1>t, <1>u, <1>12 DEF FlagStatus, Writes, SameSpec
<1>16. PruneAbsent => Prunes
  BY <1>u DEF PruneAbsent, Prunes, EndPass
<1>17. ASSUME NEW b \in BOOLEAN, NEW c \in BOOLEAN, ListNodes(b, c)
       PROVE  Lists
  BY <1>17, <1>u DEF ListNodes, Lists, CRStays, cacheVars, Past
<1>18. QED
  BY <1>1, <1>2, <1>3, <1>4, <1>5, <1>6, <1>7, <1>8, <1>9, <1>10, <1>11,
     <1>13, <1>14, <1>15, <1>16, <1>17

LEMMA OutsideKinds ==
    ASSUME TypeOK
    PROVE  /\ SyncCR => Syncs
           /\ DrainCompletes => Outside
           /\ Environment => Users \/ Outside
<1> USE Nodes, NoCRFields
<1>0. TypeOK
  OBVIOUS
<1>t. /\ node \in Node /\ cr \in CR /\ ours \in BOOLEAN /\ past \in Past
      /\ DrainsAlone(node)
  BY <1>0 DEF TypeOK, DrainsAlone
<1>1. SyncCR => Syncs
  BY DEF SyncCR, Syncs, PassStays
<1>2. DrainCompletes => Outside
  <2>1. SUFFICES ASSUME DrainCompletes PROVE Outside
    OBVIOUS
  <2>2. node' \in Node /\ node'.drain = NoDrain
    BY <1>t, <2>1 DEF DrainCompletes, Node, Drain
  <2>3. QED
    BY <1>t, <2>1, <2>2 DEF DrainCompletes, Outside, CRStays, PassStays, DrainsAlone
<1>3. DeleteCR => Users
  BY <1>t DEF DeleteCR, OtherWrites, Users
<1>4. ASSUME NEW b \in BOOLEAN, NEW d \in Drain, EditSpec(b, d)
      PROVE  Users
  <2> DEFINE n == [cr EXCEPT !.eligible = b, !.drain = d, !.handled = FALSE]
  <2>0. n \in CR /\ n.eligible = b /\ n.drain = d
    BY <1>t DEF CR
  <2>1. cr' \in CR /\ cr'.eligible = b /\ cr'.drain = d
    BY <1>4, <2>0 DEF EditSpec, OtherWrites
  <2>2. QED BY <1>t, <1>4, <2>1 DEF EditSpec, OtherWrites, Users, Past
<1>5. RegisterNode \/ ForgetNode => Outside
  BY <1>t
     DEF RegisterNode, ForgetNode, Outside, CRStays, PassStays, DrainsAlone
<1>6. ASSUME NEW d \in Param, DrainedOutside(d)
      PROVE  Outside
  <2>1. d \in Drain
    BY DEF Drain
  <2>2. QED
    BY <1>t, <1>6, <2>1, NodeCalls
       DEF DrainedOutside, Outside, CRStays, PassStays, Past
<1>7. ASSUME NEW b \in BOOLEAN, UndrainedOutside(b)
      PROVE  Outside
  <2>1. node' \in Node /\ node'.drain = NoDrain
    BY <1>t, <1>7, NodeCalls DEF UndrainedOutside
  <2>2. QED
    BY <1>t, <1>7, <2>1
       DEF UndrainedOutside, Outside, CRStays, PassStays, DrainsAlone
<1>8. ASSUME NEW b \in BOOLEAN, CordonedOutside(b)
      PROVE  Outside
  BY <1>t, <1>8, NodeCalls
     DEF CordonedOutside, Outside, CRStays, PassStays, Past
<1>9. QED BY <1>1, <1>2, <1>3, <1>4, <1>5, <1>6, <1>7, <1>8 DEF Environment

LEMMA StepKinds == TypeOK /\ [Next]_vars => Kinds
<1>1. SUFFICES ASSUME TypeOK, [Next]_vars PROVE Kinds
  OBVIOUS
<1>2. CASE Pass \/ Fault
  BY <1>1, <1>2, PassKinds DEF Pass, Fault, Steps, Kinds
<1>3. CASE SyncCR \/ DrainCompletes \/ Environment
  BY <1>1, <1>3, OutsideKinds DEF Kinds
<1>4. QED BY <1>1, <1>2, <1>3 DEF Next, Kinds

-----------------------------------------------------------------------------
(* Types.                                                                  *)

LEMMA TypesStart == Init => TypeOK
BY Nodes, NoCRFields DEF Init, TypeOK, Past, Step

\* TypeOK, one part for the node and one for the rest.
NodeTyped ==
    node \in Node /\ stub \in Node /\ ours \in BOOLEAN /\ DrainsAlone(node)

RestTyped ==
    /\ cr \in CR /\ crSeen \in CR /\ nn \in CR
    /\ seenFresh \in BOOLEAN /\ nnFresh \in BOOLEAN
    /\ past \in Past /\ pc \in Step

LEMMA TypeParts == TypeOK <=> NodeTyped /\ RestTyped
BY DEF TypeOK, NodeTyped, RestTyped, DrainsAlone

LEMMA TypesKept == TypeOK /\ [Next]_vars => TypeOK'
<1>1. SUFFICES ASSUME TypeOK, [Next]_vars PROVE TypeOK'
  OBVIOUS
<1>t. NodeTyped /\ RestTyped
  BY <1>1, TypeParts
<1>2. Kinds
  BY <1>1, StepKinds
<1>3. NodeTyped'
  <2> USE <1>t, Nodes DEF NodeTyped
  <2>1. CASE Lists
    BY <2>1 DEF Lists, nodeVars
  <2>2. CASE Reads
    BY <2>2 DEF Reads, nodeVars
  <2>3. CASE Ends
    BY <2>3 DEF Ends, nodeVars
  <2>4. CASE Drives
    BY <2>4 DEF Drives, nodeVars
  <2>5. CASE Writes
    BY <2>5 DEF Writes, nodeVars
  <2>6. CASE Prunes
    BY <2>6 DEF Prunes, nodeVars
  <2>7. CASE Syncs
    BY <2>7 DEF Syncs, nodeVars, PassStays, passVars
  <2>8. CASE Users
    BY <2>8 DEF Users, nodeVars
  <2>9. CASE Outside
    BY <2>9 DEF Outside, PassStays, passVars
  <2>10. CASE UNCHANGED vars
    BY <2>10 DEF vars, nodeVars, passVars
  <2>11. QED
    BY <1>2, <2>1, <2>2, <2>3, <2>4, <2>5, <2>6, <2>7, <2>8, <2>9, <2>10 DEF Kinds
<1>4. RestTyped'
  <2> USE <1>t, NoCRFields DEF RestTyped, Step
  <2>1. CASE Lists
    BY <2>1 DEF Lists, CRStays, cacheVars
  <2>2. CASE Reads
    BY <2>2 DEF Reads, CRStays, cacheVars
  <2>3. CASE Ends
    BY <2>3 DEF Ends, CRStays, cacheVars
  <2>4. CASE Drives
    BY <2>4 DEF Drives, CRStays, cacheVars
  <2>5. CASE Writes
    BY <2>5 DEF Writes
  <2>6. CASE Prunes
    BY <2>6 DEF Prunes
  <2>7. CASE Syncs
    BY <2>7 DEF Syncs, PassStays, passVars
  <2>8. CASE Users
    BY <2>8 DEF Users
  <2>9. CASE Outside
    BY <2>9 DEF Outside, CRStays, cacheVars, PassStays, passVars
  <2>10. CASE UNCHANGED vars
    BY <2>10 DEF vars, cacheVars, passVars
  <2>11. QED
    BY <1>2, <2>1, <2>2, <2>3, <2>4, <2>5, <2>6, <2>7, <2>8, <2>9, <2>10 DEF Kinds
<1>5. QED
  BY <1>3, <1>4
     DEF TypeOK, NodeTyped, RestTyped, DrainsAlone


\* Every variable has its type, and a node that drains is ineligible and its
\* drain not complete (Nomad's Drain and Eligibility as the client calls them).
THEOREM TypeCorrect == Spec => []TypeOK
<1>1. QED BY TypesStart, TypesKept, PTL DEF Spec

-----------------------------------------------------------------------------
(* Nobody cordons a node that nobody has cordoned.                         *)

\* Nothing that a pass may act upon says that the node takes no work: neither
\* a CR or a copy of one, nor what has been listed.
Asks(c) == c.eligible /\ c.drain = NoDrain

CleanInv ==
    past = "clean" =>
        /\ Asks(node) /\ Asks(stub)
        /\ Asks(cr) /\ Asks(crSeen) /\ Asks(nn)
        /\ pc \notin {"duplicates", "mintMinimal"}

LEMMA CleanKept == TypeOK /\ CleanInv /\ [Next]_vars => CleanInv'
<1>1. SUFFICES ASSUME TypeOK, CleanInv, [Next]_vars, past' = "clean"
               PROVE  CleanInv'
  BY DEF CleanInv
<1>2. Kinds
  BY <1>1, StepKinds
<1>3. past = "clean"
  BY <1>1, <1>2
     DEF Kinds, Lists, Reads, Ends, Drives, Writes, Prunes, Syncs, Users,
         Outside, vars
<1>4. /\ Asks(node) /\ Asks(stub)
      /\ Asks(cr) /\ Asks(crSeen) /\ Asks(nn)
      /\ pc \notin {"duplicates", "mintMinimal"}
  BY <1>1, <1>3 DEF CleanInv
<1>n. Asks(NoNode) /\ Asks(NoCR)
  BY Nodes, NoCRFields DEF Asks
<1> USE <1>1, <1>4, <1>n DEF CleanInv, Asks
<1>5. CASE Lists
  BY <1>5 DEF Lists, CRStays, cacheVars, nodeVars
<1>6. CASE Reads
  BY <1>6 DEF Reads, CRStays, cacheVars, nodeVars, SameSpec
<1>7. CASE Ends
  BY <1>7 DEF Ends, CRStays, cacheVars, nodeVars
<1>8. CASE Drives
  BY <1>8 DEF Drives, CRStays, cacheVars, nodeVars, SameSpec
<1>9. CASE Writes
  BY <1>9 DEF Writes, nodeVars, SameSpec
<1>10. CASE Prunes
  BY <1>10 DEF Prunes, nodeVars
<1>11. CASE Syncs
  BY <1>11 DEF Syncs, nodeVars, PassStays, passVars
<1>12. CASE Users
  BY <1>12 DEF Users, nodeVars
<1>13. CASE Outside
  BY <1>13 DEF Outside, CRStays, cacheVars, PassStays, passVars
<1>14. CASE UNCHANGED vars
  BY <1>14 DEF vars, nodeVars, cacheVars, passVars
<1>15. QED
  BY <1>2, <1>5, <1>6, <1>7, <1>8, <1>9, <1>10, <1>11, <1>12, <1>13, <1>14
     DEF Kinds

\* A node that nobody, by its CR or in Nomad, has drained or cordoned, and
\* whose name was never ambiguous, is never made ineligible: the CR is seeded
\* from what was listed (upsertNode) and driveDesired compares before it calls.
THEOREM NodeStaysEligible == Spec => []SeededAsObserved
<1>1. Init => CleanInv
  BY Nodes, NoCRFields DEF Init, CleanInv, Asks
<1>2. CleanInv => SeededAsObserved
  BY DEF CleanInv, SeededAsObserved, Asks
<1>3. QED BY <1>1, <1>2, TypeCorrect, CleanKept, PTL DEF Spec

-----------------------------------------------------------------------------
(* A running drain is not restarted.                                       *)

\* A pass that has yet to drive the node knows of the operator's own drain: it
\* was issued by an earlier pass, and so before this one listed the nodes.
DrainInv ==
    ours /\ node.drain # NoDrain /\ pc \in {"bind", "mint", "drive"}
        => stub.drain # NoDrain

LEMMA DrainKnown == TypeOK /\ DrainInv /\ [Next]_vars => DrainInv'
<1>1. SUFFICES ASSUME TypeOK, DrainInv, [Next]_vars PROVE DrainInv'
  OBVIOUS
<1>2. Kinds
  BY <1>1, StepKinds
<1> USE <1>1 DEF DrainInv
<1>3. CASE Lists
  BY <1>3 DEF Lists, nodeVars
<1>4. CASE Reads
  BY <1>4 DEF Reads, nodeVars
<1>5. CASE Ends \/ Prunes
  BY <1>5 DEF Ends, Prunes
<1>6. CASE Drives
  BY <1>6 DEF Drives
<1>7. CASE Writes
  BY <1>7 DEF Writes, nodeVars
<1>8. CASE Syncs
  BY <1>8 DEF Syncs, nodeVars, PassStays, passVars
<1>9. CASE Users
  BY <1>9 DEF Users, nodeVars
<1>10. CASE Outside
  BY <1>10 DEF Outside, PassStays, passVars
<1>11. CASE UNCHANGED vars
  BY <1>11 DEF vars, nodeVars, passVars
<1>12. QED
  BY <1>2, <1>3, <1>4, <1>5, <1>6, <1>7, <1>8, <1>9, <1>10, <1>11 DEF Kinds

\* The operator does not issue a drain while one that it issued still runs,
\* whatever crashed, conflicted or was read stale in between
\* (drainHandledThisGeneration, and adoption in driveDesired).
THEOREM DrainIsNotRestarted == Spec => RunningDrainKept
<1>1. Init => DrainInv
  BY DEF Init, DrainInv
<1>2. DrainInv => (IssueDrain => ~(ours /\ node.drain # NoDrain))
  BY DEF DrainInv, IssueDrain
<1>3. QED
  BY <1>1, <1>2, TypeCorrect, DrainKnown, PTL DEF Spec, RunningDrainKept
=============================================================================
