----------------------- MODULE NomadNodeNames_proofs -----------------------
(***************************************************************************)
(* Proofs about NomadNodeNames, for any finite set of names and any number *)
(* of upsets.                                                              *)
(***************************************************************************)
EXTENDS NomadNodeNames, FiniteSetTheorems, SequenceTheorems, TLAPS

-----------------------------------------------------------------------------
(* The sequences of distinct names, in which the nodes are kept.           *)

Distinct(s) == s \in Seq(Name) /\ \A i, j \in 1..Len(s) : s[i] = s[j] => i = j

LEMMA SizeOfName == Cardinality(Name) \in Nat
BY FS_CardinalityType, ConstAssumption DEF ConstAssumption

LEMMA ToSetOfSeq ==
    ASSUME NEW s \in Seq(Name)
    PROVE  ToSet(s) = {s[i] : i \in 1..Len(s)} /\ ToSet(s) \subseteq Name
BY DEF ToSet

LEMMA ToSetOfNone == ToSet(<<>>) = {}
BY DEF ToSet

\* The values of list.bound.
Bounds == {<<>>} \cup {s \in UNION {[1..k -> Name] : k \in 1..Cardinality(Name)} :
                         IsInjective(s)}

LEMMA BoundsAreDistinct == \A s : s \in Bounds <=> Distinct(s)
<1>1. ASSUME NEW s, s \in Bounds
      PROVE  Distinct(s)
  <2>1. CASE s = <<>>
    BY <2>1 DEF Distinct
  <2>2. CASE s # <<>>
    <3>1. PICK k \in 1..Cardinality(Name) : s \in [1..k -> Name]
      BY <1>1, <2>2 DEF Bounds
    <3>2. k \in Nat
      BY SizeOfName, <3>1
    <3>3. s \in Seq(Name) /\ Len(s) = k
      BY <3>1, <3>2
    <3>4. IsInjective(s)
      BY <1>1, <2>2 DEF Bounds
    <3>5. QED BY <3>1, <3>3, <3>4 DEF IsInjective, Distinct
  <2>3. QED BY <2>1, <2>2
<1>2. ASSUME NEW s, Distinct(s)
      PROVE  s \in Bounds
  <2>1. s \in [1..Len(s) -> Name] /\ Len(s) \in Nat
    BY <1>2, LenProperties DEF Distinct
  <2>2. IsInjective(s)
    BY <1>2, <2>1 DEF Distinct, IsInjective
  <2>3. s \in Injection(1..Len(s), Name)
    BY <2>1, <2>2 DEF Injection
  <2>4. Cardinality(1..Len(s)) <= Cardinality(Name)
    BY <2>3, FS_Injection, ConstAssumption DEF ConstAssumption
  <2>5. Cardinality(1..Len(s)) = Len(s)
    <3>1. 1 \in Int /\ Len(s) \in Int
      BY <2>1
    <3>2. Cardinality(1..Len(s)) = IF 1 > Len(s) THEN 0 ELSE Len(s) - 1 + 1
      BY <3>1, FS_Interval, Zenon
    <3>3. QED BY <2>1, <3>2
  <2>6. CASE s = <<>>
    BY <2>6 DEF Bounds
  <2>7. CASE s # <<>>
    <3>1. Len(s) \in 1..Cardinality(Name)
      BY <1>2, <2>1, <2>4, <2>5, <2>7, SizeOfName, EmptySeq DEF Distinct
    <3>2. QED BY <2>1, <2>2, <3>1 DEF Bounds
  <2>8. QED BY <2>6, <2>7
<1>3. QED BY <1>1, <1>2

\* All of the names, in some order.
LEMMA InitialOrder == Distinct(SetToSeq(Name)) /\ ToSet(SetToSeq(Name)) \subseteq Name
<1> DEFINE k == Cardinality(Name)
           P(f) == f \in [1..k -> Name] /\ IsInjective(f)
<1>1. \E f \in [1..k -> Name] : IsInjective(f)
  <2>1. ExistsBijection(1..k, Name)
    BY FS_CardinalityType, ConstAssumption DEF ConstAssumption
  <2>2. QED BY <2>1 DEF ExistsBijection, Bijection, Injection
<1>2. SetToSeq(Name) \in [1..k -> Name] /\ IsInjective(SetToSeq(Name))
  BY <1>1 DEF SetToSeq
<1>3. SetToSeq(Name) \in Seq(Name) /\ Len(SetToSeq(Name)) = k
  BY <1>2, SizeOfName
<1>4. QED BY <1>2, <1>3, ToSetOfSeq DEF IsInjective, Distinct

\* A name is taken out: RemoveFirst, as a sequence of distinct names is left.
LEMMA TakenOut ==
    ASSUME NEW s, Distinct(s), NEW n \in Name
    PROVE  /\ Distinct(RemoveFirst(s, n))
           /\ ToSet(RemoveFirst(s, n)) = ToSet(s) \ {n}
<1> DEFINE Is(v) == v = n
           I == {i \in 1..Len(s) : s[i] = n}
<1>0. s \in Seq(Name) /\ Len(s) \in Nat /\ \A i, j \in 1..Len(s) : s[i] = s[j] => i = j
  BY DEF Distinct
<1>1. CASE ~\E i \in 1..Len(s) : s[i] = n
  <2>1. RemoveFirst(s, n) = s
    BY <1>1 DEF RemoveFirst
  <2>2. n \notin ToSet(s)
    BY <1>0, <1>1, ToSetOfSeq
  <2>3. QED BY <2>1, <2>2
<1>2. ASSUME NEW i \in 1..Len(s), s[i] = n
      PROVE  /\ Distinct(RemoveFirst(s, n))
             /\ ToSet(RemoveFirst(s, n)) = ToSet(s) \ {n}
  <2>1. I = {i}
    BY <1>0, <1>2
  <2>2. Min({i}) = i
    BY <1>2 DEF Min
  <2>3. SelectInSeq(s, LAMBDA v : v = n) = i
    BY <2>1, <2>2 DEF SelectInSeq
  <2>4. RemoveFirst(s, n) = SubSeq(s, 1, i - 1) \o SubSeq(s, i + 1, Len(s))
    BY <1>2, <2>3 DEF RemoveFirst, RemoveAt
  <2> DEFINE a == SubSeq(s, 1, i - 1)
             b == SubSeq(s, i + 1, Len(s))
             t == a \o b
  <2>5. /\ a \in Seq(Name) /\ Len(a) = i - 1
        /\ \A j \in 1..(i - 1) : a[j] = s[j]
    BY <1>0, <1>2
  <2>6. /\ b \in Seq(Name) /\ Len(b) = Len(s) - i
        /\ \A j \in 1..(Len(s) - i) : b[j] = s[j + i]
    BY <1>0, <1>2
  <2> HIDE DEF a, b
  <2>7. /\ t \in Seq(Name) /\ Len(t) = Len(s) - 1
        /\ \A j \in 1..(Len(s) - 1) : t[j] = IF j < i THEN s[j] ELSE s[j + 1]
    <3>1. /\ t \in Seq(Name) /\ Len(t) = Len(a) + Len(b)
          /\ \A j \in 1..(Len(a) + Len(b)) :
               t[j] = IF j <= Len(a) THEN a[j] ELSE b[j - Len(a)]
      BY <2>5, <2>6, ConcatProperties
    <3>2. ASSUME NEW j \in 1..(Len(s) - 1)
          PROVE  t[j] = IF j < i THEN s[j] ELSE s[j + 1]
      <4>1. t[j] = IF j <= i - 1 THEN a[j] ELSE b[j - (i - 1)]
        <5>1. Len(a) = i - 1 /\ Len(a) + Len(b) = Len(s) - 1
          BY <1>0, <1>2, <2>5, <2>6
        <5>2. j \in 1..(Len(a) + Len(b))
          BY <5>1
        <5>3. t[j] = IF j <= Len(a) THEN a[j] ELSE b[j - Len(a)]
          BY <3>1, <5>2
        <5>4. QED BY <5>1, <5>3
      <4>2. CASE j < i
        BY <1>0, <1>2, <2>5, <4>1, <4>2
      <4>3. CASE j >= i
        <5>1. /\ j - (i - 1) \in 1..(Len(s) - i)
              /\ j - (i - 1) + i = j + 1
          BY <1>0, <1>2, <4>3
        <5>2. b[j - (i - 1)] = s[j - (i - 1) + i]
          BY <2>6, <5>1
        <5>3. b[j - (i - 1)] = s[j + 1]
          BY <5>1, <5>2
        <5>4. ~(j <= i - 1) /\ ~(j < i)
          BY <1>2, <4>3
        <5>5. QED BY <4>1, <5>3, <5>4
      <4>4. j < i \/ j >= i
        BY <1>0, <1>2
      <4>5. QED BY <4>2, <4>3, <4>4, Zenon
    <3>3. QED BY <1>0, <1>2, <2>5, <2>6, <3>1, <3>2
  <2> HIDE DEF t
  <2>8. Distinct(t)
    BY <1>0, <1>2, <2>7 DEF Distinct
  <2>9. ToSet(t) = ToSet(s) \ {n}
    <3>1. ToSet(t) \subseteq ToSet(s) \ {n}
      BY <1>0, <1>2, <2>7, ToSetOfSeq
    <3>2. ASSUME NEW j \in 1..Len(s), s[j] # n
          PROVE  s[j] \in ToSet(t)
      <4>1. CASE j < i
        BY <1>0, <1>2, <2>7, <4>1, ToSetOfSeq
      <4>2. CASE j > i
        <5>1. j - 1 \in 1..Len(t) /\ t[j - 1] = s[j]
          BY <1>0, <1>2, <2>7, <4>2
        <5>2. QED BY <2>7, <5>1, ToSetOfSeq
      <4>3. QED BY <1>2, <3>2, <4>1, <4>2
    <3>3. QED BY <1>0, <3>1, <3>2, ToSetOfSeq
  <2>10. QED BY <2>4, <2>8, <2>9 DEF t, a, b
<1>3. QED BY <1>1, <1>2

\* A name is put in.
LEMMA PutIn ==
    ASSUME NEW s, Distinct(s), NEW n \in Name, n \notin ToSet(s)
    PROVE  /\ Distinct(Append(s, n)) /\ ToSet(Append(s, n)) = ToSet(s) \cup {n}
           /\ \A i \in 1..(Len(s) + 1) :
                /\ Distinct(InsertAt(s, i, n))
                /\ ToSet(InsertAt(s, i, n)) = ToSet(s) \cup {n}
<1>0. s \in Seq(Name) /\ Len(s) \in Nat /\ \A i, j \in 1..Len(s) : s[i] = s[j] => i = j
  BY DEF Distinct
<1>1. \A i \in 1..Len(s) : s[i] # n
  BY <1>0, ToSetOfSeq
<1>2. ASSUME NEW t \in Seq(Name), Len(t) = Len(s) + 1, NEW i \in 1..(Len(s) + 1),
             \A j \in 1..(Len(s) + 1) :
               t[j] = IF j < i THEN s[j] ELSE IF j = i THEN n ELSE s[j - 1]
      PROVE  Distinct(t) /\ ToSet(t) = ToSet(s) \cup {n}
  <2>1. Distinct(t)
    <3>1. SUFFICES ASSUME NEW j \in 1..Len(t), NEW k \in 1..Len(t), t[j] = t[k],
                          j < k
                   PROVE  FALSE
      BY <1>0, <1>2 DEF Distinct
    <3>2. j \in Int /\ k \in Int /\ i \in Int
      BY <1>0, <1>2
    <3>x. j \in 1..(Len(s) + 1) /\ k \in 1..(Len(s) + 1)
      BY <1>2
    <3>y. j < i => j \in 1..Len(s) /\ t[j] = s[j]
      BY <1>0, <1>2, <3>1, <3>2, <3>x
    <3>z. t[i] = n
      BY <1>2
    <3>3. CASE k < i
      <4>1. k \in 1..Len(s) /\ t[k] = s[k] /\ j < i
        BY <1>0, <1>2, <3>1, <3>2, <3>3, <3>x
      <4>2. s[j] = s[k] /\ j \in 1..Len(s)
        BY <3>1, <3>y, <4>1
      <4>3. j = k
        BY <1>0, <4>1, <4>2
      <4>4. QED BY <3>1, <3>2, <4>3
    <3>4. CASE k = i
      BY <1>1, <3>1, <3>4, <3>y, <3>z
    <3>5. CASE k > i
      <4>1. k - 1 \in 1..Len(s) /\ t[k] = s[k - 1]
        BY <1>0, <1>2, <3>1, <3>2, <3>5, <3>x
      <4>2. CASE j = i
        BY <1>1, <3>1, <3>z, <4>1, <4>2
      <4>3. CASE j < i
        <5>1. s[j] = s[k - 1] /\ j \in 1..Len(s)
          BY <3>1, <3>y, <4>1, <4>3
        <5>2. j = k - 1
          BY <1>0, <4>1, <5>1
        <5>3. QED BY <1>2, <3>2, <3>5, <4>3, <5>2
      <4>4. CASE j > i
        <5>1. j - 1 \in 1..Len(s) /\ t[j] = s[j - 1]
          BY <1>0, <1>2, <3>1, <3>2, <4>4
        <5>2. QED BY <1>0, <3>1, <3>2, <4>1, <5>1
      <4>5. QED BY <3>2, <4>2, <4>3, <4>4
    <3>6. QED BY <3>2, <3>3, <3>4, <3>5
  <2>2. ToSet(t) \subseteq ToSet(s) \cup {n}
    BY <1>0, <1>2, ToSetOfSeq
  <2>3. n \in ToSet(t)
    BY <1>0, <1>2, ToSetOfSeq
  <2>4. ASSUME NEW j \in 1..Len(s)
        PROVE  s[j] \in ToSet(t)
    <3>1. CASE j < i
      BY <1>0, <1>2, <3>1, ToSetOfSeq
    <3>2. CASE j >= i
      <4>1. j + 1 \in 1..Len(t) /\ t[j + 1] = s[j]
        BY <1>0, <1>2, <3>2
      <4>2. QED BY <4>1, ToSetOfSeq
    <3>3. QED BY <1>0, <1>2, <3>1, <3>2
  <2>5. QED BY <1>0, <2>1, <2>2, <2>3, <2>4, ToSetOfSeq
<1>3. Distinct(Append(s, n)) /\ ToSet(Append(s, n)) = ToSet(s) \cup {n}
  <2>1. /\ Append(s, n) \in Seq(Name) /\ Len(Append(s, n)) = Len(s) + 1
        /\ \A j \in 1..(Len(s) + 1) :
             Append(s, n)[j] = IF j < Len(s) + 1 THEN s[j]
                               ELSE IF j = Len(s) + 1 THEN n ELSE s[j - 1]
    BY <1>0
  <2>2. Len(s) + 1 \in 1..(Len(s) + 1)
    BY <1>0
  <2>3. QED BY <1>2, <2>1, <2>2
<1>4. ASSUME NEW i \in 1..(Len(s) + 1)
      PROVE  /\ Distinct(InsertAt(s, i, n))
             /\ ToSet(InsertAt(s, i, n)) = ToSet(s) \cup {n}
  <2> DEFINE a == SubSeq(s, 1, i - 1)
             b == SubSeq(s, i, Len(s))
             t == a \o <<n>> \o b
  <2>1. /\ a \in Seq(Name) /\ Len(a) = i - 1
        /\ \A j \in 1..(i - 1) : a[j] = s[j]
    BY <1>0, <1>4
  <2>2. /\ b \in Seq(Name) /\ Len(b) = Len(s) - i + 1
        /\ \A j \in 1..(Len(s) - i + 1) : b[j] = s[j + i - 1]
    BY <1>0, <1>4
  <2> HIDE DEF a, b
  <2>3. /\ t \in Seq(Name) /\ Len(t) = Len(s) + 1
        /\ \A j \in 1..(Len(s) + 1) :
             t[j] = IF j < i THEN s[j] ELSE IF j = i THEN n ELSE s[j - 1]
    <3> DEFINE c == a \o <<n>>
    <3>1. c \in Seq(Name) /\ Len(c) = i /\ \A j \in 1..i : c[j] = IF j < i THEN s[j] ELSE n
      BY <1>0, <1>4, <2>1
    <3> HIDE DEF c
    <3>2. /\ c \o b \in Seq(Name) /\ Len(c \o b) = Len(c) + Len(b)
          /\ \A j \in 1..(Len(c) + Len(b)) :
               (c \o b)[j] = IF j <= Len(c) THEN c[j] ELSE b[j - Len(c)]
      BY <2>2, <3>1, ConcatProperties
    <3>3. ASSUME NEW j \in 1..(Len(s) + 1)
          PROVE  (c \o b)[j] = IF j < i THEN s[j] ELSE IF j = i THEN n ELSE s[j - 1]
      <4>1. (c \o b)[j] = IF j <= i THEN c[j] ELSE b[j - i]
        BY <1>0, <1>4, <2>2, <3>1, <3>2
      <4>2. CASE j <= i
        BY <1>0, <1>4, <3>1, <4>1, <4>2
      <4>3. CASE j > i
        <5>1. j - i \in 1..(Len(s) - i + 1) /\ j - i + i - 1 = j - 1
          BY <1>0, <1>4, <4>3
        <5>2. b[j - i] = s[j - i + i - 1]
          BY <2>2, <5>1
        <5>3. b[j - i] = s[j - 1]
          BY <5>1, <5>2
        <5>4. ~(j <= i) /\ ~(j < i) /\ j # i
          BY <1>4, <4>3
        <5>5. QED BY <4>1, <5>3, <5>4
      <4>4. j <= i \/ j > i
        BY <1>0, <1>4
      <4>5. QED BY <4>2, <4>3, <4>4, Zenon
    <3>4. t = c \o b
      BY DEF t, c
    <3>5. Len(c) + Len(b) = Len(s) + 1
      BY <1>0, <1>4, <2>2, <3>1
    <3> HIDE DEF t
    <3>6. c \o b \in Seq(Name) /\ Len(c \o b) = Len(s) + 1
      BY <3>2, <3>5
    <3>7. QED BY <3>3, <3>4, <3>6
  <2> HIDE DEF t
  <2>4. InsertAt(s, i, n) = t
    BY DEF InsertAt, t, a, b
  <2>5. QED BY <1>2, <2>3, <2>4
<1>5. QED BY <1>3, <1>4

-----------------------------------------------------------------------------
(* Types, in three parts: Nomad, the CR, and the pass.                     *)

IsCR(c) == c \in CR /\ (c.there => c.name \in Name)

NomadTyped ==
    /\ Distinct(nodes) /\ twins \subseteq Name /\ cordoned \subseteq Name
    /\ ToSet(nodes) \cap twins = {}

CRTyped == IsCR(cr) /\ IsCR(crSeen) /\ seenFresh \in BOOLEAN

\* list, but for bound.
Listed ==
    [bound : Bounds, twins : SUBSET Name, cordoned : SUBSET Name,
     same : SUBSET Name]

\* At these calls the pass has a name at hand.
AtHand == {"delete", "create", "reget", "drive", "mirror",
           "createMark", "regetMark", "status"}

PassTyped ==
    /\ list \in Listed /\ todo \subseteq Name /\ name \in Name \cup {NoName}
    /\ IsCR(nn) /\ nnFresh \in BOOLEAN
    /\ pc \in AtHand \cup {"idle", "upsert", "mark", "prune"}
    /\ pc \in AtHand => name \in Name

Typed == NomadTyped /\ CRTyped /\ PassTyped /\ upsets \in 0..MaxUpsets

LEMMA TypedMeansTypeOK == Typed => TypeOK
<1>1. SUFFICES ASSUME Typed PROVE TypeOK
  OBVIOUS
<1>2. List = Listed
  BY DEF List, Listed, Bounds
<1>3. nodes \in Bounds
  BY <1>1, BoundsAreDistinct DEF Typed, NomadTyped
<1>4. [list EXCEPT !.bound = nodes, !.twins = twins,
                   !.cordoned = cordoned] \in Listed
  BY <1>1, <1>3 DEF Typed, NomadTyped, PassTyped, Listed
<1>5. QED
  BY <1>1, <1>2, <1>4
     DEF TypeOK, Typed, NomadTyped, CRTyped, PassTyped, IsCR, AtHand

LEMMA NewValues ==
    /\ IsCR(NoCR) /\ ~NoCR.there
    /\ \A n \in Name, b \in BOOLEAN :
         IsCR(NewCR(n, b)) /\ NewCR(n, b).there /\ NewCR(n, b).name = n
<1>1. ASSUME NEW n \in Name, NEW b \in BOOLEAN
      PROVE  IsCR(NewCR(n, b)) /\ NewCR(n, b).there /\ NewCR(n, b).name = n
  BY DEF IsCR, NewCR, CR
<1>2. IsCR(NoCR) /\ ~NoCR.there
  BY DEF IsCR, NoCR, NewCR, CR
<1>3. QED BY <1>1, <1>2

LEMMA Shown ==
    ASSUME NEW c, IsCR(c), NEW v \in {"Unknown", "Reflected", "Duplicate"}
    PROVE  /\ IsCR([c EXCEPT !.shown = v])
           /\ [c EXCEPT !.shown = v].there = c.there
           /\ [c EXCEPT !.shown = v].name = c.name
BY DEF IsCR, CR

LEMMA ListValues ==
    /\ NoList \in Listed /\ NoList.bound = <<>>
    /\ \A l \in Listed, ns \in SUBSET Name :
         /\ [l EXCEPT !.cordoned = @ \cap ns, !.same = @ \cap ns] \in Listed
         /\ [l EXCEPT !.cordoned = @ \cap ns, !.same = @ \cap ns].bound = l.bound
    /\ \A l \in Listed, n \in Name :
         /\ [l EXCEPT !.same = @ \ {n}] \in Listed
         /\ [l EXCEPT !.same = @ \ {n}].bound = l.bound
<1>1. NoList \in Listed /\ NoList.bound = <<>>
  BY DEF NoList, Listed, Bounds
<1>2. ASSUME NEW l \in Listed, NEW ns \in SUBSET Name
      PROVE  /\ [l EXCEPT !.cordoned = @ \cap ns, !.same = @ \cap ns] \in Listed
             /\ [l EXCEPT !.cordoned = @ \cap ns, !.same = @ \cap ns].bound = l.bound
  BY DEF Listed
<1>3. ASSUME NEW l \in Listed, NEW n \in Name
      PROVE  /\ [l EXCEPT !.same = @ \ {n}] \in Listed
             /\ [l EXCEPT !.same = @ \ {n}].bound = l.bound
  BY DEF Listed
<1>4. QED BY <1>1, <1>2, <1>3

-----------------------------------------------------------------------------
(* The four ways in which a pass goes on.                                  *)

LEMMA Ended ==
    ASSUME EndPass
    PROVE  /\ PassTyped' /\ pc' = "idle" /\ list' = NoList
BY NewValues, ListValues DEF EndPass, PassTyped, AtHand

LEMMA Gone ==
    ASSUME PassTyped, pc \in AtHand, NEW p \in AtHand, NEW c, IsCR(c),
           NEW f \in BOOLEAN, Goto(p, c, f)
    PROVE  /\ PassTyped' /\ pc' = p /\ name' = name /\ nnFresh' = f
           /\ nn'.there = c.there /\ nn'.name = c.name
           /\ list'.bound = list.bound
<1>1. IsCR(nn') /\ nn'.there = c.there /\ nn'.name = c.name
  BY Shown DEF Goto
<1>2. list' \in Listed /\ list'.bound = list.bound
  <2>1. PICK ns \in SUBSET Name :
          list' = [list EXCEPT !.cordoned = @ \cap ns, !.same = @ \cap ns]
    BY DEF Goto, Relist, PassTyped
  <2>2. QED BY <2>1, ListValues DEF PassTyped
<1>3. QED BY <1>1, <1>2 DEF Goto, PassTyped

LEMMA Nexted ==
    ASSUME PassTyped, NEW rest \in SUBSET Name, NextName(rest)
    PROVE  PassTyped' /\ pc' \in {"idle", "upsert", "mark"}
<1>1. CASE EndPass
  BY <1>1, Ended
<1>2. CASE ~EndPass
  <2>1. list' \in Listed
    <3>1. CASE rest = {}
      BY <1>2, <3>1, ListValues DEF NextName
    <3>2. CASE rest # {}
      BY <1>2, <3>2, ListValues DEF NextName, Relist, PassTyped
    <3>3. QED BY <3>1, <3>2
  <2>2. list.twins \subseteq Name
    BY DEF PassTyped, Listed
  <2>3. QED BY <1>2, <2>1, <2>2, NewValues DEF NextName, PassTyped, AtHand
<1>3. QED BY <1>1, <1>2

LEMMA Taken ==
    ASSUME PassTyped, CRTyped, NEW n \in todo, NEW p \in AtHand, NEW c, IsCR(c),
           Take(n, p, c)
    PROVE  /\ PassTyped' /\ pc' = p /\ name' = n /\ nnFresh' = seenFresh
           /\ nn'.there = c.there /\ nn'.name = c.name
           /\ list' = list
BY Shown DEF Take, PassTyped, CRTyped
-----------------------------------------------------------------------------
(* Whose CR the pass has in hand.                                          *)

\* Only the owner gives up a CR or creates one, and what is driven is a CR that
\* names the node or the owner's.  A CR is given up for a node that is not
\* bound, as long as the copy that says so is the stored one.
Cached == (seenFresh => crSeen = cr) /\ (cr.there \/ cr = NoCR)

HandInv ==
    /\ pc \in {"delete", "create", "reget"} => name = Owner
    /\ pc \in {"drive", "mirror"} => nn.name = name \/ name = Owner
    /\ pc \in {"drive", "mirror", "status"} => nn.there
    /\ pc = "delete" /\ nnFresh /\ cr.there => cr.name \notin Bound
    /\ pc = "prune" => list.bound = <<>>
    /\ Cached

IInv == Typed /\ HandInv

LEMMA Starts == Init => IInv
<1>1. SUFFICES ASSUME Init PROVE IInv
  OBVIOUS
<1>2. NomadTyped
  BY <1>1, InitialOrder DEF Init, NomadTyped
<1>3. CRTyped /\ PassTyped
  BY <1>1, NewValues, ListValues DEF Init, CRTyped, PassTyped, AtHand
<1>4. HandInv
  BY <1>1 DEF Init, HandInv, Cached
<1>5. upsets \in 0..MaxUpsets
  BY <1>1, ConstAssumption DEF Init, ConstAssumption
<1>6. QED BY <1>2, <1>3, <1>4, <1>5 DEF IInv, Typed

\* Nothing is at hand: the pass has ended or is about to take the next name.
LEMMA NothingAtHand ==
    ASSUME pc' \in {"idle", "upsert", "mark"}, Cached'
    PROVE  HandInv'
BY DEF HandInv

\* The calls of a pass that leave the CR alone.
LEMMA PassReads ==
    ASSUME IInv, ListNodes \/ UpsertNode \/ Reget \/ DriveDesired
                   \/ MarkDuplicates \/ RegetMarked
    PROVE  PassTyped' /\ HandInv'
<1> USE DEF IInv, Typed
<1>1. PassTyped /\ CRTyped /\ NomadTyped /\ HandInv
  OBVIOUS
<1>c. IsCR(crSeen) /\ IsCR(nn) /\ seenFresh \in BOOLEAN /\ nnFresh \in BOOLEAN
  BY <1>1 DEF CRTyped, PassTyped
<1>s. Cached /\ (seenFresh => crSeen = cr)
  BY <1>1 DEF HandInv, Cached
<1>k. UNCHANGED <<cr, crSeen, seenFresh>> => Cached'
  BY <1>s DEF Cached
<1>2. CASE ListNodes
  <2>1. list' \in Listed /\ (nodes = <<>> => list'.bound = <<>>)
    BY <1>1, <1>2, ListValues, BoundsAreDistinct, ToSetOfSeq
       DEF ListNodes, NomadTyped, Listed, Distinct
  <2>2. todo' \subseteq Name
    BY <1>1, <1>2, ToSetOfSeq DEF ListNodes, NomadTyped, Distinct
  <2>3. PassTyped'
    BY <1>1, <1>2, <2>1, <2>2 DEF ListNodes, PassTyped, AtHand
  <2>4. HandInv'
    BY <1>1, <1>2, <1>k, <2>1 DEF ListNodes, HandInv, crVars
  <2>5. QED BY <2>3, <2>4
<1>3. CASE UpsertNode
  <2>1. UNCHANGED <<cr, crSeen, seenFresh>>
    BY <1>3 DEF UpsertNode, crVars
  <2>2. PICK n \in todo :
          \/ Names(n) /\ Take(n, "drive", crSeen)
          \/ /\ ~Names(n) /\ Adoptable(n)
             /\ Take(n, IF crSeen.there THEN "delete" ELSE "create", NoCR)
          \/ ~Names(n) /\ ~Adoptable(n) /\ NextName(todo \ {n})
    BY <1>3 DEF UpsertNode
  <2>3. CASE Names(n) /\ Take(n, "drive", crSeen)
    <3>1. /\ PassTyped' /\ pc' = "drive" /\ name' = n
          /\ nn'.there = crSeen.there /\ nn'.name = crSeen.name
      BY <1>1, <1>c, <2>3, Taken DEF AtHand
    <3>2. QED BY <1>s, <1>k, <2>1, <2>3, <3>1 DEF HandInv, Names
  <2>4. CASE Adoptable(n) /\ Take(n, IF crSeen.there THEN "delete" ELSE "create", NoCR)
    <3>1. /\ PassTyped' /\ pc' = IF crSeen.there THEN "delete" ELSE "create"
          /\ name' = n /\ nnFresh' = seenFresh /\ list' = list
      BY <1>1, <2>4, Taken, NewValues DEF AtHand
    <3>2. name' = Owner'
      BY <2>4, <3>1 DEF Adoptable, Owner
    <3>3. pc' = "delete" => crSeen.name \notin Bound'
      BY <2>4, <3>1 DEF Adoptable, Bound
    <3>4. QED BY <1>s, <1>k, <2>1, <3>1, <3>2, <3>3 DEF HandInv
  <2>5. CASE NextName(todo \ {n})
    <3>1. todo \ {n} \in SUBSET Name
      BY <1>1 DEF PassTyped
    <3>2. PassTyped' /\ pc' \in {"idle", "upsert", "mark"}
      BY <1>1, <2>5, <3>1, Nexted
    <3>3. QED BY <1>s, <1>k, <2>1, <3>2, NothingAtHand
  <2>6. QED BY <2>2, <2>3, <2>4, <2>5
<1>4. CASE Reget
  <2>1. UNCHANGED <<cr, crSeen, seenFresh>>
    BY <1>4 DEF Reget, crVars
  <2>2. CASE crSeen.there
    <3>1. Goto("drive", crSeen, seenFresh) /\ pc = "reget"
      BY <1>4, <2>2 DEF Reget
    <3>2. /\ PassTyped' /\ pc' = "drive" /\ name' = name
          /\ nn'.there = crSeen.there /\ list'.bound = list.bound
      BY <1>1, <1>c, <3>1, Gone DEF AtHand
    <3>3. name' = Owner'
      BY <1>1, <3>1, <3>2 DEF HandInv, Owner
    <3>4. QED BY <1>s, <1>k, <2>1, <2>2, <3>2, <3>3 DEF HandInv
  <2>3. CASE ~crSeen.there
    <3>1. PassTyped' /\ pc' \in {"idle", "upsert", "mark"}
      BY <1>1, <1>4, <2>3, Nexted DEF Reget, PassTyped
    <3>2. QED BY <1>s, <1>k, <2>1, <3>1, NothingAtHand
  <2>4. QED BY <2>2, <2>3
<1>5. CASE DriveDesired
  <2>1. UNCHANGED <<cr, crSeen, seenFresh>> /\ pc = "drive"
    BY <1>5 DEF DriveDesired, crVars
  <2>2. CASE Goto("mirror", nn, nnFresh)
    <3>1. /\ PassTyped' /\ pc' = "mirror" /\ name' = name
          /\ nn'.there = nn.there /\ nn'.name = nn.name
          /\ list'.bound = list.bound
      BY <1>1, <1>c, <2>1, <2>2, Gone DEF AtHand
    <3>2. nn'.name = name' \/ name' = Owner'
      BY <1>1, <2>1, <3>1 DEF HandInv, Owner
    <3>3. QED BY <1>1, <1>s, <1>k, <2>1, <3>1, <3>2 DEF HandInv
  <2>3. CASE NextName(todo)
    <3>1. PassTyped' /\ pc' \in {"idle", "upsert", "mark"}
      BY <1>1, <2>3, Nexted DEF PassTyped
    <3>2. QED BY <1>s, <1>k, <2>1, <3>1, NothingAtHand
  <2>4. QED BY <1>5, <2>2, <2>3 DEF DriveDesired
<1>6. CASE MarkDuplicates
  <2>1. UNCHANGED <<cr, crSeen, seenFresh>>
    BY <1>6 DEF MarkDuplicates, crVars
  <2>2. PICK n \in todo :
          Take(n, IF crSeen.there THEN "status" ELSE "createMark", crSeen)
    BY <1>6 DEF MarkDuplicates
  <2>3. /\ PassTyped' /\ pc' = IF crSeen.there THEN "status" ELSE "createMark"
        /\ nn'.there = crSeen.there
    BY <1>1, <1>c, <2>2, Taken DEF AtHand
  <2>4. QED BY <1>s, <1>k, <2>1, <2>3 DEF HandInv
<1>7. CASE RegetMarked
  <2>1. UNCHANGED <<cr, crSeen, seenFresh>>
    BY <1>7 DEF RegetMarked, crVars
  <2>2. CASE crSeen.there
    <3>1. Goto("status", crSeen, seenFresh) /\ pc = "regetMark"
      BY <1>7, <2>2 DEF RegetMarked
    <3>2. PassTyped' /\ pc' = "status" /\ nn'.there = crSeen.there
      BY <1>1, <1>c, <3>1, Gone DEF AtHand
    <3>3. QED BY <1>s, <1>k, <2>1, <2>2, <3>2 DEF HandInv
  <2>3. CASE ~crSeen.there
    <3>1. PassTyped' /\ pc' = "idle"
      BY <1>7, <2>3, Ended DEF RegetMarked
    <3>2. QED BY <1>s, <1>k, <2>1, <3>1, NothingAtHand
  <2>4. QED BY <2>2, <2>3
<1>8. QED BY <1>2, <1>3, <1>4, <1>5, <1>6, <1>7

\* The calls that create the CR, write its status or delete it.
LEMMA PassWrites ==
    ASSUME IInv, DeleteStale \/ Mint \/ MirrorStatus \/ MintMinimal
                   \/ FlagDuplicate \/ PruneAbsent
    PROVE  CRTyped' /\ PassTyped' /\ HandInv'
<1> USE DEF IInv, Typed
<1>1. PassTyped /\ CRTyped /\ HandInv
  OBVIOUS
<1>c. IsCR(cr) /\ IsCR(crSeen) /\ IsCR(nn) /\ seenFresh \in BOOLEAN
  BY <1>1 DEF CRTyped, PassTyped
<1>s. Cached /\ (seenFresh => crSeen = cr)
  BY <1>1 DEF HandInv, Cached
<1>k. UNCHANGED <<cr, crSeen, seenFresh>> => Cached'
  BY <1>s DEF Cached
<1>2. ASSUME NEW c, IsCR(c), NEW p \in AtHand, NEW r \in AtHand,
             c.there, Create(c, p, r), pc \in AtHand, UNCHANGED crSeen
      PROVE  /\ CRTyped' /\ PassTyped' /\ Cached'
             /\ name' = name /\ list'.bound = list.bound
             /\ \/ pc' = p /\ nn'.there = c.there /\ nn'.name = c.name
                \/ pc' = r
  <2>1. CASE ~cr.there
    <3>1. cr' = c /\ seenFresh' = FALSE /\ Goto(p, c, TRUE)
      BY <1>2, <2>1 DEF Create
    <3>2. CRTyped'
      BY <1>c, <1>2, <3>1 DEF CRTyped
    <3>3. Cached'
      BY <1>2, <3>1 DEF Cached
    <3>4. QED BY <1>1, <1>2, <3>1, <3>2, <3>3, Gone
  <2>2. CASE cr.there
    <3>1. UNCHANGED <<cr, seenFresh>> /\ Goto(r, NoCR, FALSE)
      BY <1>2, <2>2 DEF Create
    <3>2. CRTyped'
      BY <1>c, <1>2, <3>1 DEF CRTyped
    <3>3. QED BY <1>1, <1>2, <1>k, <3>1, <3>2, Gone, NewValues
  <2>3. QED BY <2>1, <2>2
<1>3. ASSUME pc \in {"mirror", "status"}, NEW v \in {"Unknown", "Reflected", "Duplicate"}, UpdateStatus(v),
             UNCHANGED crSeen
      PROVE  CRTyped' /\ Cached'
  <2>1. nn.there
    BY <1>1, <1>3 DEF HandInv
  <2>2. IsCR([nn EXCEPT !.shown = v]) /\ [nn EXCEPT !.shown = v].there
    BY <1>c, <2>1, Shown
  <2>3. CASE nnFresh
    <3>1. IsCR(cr') /\ cr'.there
      BY <1>3, <2>2, <2>3 DEF UpdateStatus
    <3>2. seenFresh' = (seenFresh /\ cr' = cr)
      BY <1>3, <2>3 DEF UpdateStatus
    <3>3. QED BY <1>c, <1>s, <1>3, <3>1, <3>2 DEF CRTyped, Cached
  <2>4. CASE ~nnFresh
    BY <1>c, <1>s, <1>3, <2>4 DEF UpdateStatus, CRTyped, Cached
  <2>5. QED BY <2>3, <2>4
<1>4. CASE DeleteStale
  <2>1. pc = "delete" /\ Goto("create", NoCR, FALSE) /\ UNCHANGED crSeen
    BY <1>4 DEF DeleteStale
  <2>2. /\ PassTyped' /\ pc' = "create" /\ name' = name
        /\ list'.bound = list.bound
    BY <1>1, <2>1, Gone, NewValues DEF AtHand
  <2>3. CRTyped' /\ Cached'
    BY <1>4, <1>c, <1>s, NewValues DEF DeleteStale, DeleteStored, CRTyped, Cached
  <2>4. name' = Owner'
    BY <1>1, <2>1, <2>2 DEF HandInv, Owner
  <2>5. QED BY <2>2, <2>3, <2>4 DEF HandInv
<1>5. CASE Mint
  <2> DEFINE c == NewCR(name, name \in list.cordoned)
  <2>1. pc = "create" /\ Create(c, "drive", "reget") /\ UNCHANGED crSeen
    BY <1>5 DEF Mint
  <2>2. IsCR(c) /\ c.there /\ c.name = name
    BY <1>1, <2>1 DEF PassTyped, AtHand, IsCR, NewCR, CR
  <2> HIDE DEF c
  <2>3. /\ CRTyped' /\ PassTyped' /\ Cached'
        /\ name' = name /\ list'.bound = list.bound
        /\ \/ pc' = "drive" /\ nn'.there = c.there /\ nn'.name = c.name
           \/ pc' = "reget"
    BY <1>2, <2>1, <2>2 DEF AtHand
  <2>4. name' = Owner'
    BY <1>1, <2>1, <2>3 DEF HandInv, Owner
  <2>5. QED BY <2>2, <2>3, <2>4 DEF HandInv
<1>6. CASE MirrorStatus
  <2>1. pc = "mirror" /\ UpdateStatus("Reflected") /\ NextName(todo) /\ UNCHANGED crSeen
    BY <1>6 DEF MirrorStatus
  <2>2. PassTyped' /\ pc' \in {"idle", "upsert", "mark"}
    BY <1>1, <2>1, Nexted DEF PassTyped
  <2>3. CRTyped' /\ Cached'
    BY <1>3, <2>1
  <2>4. QED BY <2>2, <2>3, NothingAtHand
<1>7. CASE MintMinimal
  <2> DEFINE c == NewCR(name, TRUE)
  <2>1. pc = "createMark" /\ Create(c, "status", "regetMark") /\ UNCHANGED crSeen
    BY <1>7 DEF MintMinimal
  <2>2. IsCR(c) /\ c.there
    BY <1>1, <2>1, NewValues DEF PassTyped, AtHand
  <2> HIDE DEF c
  <2>3. /\ CRTyped' /\ PassTyped' /\ Cached'
        /\ \/ pc' = "status" /\ nn'.there = c.there
           \/ pc' = "regetMark"
    BY <1>2, <2>1, <2>2 DEF AtHand
  <2>4. QED BY <2>2, <2>3 DEF HandInv
<1>8. CASE FlagDuplicate
  <2>1. pc = "status" /\ UpdateStatus("Duplicate") /\ UNCHANGED crSeen
    BY <1>8 DEF FlagDuplicate
  <2>2. PassTyped' /\ pc' \in {"idle", "upsert", "mark"}
    <3>1. CASE nnFresh
      BY <1>1, <1>8, <3>1, Nexted DEF FlagDuplicate, PassTyped
    <3>2. CASE ~nnFresh
      BY <1>8, <3>2, Ended DEF FlagDuplicate
    <3>3. QED BY <3>1, <3>2
  <2>3. CRTyped' /\ Cached'
    BY <1>3, <2>1
  <2>4. QED BY <2>2, <2>3, NothingAtHand
<1>9. CASE PruneAbsent
  <2>1. PassTyped' /\ pc' = "idle"
    BY <1>9, Ended DEF PruneAbsent
  <2>2. CRTyped' /\ Cached'
    BY <1>9, <1>c, <1>s, NewValues DEF PruneAbsent, DeleteStored, CRTyped, Cached
  <2>3. QED BY <2>1, <2>2, NothingAtHand
<1>10. QED BY <1>4, <1>5, <1>6, <1>7, <1>8, <1>9
-----------------------------------------------------------------------------
(* Nomad's nodes, the users and the cache.                                 *)

\* What a node does leaves the pass and the CR alone, but for list.same.
LEMMA NodesStep ==
    ASSUME IInv, NEW n \in Name, NodeStep(n)
    PROVE  CRTyped' /\ PassTyped' /\ HandInv' /\ upsets' \in 0..MaxUpsets
<1> USE DEF IInv, Typed
<1>1. PassTyped /\ CRTyped /\ HandInv
  OBVIOUS
<1>2. list' \in Listed /\ list'.bound = list.bound
  BY <1>1, ListValues DEF NodeStep, PassTyped
<1>3. CRTyped' /\ PassTyped'
  BY <1>1, <1>2 DEF NodeStep, CRTyped, PassTyped, crVars
<1>4. Bound' = Bound /\ Owner' = Owner
  BY <1>2 DEF Bound, Owner
<1>5. HandInv'
  BY <1>1, <1>2, <1>4 DEF NodeStep, HandInv, Cached, crVars
<1>6. upsets' \in 0..MaxUpsets
  BY ConstAssumption DEF NodeStep, Upset, ConstAssumption
<1>7. QED BY <1>3, <1>5, <1>6

LEMMA NodesTyped ==
    ASSUME NomadTyped, NEW n \in Name,
           Register(n) \/ Deregister(n) \/ Twin(n) \/ Untwin(n)
    PROVE  NomadTyped' /\ NodeStep(n)
<1> DEFINE s == RemoveFirst(nodes, n)
<1>1. /\ Distinct(nodes) /\ twins \subseteq Name /\ cordoned \subseteq Name
      /\ ToSet(nodes) \cap twins = {}
  BY DEF NomadTyped
<1>2. Distinct(s) /\ ToSet(s) = ToSet(nodes) \ {n}
  BY <1>1, TakenOut
<1> HIDE DEF s
<1>3. Distinct(Append(s, n)) /\ ToSet(Append(s, n)) = ToSet(s) \cup {n}
  BY <1>2, PutIn
<1>4. CASE Register(n)
  BY <1>1, <1>2, <1>3, <1>4 DEF Register, NomadTyped, s
<1>5. CASE Deregister(n)
  BY <1>1, <1>2, <1>5 DEF Deregister, NomadTyped, s
<1>6. CASE Twin(n)
  BY <1>1, <1>2, <1>6 DEF Twin, NomadTyped, s
<1>7. CASE Untwin(n)
  <2>1. n \notin ToSet(nodes)
    BY <1>1, <1>7 DEF Untwin
  <2>2. PICK i \in 1..(Len(nodes) + 1) : nodes' = InsertAt(nodes, i, n)
    BY <1>7 DEF Untwin
  <2>3. Distinct(nodes') /\ ToSet(nodes') = ToSet(nodes) \cup {n}
    BY <1>1, <2>1, <2>2, PutIn
  <2>4. QED BY <1>1, <1>7, <2>3 DEF Untwin, NomadTyped
<1>8. QED BY <1>4, <1>5, <1>6, <1>7

\* The pass, and calls that fail, leave the nodes alone, but for the cordon.
LEMMA NomadKept ==
    ASSUME IInv, Steps \/ Fault
    PROVE  NomadTyped'
<1>1. NomadTyped /\ (pc \in AtHand => name \in Name)
  BY DEF IInv, Typed, PassTyped
<1>2. CASE DriveDesired
  <2>1. pc \in AtHand
    BY <1>2 DEF DriveDesired, AtHand
  <2>2. cordoned' \subseteq Name
    BY <1>1, <1>2, <2>1 DEF DriveDesired, NomadTyped
  <2>3. QED BY <1>1, <1>2, <2>2 DEF DriveDesired, NomadTyped
<1>3. CASE ~DriveDesired
  <2>1. UNCHANGED nomadVars
    BY <1>3
       DEF Steps, Fault, ListNodes, UpsertNode, DeleteStale, Mint, Reget,
           MirrorStatus, MarkDuplicates, MintMinimal, RegetMarked,
           FlagDuplicate, PruneAbsent
  <2>2. QED BY <1>1, <2>1 DEF nomadVars, NomadTyped
<1>4. QED BY <1>2, <1>3

LEMMA Kept == IInv /\ [Next]_vars => IInv'
<1>1. SUFFICES ASSUME IInv, [Next]_vars PROVE IInv'
  OBVIOUS
<1>t. /\ NomadTyped /\ CRTyped /\ PassTyped /\ upsets \in 0..MaxUpsets
      /\ HandInv /\ Cached
  BY <1>1 DEF IInv, Typed, HandInv
<1> USE DEF IInv, Typed
<1>2. CASE Pass
  <2>1. NomadTyped' /\ upsets' \in 0..MaxUpsets
    BY <1>1, <1>2, <1>t, NomadKept DEF Pass
  <2>2. CASE ListNodes \/ UpsertNode \/ Reget \/ DriveDesired
               \/ MarkDuplicates \/ RegetMarked
    <3>1. UNCHANGED crVars
      BY <2>2 DEF ListNodes, UpsertNode, Reget, DriveDesired, MarkDuplicates,
                  RegetMarked
    <3>2. CRTyped'
      BY <1>t, <3>1 DEF CRTyped, crVars
    <3>3. QED BY <1>1, <2>1, <2>2, <3>2, PassReads
  <2>3. CASE DeleteStale \/ Mint \/ MirrorStatus \/ MintMinimal
               \/ FlagDuplicate \/ PruneAbsent
    BY <1>1, <2>1, <2>3, PassWrites
  <2>4. QED BY <1>2, <2>2, <2>3 DEF Pass, Steps
<1>3. CASE Fault
  <2>1. UNCHANGED crVars /\ UNCHANGED upsets
    BY <1>3 DEF Fault
  <2>2. NomadTyped' /\ CRTyped' /\ Cached'
    BY <1>1, <1>3, <1>t, <2>1, NomadKept DEF CRTyped, crVars, Cached
  <2>3. PassTyped' /\ pc' \in {"idle", "upsert", "mark"}
    <3>1. CASE EndPass
      BY <3>1, Ended
    <3>2. CASE NextName(todo)
      BY <1>t, <3>2, Nexted DEF PassTyped
    <3>3. QED BY <1>3, <3>1, <3>2 DEF Fault
  <2>4. QED BY <1>t, <2>1, <2>2, <2>3, NothingAtHand
<1>4. CASE Nodes
  BY <1>1, <1>4, <1>t, NodesTyped, NodesStep DEF Nodes
<1>5. CASE SyncCR
  BY <1>5, <1>t
     DEF SyncCR, NomadTyped, CRTyped, PassTyped, HandInv, Cached, Owner, Bound,
         nomadVars, passVars
<1>6. CASE Users
  <2>1. /\ IsCR(cr') /\ (cr'.there \/ cr' = NoCR)
    BY <1>6, <1>t, NewValues DEF Users, EditCR, DeleteCR, OtherWrites, IsCR, CR, CRTyped
  <2>2. PICK c : OtherWrites(c)
    BY <1>6 DEF Users, EditCR, DeleteCR
  <2>3. upsets' \in 0..MaxUpsets
    BY <1>t, <2>2, ConstAssumption DEF OtherWrites, Upset, ConstAssumption
  <2>4. NomadTyped' /\ CRTyped' /\ PassTyped'
    BY <1>t, <2>1, <2>2
       DEF OtherWrites, nomadVars, NomadTyped, CRTyped, PassTyped
  <2>5. HandInv'
    BY <1>t, <2>1, <2>2 DEF OtherWrites, HandInv, Cached, Owner
  <2>6. QED BY <2>3, <2>4, <2>5
<1>7. CASE UNCHANGED vars
  BY <1>7, <1>t
     DEF vars, NomadTyped, CRTyped, PassTyped, HandInv, Cached, Owner, Bound,
         nomadVars, crVars, passVars
<1>8. QED BY <1>1, <1>2, <1>3, <1>4, <1>5, <1>6, <1>7 DEF Next

\* The inductive invariant: types, whose CR is in hand, and what a cached copy
\* is worth.
THEOREM InvHolds == Spec => []IInv
<1>1. QED BY Starts, Kept, PTL DEF Spec

\* Every variable has its type; no name is both bound and ambiguous, and no
\* node is kept twice (bindNodes).
THEOREM TypeCorrect == Spec => []TypeOK
<1>1. IInv => TypeOK
  BY TypedMeansTypeOK DEF IInv
<1>2. QED BY <1>1, InvHolds, PTL

\* Eligibility is set, and status written, on account of a CR that names the
\* node, or by the owner: a name that has lost the object name leaves the CR of
\* another alone (upsertNode, resolveCollisionOwners).
THEOREM LosersLeaveItAlone == Spec => LoserLeftAlone
<1>1. IInv => (Pass /\ pc \in {"drive", "mirror"} /\ (cordoned' # cordoned \/ cr' # cr)
                 => nn.name = name \/ name = Owner)
  BY DEF IInv, HandInv
<1>2. QED BY <1>1, InvHolds, PTL DEF LoserLeftAlone

\* A CR is not given up while its own node is bound, unless the pass has read
\* an outdated copy (the adoption in upsertNode, pruneAbsent).
THEOREM OwnersKeepTheirCR == Spec => OwnerKeepsCR
<1>1. IInv => (Pass /\ cr.there /\ ~cr'.there /\ nnFresh => cr.name \notin Bound)
  <2>1. SUFFICES ASSUME IInv, Pass, cr.there, ~cr'.there, nnFresh
                 PROVE  cr.name \notin Bound
    OBVIOUS
  <2>2. HandInv /\ PassTyped
    BY <2>1 DEF IInv, Typed
  <2>3. CASE pc = "delete"
    BY <2>1, <2>2, <2>3 DEF HandInv
  <2>4. CASE pc = "prune"
    BY <2>2, <2>4, ToSetOfNone DEF HandInv, Bound
  <2>5. CASE pc \in {"mirror", "status"}
    <3>1. nn.there /\ IsCR(nn)
      BY <2>2, <2>5 DEF HandInv, PassTyped
    <3>2. PICK v \in {"Reflected", "Duplicate"} : UpdateStatus(v)
      BY <2>1, <2>5
         DEF Pass, Steps, ListNodes, UpsertNode, DeleteStale, Mint, Reget,
             DriveDesired, MirrorStatus, MarkDuplicates, MintMinimal,
             RegetMarked, FlagDuplicate, PruneAbsent
    <3>3. [nn EXCEPT !.shown = v].there
      BY <3>1, <3>2, Shown
    <3>4. QED BY <2>1, <3>2, <3>3 DEF UpdateStatus
  <2>6. CASE pc \notin {"delete", "prune", "mirror", "status"}
    BY <2>1, <2>6
       DEF Pass, Steps, ListNodes, UpsertNode, DeleteStale, Mint, Reget,
           DriveDesired, MirrorStatus, MarkDuplicates, MintMinimal,
           RegetMarked, FlagDuplicate, PruneAbsent, Create, crVars
  <2>7. QED BY <2>3, <2>4, <2>5, <2>6
<1>2. QED BY <1>1, InvHolds, PTL DEF OwnerKeepsCR
=============================================================================
