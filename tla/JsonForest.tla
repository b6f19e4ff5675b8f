----------------------------- MODULE JsonForest -----------------------------
(***************************************************************************)
(* What the operators of JsonItems make of a heap that is a forest.  Its   *)
(* shape is described by a function P from the items to the parent each    *)
(* has in a list of children, or in a list that is going to be one; every  *)
(* lemma says how an operator changes the roots and P.                     *)
(***************************************************************************)
EXTENDS JsonItems, FiniteSetTheorems, SequenceTheorems, FunctionTheorems,
        NaturalsInduction, WellFoundedInduction, TLAPS

\* The links lead to items, siblings have one parent, and prev is the way back:
\* from the first child to a last one.
Linked(h, P) ==
    /\ P \in [DOMAIN h -> Ptrs]
    /\ \A i \in DOMAIN h :
          LET child == h[i].child
              next  == h[i].next
          IN /\ child # NULL =>
                   /\ child \in DOMAIN h /\ P[child] = i
                   /\ h[child].prev \in DOMAIN h /\ P[h[child].prev] = i
                   /\ h[h[child].prev].next = NULL
             /\ next # NULL =>
                   next \in DOMAIN h /\ P[next] = P[i] /\ h[next].prev = i
IsHeap(h) == DOMAIN h \subseteq Ids /\ h \in [DOMAIN h -> Item]
\* Nothing points at a root, and everything hangs below one.
Rooted(h, R) ==
    /\ R \subseteq DOMAIN h
    /\ \A r \in R, i \in DOMAIN h : r # h[i].child /\ r # h[i].next
    /\ Reached(h, R) = DOMAIN h
Forest(h, R, P) == IsHeap(h) /\ Linked(h, P) /\ Rooted(h, R)

-----------------------------------------------------------------------------
(***************************************************************************)
(* Reachability.                                                           *)
(***************************************************************************)
\* What cJSON_Delete visits is the least set of items with the first ones and
\* whatever an item of it points at.
LEMMA ReachedFacts ==
    ASSUME NEW h, NEW F
    PROVE  /\ Reached(h, F) \subseteq DOMAIN h
           /\ F \cap DOMAIN h \subseteq Reached(h, F)
           /\ Closed(h, Reached(h, F))
           /\ \A S \in SUBSET DOMAIN h :
                 F \cap DOMAIN h \subseteq S /\ Closed(h, S) => Reached(h, F) \subseteq S
<1>1. Closed(h, Reached(h, F))
  BY DEF Reached, Closed
<1> QED
  BY <1>1 DEF Reached

\* Only one item points at another: the predecessor and the parent of an item
\* are not two.
LEMMA OnePointer ==
    ASSUME NEW h, NEW P, IsHeap(h), Linked(h, P),
           NEW i \in DOMAIN h, NEW j \in DOMAIN h, NEW y \in DOMAIN h,
           y \in {h[i].child, h[i].next}, y \in {h[j].child, h[j].next}
    PROVE  i = j
<1>1. y # NULL
  BY DEF IsHeap, Ids, NULL
<1> QED
  BY <1>1 DEF Linked

\* Nothing outside the tree of a root points into it.
LEMMA ClosedTree ==
    ASSUME NEW h, NEW R, NEW P, Forest(h, R, P), NEW r \in R
    PROVE  \A i \in DOMAIN h : {h[i].child, h[i].next} \cap Reached(h, {r}) # {}
               => i \in Reached(h, {r})
<1> DEFINE T == Reached(h, {r})
           S == {j \in T : \A i \in DOMAIN h : j \in {h[i].child, h[i].next} => i \in T}
<1>1. T \subseteq DOMAIN h /\ r \in T /\ Closed(h, T)
  BY ReachedFacts DEF Forest, Rooted
<1>2. r \in S
  BY <1>1 DEF Forest, Rooted
<1>3. Closed(h, S)
  <2>1. ASSUME NEW x \in S, NEW y \in {h[x].child, h[x].next} \cap DOMAIN h
        PROVE  y \in S
    <3>1. y \in T
      BY <1>1, <2>1 DEF Closed
    <3>2. ASSUME NEW i \in DOMAIN h, y \in {h[i].child, h[i].next} PROVE i \in T
      BY <1>1, <2>1, <3>2, OnePointer DEF Forest
    <3> QED BY <3>1, <3>2
  <2> QED BY <2>1 DEF Closed
<1>4. T \subseteq S
  <2> HIDE DEF S, T
  <2>1. S \subseteq DOMAIN h BY <1>1 DEF S
  <2> QED BY <1>2, <1>3, <2>1, ReachedFacts DEF T
<1> QED
  BY <1>4

\* The trees of two roots have nothing in common.
LEMMA DisjointTrees ==
    ASSUME NEW h, NEW R, NEW P, Forest(h, R, P), NEW r \in R, NEW s \in R, r # s
    PROVE  Reached(h, {r}) \cap Reached(h, {s}) = {}
<1> DEFINE T == Reached(h, {r})
           U == Reached(h, {s})
<1>1. /\ T \subseteq DOMAIN h /\ r \in T /\ Closed(h, T)
      /\ U \subseteq DOMAIN h /\ s \in U /\ Closed(h, U)
  BY ReachedFacts DEF Forest, Rooted
<1>2. s \notin T
  <2>1. Closed(h, T \ {s})
    BY <1>1 DEF Closed, Forest, Rooted
  <2>2. {r} \cap DOMAIN h \subseteq T \ {s} /\ T \ {s} \in SUBSET DOMAIN h
    BY <1>1
  <2> HIDE DEF T
  <2>3. T \subseteq T \ {s}
    BY <2>1, <2>2, ReachedFacts DEF T
  <2> QED BY <2>3
<1>3. Closed(h, U \ T)
  <2> HIDE DEF T, U
  <2>1. \A i \in DOMAIN h : {h[i].child, h[i].next} \cap T # {} => i \in T
    BY ClosedTree DEF T
  <2> QED BY <1>1, <2>1 DEF Closed
<1>4. U \subseteq U \ T
  <2>1. {s} \cap DOMAIN h \subseteq U \ T /\ U \ T \in SUBSET DOMAIN h
    BY <1>1, <1>2
  <2> HIDE DEF T, U
  <2> QED BY <1>3, <2>1, ReachedFacts DEF U
<1> QED BY <1>4

\* A set of items that has the roots and is closed has all.
LEMMA ReachesAll ==
    ASSUME NEW h, NEW R, NEW P, Forest(h, R, P),
           NEW S \in SUBSET DOMAIN h, R \subseteq S, Closed(h, S)
    PROVE  S = DOMAIN h
BY ReachedFacts DEF Forest, Rooted

\* No item is below or behind one that it points at.
LEMMA NoReturn ==
    ASSUME NEW h, NEW R, NEW P, Forest(h, R, P), NEW a \in DOMAIN h, NEW i \in DOMAIN h,
           i \in {h[a].child, h[a].next}
    PROVE  a \notin Reached(h, {i})
<1> DEFINE C == Reached(h, {i})
           B == {x \in C : x = i \/ \E y \in C : x \in {h[y].child, h[y].next}}
<1>1. C \subseteq DOMAIN h /\ i \in C /\ Closed(h, C)
  BY ReachedFacts
<1>2. C \subseteq B
  <2>1. {i} \cap DOMAIN h \subseteq B /\ B \in SUBSET DOMAIN h /\ Closed(h, B)
    BY <1>1 DEF Closed
  <2> HIDE DEF B, C
  <2> QED BY <2>1, ReachedFacts DEF C
<1> SUFFICES ASSUME a \in C PROVE FALSE
  OBVIOUS
<1>3. Closed(h, DOMAIN h \ C)
  <2>1. ASSUME NEW x \in DOMAIN h \ C, NEW y \in {h[x].child, h[x].next} \cap C
        PROVE  FALSE
    <3>1. PICK z \in C : y \in {h[z].child, h[z].next}
      BY <1>2
    <3>2. x = z
      BY <1>1, <3>1, OnePointer DEF Forest
    <3> QED BY <3>1, <3>2
  <2> HIDE DEF C
  <2> QED BY <2>1 DEF Closed
<1>4. R \subseteq DOMAIN h \ C
  BY <1>1, <1>2 DEF Forest, Rooted
<1>5. DOMAIN h \ C = DOMAIN h
  <2> HIDE DEF C
  <2> QED BY <1>3, <1>4, ReachesAll
<1> QED BY <1>1, <1>5

\* A first child is nobody's next.
LEMMA ChildNotNext ==
    ASSUME NEW h, NEW P, IsHeap(h), Linked(h, P), NEW i \in DOMAIN h, NEW j \in DOMAIN h,
           h[i].child # NULL
    PROVE  h[i].child # h[j].next
BY DEF Linked

-----------------------------------------------------------------------------
(***************************************************************************)
(* How the roots change.  `g` is the heap after a step.                    *)
(***************************************************************************)
SameLinks(h, g, i) == g[i].child = h[i].child /\ g[i].next = h[i].next
\* In g the item a points at r where it pointed at `after`.
Redirects(h, g, a, after, r) ==
    \/ h[a].child = after /\ g[a].child = r /\ g[a].next = h[a].next
    \/ h[a].next = after /\ g[a].next = r /\ g[a].child = h[a].child

\* A root is put behind, or below, an item that is not in its tree, and what
\* was there follows the root.
LEMMA AttachRooted ==
    ASSUME NEW h, NEW R, NEW P, Forest(h, R, P), NEW r \in R,
           NEW a \in DOMAIN h, a \notin Reached(h, {r}),
           NEW g, DOMAIN g = DOMAIN h, NEW after,
           \A i \in DOMAIN h \ {a, r} : SameLinks(h, g, i),
           Redirects(h, g, a, after, r), g[r].child = h[r].child,
           \/ h[r].next = NULL /\ g[r].next = after
           \/ after = NULL /\ g[r].next = h[r].next
    PROVE  Rooted(g, R \ {r})
<1> DEFINE T == Reached(h, {r})
<1>1. T \subseteq DOMAIN h /\ r \in T /\ Closed(h, T) /\ R \subseteq DOMAIN h
  BY ReachedFacts DEF Forest, Rooted
<1>0. NULL \notin DOMAIN h
  BY DEF Forest, IsHeap, Ids, NULL
<1>2. ASSUME NEW S \in SUBSET DOMAIN h, R \ {r} \subseteq S, Closed(g, S)
      PROVE  S = DOMAIN h
  <2>1. Closed(h, S \cup T)
    <3> HIDE DEF T
    <3>1. ASSUME NEW i \in S, NEW j \in {h[i].child, h[i].next} \cap DOMAIN h
          PROVE  j \in S \cup T
      <4>1. CASE i \notin {a, r} BY <1>2, <3>1, <4>1 DEF Closed, SameLinks
      <4>2. CASE i = r BY <1>1, <3>1, <4>2 DEF Closed
      <4>3. CASE i = a
        <5>1. r \in S BY <1>1, <1>2, <4>3 DEF Closed, Redirects
        <5>2. after \in DOMAIN h => after \in S BY <1>0, <1>2, <5>1 DEF Closed
        <5> QED BY <1>1, <1>2, <3>1, <4>3, <5>2 DEF Closed, Redirects
      <4> QED BY <4>1, <4>2, <4>3
    <3> QED BY <1>1, <3>1 DEF Closed
  <2>2. S \cup T = DOMAIN h
    <3> HIDE DEF T
    <3> QED BY <1>1, <1>2, <2>1, ReachesAll
  <2>3. r \in S
    BY <1>1, <1>2, <2>2 DEF Closed, Redirects
  <2>4. Closed(h, S \cap T)
    <3> HIDE DEF T
    <3>1. a \notin T BY DEF T
    <3> QED BY <1>0, <1>1, <1>2, <3>1 DEF Closed, SameLinks
  <2>5. T \subseteq S \cap T
    <3>1. {r} \cap DOMAIN h \subseteq S \cap T /\ S \cap T \in SUBSET DOMAIN h
      BY <1>1, <2>3
    <3> HIDE DEF T
    <3> QED BY <2>4, <3>1, ReachedFacts DEF T
  <2> QED BY <2>2, <2>5
<1>3. Reached(g, R \ {r}) = DOMAIN h
  <2>1. /\ Reached(g, R \ {r}) \in SUBSET DOMAIN h
        /\ (R \ {r}) \cap DOMAIN h \subseteq Reached(g, R \ {r})
        /\ Closed(g, Reached(g, R \ {r}))
    BY ReachedFacts
  <2> QED BY <1>1, <1>2, <2>1
<1>4. \A s \in R \ {r}, i \in DOMAIN h : s # g[i].child /\ s # g[i].next
  BY <1>0, <1>1 DEF Redirects, SameLinks, Forest, Rooted
<1> QED
  BY <1>1, <1>3, <1>4 DEF Rooted

\* An item is taken out of its list and made a root.
LEMMA DetachRooted ==
    ASSUME NEW h, NEW R, NEW P, Forest(h, R, P), NEW r \in DOMAIN h,
           NEW a \in DOMAIN h, NEW g, DOMAIN g = DOMAIN h,
           \A i \in DOMAIN h \ {a, r} : SameLinks(h, g, i),
           Redirects(h, g, a, r, h[r].next),
           g[r].child = h[r].child, g[r].next = NULL
    PROVE  Rooted(g, R \cup {r})
<1> DEFINE n == h[r].next
           T == Reached(h, {n})
<1>0. NULL \notin DOMAIN h /\ R \subseteq DOMAIN h
  BY DEF Forest, IsHeap, Ids, NULL, Rooted
<1>1. T \subseteq DOMAIN h /\ (n \in DOMAIN h => n \in T) /\ Closed(h, T)
  BY ReachedFacts
<1>2. r \in {h[a].child, h[a].next}
  BY DEF Redirects
<1>3. a \notin Reached(h, {r})
  BY <1>2, NoReturn
<1>4. T \subseteq Reached(h, {r})
  <2>1. /\ Reached(h, {r}) \in SUBSET DOMAIN h /\ r \in Reached(h, {r})
        /\ Closed(h, Reached(h, {r}))
    BY ReachedFacts
  <2>2. {n} \cap DOMAIN h \subseteq Reached(h, {r})
    BY <2>1 DEF Closed
  <2> HIDE DEF n
  <2> QED BY <2>1, <2>2, ReachedFacts
<1>5. a \notin T /\ a # r
  <2>1. r \in Reached(h, {r}) BY ReachedFacts
  <2> QED BY <1>3, <1>4, <2>1
<1>6. r \notin T
  <2>1. CASE n \in DOMAIN h BY <2>1, NoReturn
  <2>2. CASE n \notin DOMAIN h
    <3>1. {n} \cap DOMAIN h \subseteq {} /\ Closed(h, {}) BY <2>2 DEF Closed
    <3> HIDE DEF n
    <3>2. T \subseteq {} BY <3>1, ReachedFacts
    <3> QED BY <3>2
  <2> QED BY <2>1, <2>2
<1>7. ASSUME NEW S \in SUBSET DOMAIN h, R \cup {r} \subseteq S, Closed(g, S)
      PROVE  S = DOMAIN h
  <2> HIDE DEF T
  <2>1. Closed(h, S \cup T)
    <3>1. ASSUME NEW i \in S, NEW j \in {h[i].child, h[i].next} \cap DOMAIN h
          PROVE  j \in S \cup T
      <4>1. CASE i \notin {a, r} BY <1>7, <3>1, <4>1 DEF Closed, SameLinks
      <4>2. CASE i = r BY <1>1, <1>7, <3>1, <4>2 DEF Closed
      <4>3. CASE i = a BY <1>7, <3>1, <4>3 DEF Closed, Redirects
      <4> QED BY <4>1, <4>2, <4>3
    <3> QED BY <1>1, <3>1 DEF Closed
  <2>2. S \cup T = DOMAIN h
    BY <1>1, <1>7, <2>1, ReachesAll
  <2>3. n \in DOMAIN h => n \in S
    BY <1>5, <1>7, <2>2 DEF Closed, Redirects
  <2>4. Closed(h, S \cap T)
    BY <1>1, <1>5, <1>6, <1>7 DEF Closed, SameLinks
  <2>5. T \subseteq S \cap T
    <3>1. {n} \cap DOMAIN h \subseteq S \cap T /\ S \cap T \in SUBSET DOMAIN h
      BY <1>1, <2>3
    <3> HIDE DEF n
    <3> QED BY <2>4, <3>1, ReachedFacts DEF T
  <2> QED BY <2>2, <2>5
<1>8. Reached(g, R \cup {r}) = DOMAIN h
  <2>1. /\ Reached(g, R \cup {r}) \in SUBSET DOMAIN h
        /\ (R \cup {r}) \cap DOMAIN h \subseteq Reached(g, R \cup {r})
        /\ Closed(g, Reached(g, R \cup {r}))
    BY ReachedFacts
  <2> QED BY <1>0, <1>7, <2>1
<1>9. \A s \in R, i \in DOMAIN h : s # g[i].child /\ s # g[i].next
  BY <1>0 DEF Redirects, SameLinks, Forest, Rooted
<1>10. ASSUME NEW i \in DOMAIN h PROVE r # g[i].child /\ r # g[i].next
  <2>1. n # r
    BY <1>1, <1>6
  <2>2. h[a].child # h[a].next
    BY <1>0, <1>2, ChildNotNext DEF Forest
  <2>3. CASE i = a BY <1>2, <2>1, <2>2, <2>3 DEF Redirects
  <2>4. CASE i = r
    <3>1. r \in Reached(h, {r}) BY ReachedFacts
    <3>2. r # h[r].child BY <3>1, NoReturn
    <3> QED BY <1>0, <2>4, <3>2
  <2>5. CASE i \notin {a, r}
    BY <1>2, <2>5, OnePointer DEF SameLinks, Forest
  <2> QED BY <2>3, <2>4, <2>5
<1> QED
  BY <1>0, <1>8, <1>9, <1>10 DEF Rooted

\* A new item is nobody's.
LEMMA NewRooted ==
    ASSUME NEW h, NEW R, NEW P, Forest(h, R, P), NEW r \in Ids \ DOMAIN h,
           NEW g, DOMAIN g = DOMAIN h \cup {r}, \A i \in DOMAIN h : g[i] = h[i],
           g[r].child = NULL, g[r].next = NULL
    PROVE  Rooted(g, R \cup {r})
<1>0. NULL \notin DOMAIN g /\ R \subseteq DOMAIN h /\ r # NULL
  BY DEF Forest, IsHeap, Ids, NULL, Rooted
<1>1. ASSUME NEW S \in SUBSET DOMAIN g, R \cup {r} \subseteq S, Closed(g, S)
      PROVE  S = DOMAIN g
  <2>1. Closed(h, S \cap DOMAIN h) /\ R \subseteq S \cap DOMAIN h
    BY <1>0, <1>1 DEF Closed
  <2>2. S \cap DOMAIN h = DOMAIN h
    BY <2>1, ReachesAll
  <2> QED BY <1>1, <2>2
<1>2. Reached(g, R \cup {r}) = DOMAIN g
  <2>1. /\ Reached(g, R \cup {r}) \in SUBSET DOMAIN g
        /\ (R \cup {r}) \cap DOMAIN g \subseteq Reached(g, R \cup {r})
        /\ Closed(g, Reached(g, R \cup {r}))
    BY ReachedFacts
  <2> QED BY <1>0, <1>1, <2>1
<1>3. \A i \in DOMAIN h : r # h[i].child /\ r # h[i].next
  BY <1>0 DEF Forest, Linked
<1>4. \A s \in R \cup {r}, i \in DOMAIN g : s # g[i].child /\ s # g[i].next
  BY <1>0, <1>3 DEF Rooted, Forest
<1> QED
  BY <1>0, <1>2, <1>4 DEF Rooted

\* The tree of a root is gone.
LEMMA DeleteRooted ==
    ASSUME NEW h, NEW R, NEW P, Forest(h, R, P), NEW r \in R
    PROVE  Rooted(Delete(h, r), R \ {r})
<1> DEFINE T == Reached(h, {r})
           g == Delete(h, r)
<1>1. T \subseteq DOMAIN h /\ r \in T /\ Closed(h, T) /\ R \subseteq DOMAIN h
  BY ReachedFacts DEF Forest, Rooted
<1>2. DOMAIN g = DOMAIN h \ T /\ \A i \in DOMAIN g : g[i] = h[i]
  BY DEF Delete
<1>3. R \ {r} \subseteq DOMAIN g
  <2>1. ASSUME NEW s \in R \ {r} PROVE s \notin T
    <3>1. s \in Reached(h, {s}) BY <1>1, ReachedFacts
    <3> QED BY <3>1, DisjointTrees
  <2> QED BY <1>1, <1>2, <2>1
<1>4. ASSUME NEW S \in SUBSET DOMAIN g, R \ {r} \subseteq S, Closed(g, S)
      PROVE  S = DOMAIN g
  <2> HIDE DEF T, g
  <2>1. Closed(h, S \cup T) /\ R \subseteq S \cup T /\ S \cup T \in SUBSET DOMAIN h
    BY <1>1, <1>2, <1>4 DEF Closed
  <2>2. S \cup T = DOMAIN h
    BY <2>1, ReachesAll
  <2> QED BY <1>2, <1>4, <2>2
<1>5. Reached(g, R \ {r}) = DOMAIN g
  <2> HIDE DEF g
  <2>1. /\ Reached(g, R \ {r}) \in SUBSET DOMAIN g
        /\ (R \ {r}) \cap DOMAIN g \subseteq Reached(g, R \ {r})
        /\ Closed(g, Reached(g, R \ {r}))
    BY ReachedFacts
  <2> QED BY <1>3, <1>4, <2>1
<1> QED
  BY <1>2, <1>3, <1>5 DEF Rooted, Forest

\* In the tree of a root the parents are in the tree too, but for the parent
\* that the root itself has.
LEMMA TreeParents ==
    ASSUME NEW h, NEW R, NEW P, Forest(h, R, P), NEW r \in DOMAIN h
    PROVE  \A i \in Reached(h, {r}) : P[i] \in Reached(h, {r}) \/ P[i] = P[r]
<1> DEFINE T == Reached(h, {r})
           S == {i \in T : P[i] \in T \/ P[i] = P[r]}
<1>1. T \subseteq DOMAIN h /\ r \in T /\ Closed(h, T)
  BY ReachedFacts
<1>2. S \in SUBSET DOMAIN h /\ {r} \cap DOMAIN h \subseteq S /\ NULL \notin DOMAIN h
  BY <1>1 DEF Forest, IsHeap, Ids, NULL
<1>3. Closed(h, S)
  <2>1. ASSUME NEW i \in S, NEW j \in {h[i].child, h[i].next} \cap DOMAIN h
        PROVE  j \in S
    <3>1. j \in T /\ j # NULL
      BY <1>1, <1>2, <2>1 DEF Closed
    <3>2. P[j] = i \/ P[j] = P[i]
      BY <1>1, <2>1, <3>1 DEF Forest, Linked
    <3> QED BY <2>1, <3>1, <3>2
  <2> HIDE DEF S
  <2> QED BY <2>1 DEF Closed
<1> HIDE DEF S
<1>4. T \subseteq S
  BY <1>2, <1>3, ReachedFacts
<1> QED BY <1>4 DEF S

-----------------------------------------------------------------------------
(***************************************************************************)
(* The operations.  Each has a lemma: the forest that it makes, with the   *)
(* parent that the items have in it.                                       *)
(***************************************************************************)
With(P, i, p) == [j \in DOMAIN P \cup {i} |-> IF j = i THEN p ELSE P[j]]
\* An item that has a parent among the pointers can be given another.
LEMMA WithParent ==
    ASSUME NEW D, NEW P \in [D -> Ptrs], NEW i \in D, NEW p \in Ptrs
    PROVE  /\ With(P, i, p) \in [D -> Ptrs] /\ With(P, i, p)[i] = p
           /\ \A j \in D \ {i} : With(P, i, p)[j] = P[j]
<1>1. With(P, i, p) = [j \in D |-> IF j = i THEN p ELSE P[j]]
  BY DEF With
<1> QED BY <1>1

\* The heaps have the same items and links.
SameShape(h, g) ==
    /\ DOMAIN g = DOMAIN h
    /\ \A i \in DOMAIN h : SameLinks(h, g, i) /\ g[i].prev = h[i].prev

\* Types, keys and texts have nothing to do with the shape.
LEMMA SameShapeForest ==
    ASSUME NEW h, NEW R, NEW P, Forest(h, R, P), NEW g, IsHeap(g), SameShape(h, g)
    PROVE  Forest(g, R, P) /\ \A F : Reached(g, F) = Reached(h, F)
<1>1. \A S \in SUBSET DOMAIN h : Closed(g, S) <=> Closed(h, S)
  BY DEF SameShape, SameLinks, Closed
<1>2. \A F : Reached(g, F) = Reached(h, F)
  BY <1>1 DEF Reached, SameShape
<1>3. Linked(g, P)
  BY DEF Linked, SameShape, SameLinks, Forest
<1> QED
  BY <1>2, <1>3 DEF Forest, Rooted, SameShape, SameLinks

\* cJSON_New_Item: a root more, whatever list it is meant for.
LEMMA NewItemForest ==
    ASSUME NEW h, NEW R, NEW P, Forest(h, R, P), ~Full(h), NEW p \in Ptrs,
           NEW item \in Item, item.child = NULL, item.next = NULL
    PROVE  /\ Fresh(h) \in Ids \ DOMAIN h
           /\ Forest(New_Item(h, item), R \cup {Fresh(h)}, With(P, Fresh(h), p))
<1> DEFINE r == Fresh(h)
           g == New_Item(h, item)
           Q == With(P, r, p)
<1>1. r \in Ids \ DOMAIN h
  BY DEF Fresh, Full, Forest, IsHeap
<1>2. /\ DOMAIN g = DOMAIN h \cup {r} /\ g[r] = item
      /\ \A i \in DOMAIN h : g[i] = h[i]
  BY <1>1 DEF New_Item
<1>3. IsHeap(g)
  BY <1>1, <1>2 DEF IsHeap, Forest, New_Item
<1>4. Q \in [DOMAIN g -> Ptrs] /\ \A i \in DOMAIN h : Q[i] = P[i]
  BY <1>1, <1>2 DEF With, Forest, Linked
<1>5. Linked(g, Q)
  <2> HIDE DEF g, Q, r
  <2> QED BY <1>1, <1>2, <1>4 DEF Linked, Forest
<1>6. Rooted(g, R \cup {r})
  <2> HIDE DEF g, Q, r
  <2> QED BY <1>1, <1>2, NewRooted
<1> QED
  BY <1>1, <1>3, <1>5, <1>6 DEF Forest

\* The parents of the items that are left.
Kept(P, g) == [i \in DOMAIN g |-> P[i]]
\* cJSON_Delete of a root that is in no finished list.
LEMMA DeleteForest ==
    ASSUME NEW h, NEW R, NEW P, Forest(h, R, P), NEW r \in R,
           P[r] \in DOMAIN h => h[P[r]].child = NULL
    PROVE  LET g == Delete(h, r)
           IN  /\ DOMAIN g = DOMAIN h \ Reached(h, {r})
               /\ \A i \in DOMAIN g : g[i] = h[i]
               /\ Forest(g, R \ {r}, Kept(P, g))
<1> DEFINE T == Reached(h, {r})
           g == Delete(h, r)
           Q == [i \in DOMAIN g |-> P[i]]
<1>1. T \subseteq DOMAIN h /\ r \in DOMAIN h
  BY ReachedFacts DEF Forest, Rooted
<1>2. DOMAIN g = DOMAIN h \ T /\ \A i \in DOMAIN g : g[i] = h[i]
  BY DEF Delete
<1>3. IsHeap(g)
  BY <1>2 DEF IsHeap, Forest, Delete
<1>4. Linked(g, Q)
  <2>1. \A i \in T : P[i] \in T \/ P[i] = P[r]
    BY <1>1, TreeParents
  <2>2. \A i \in DOMAIN h : {h[i].child, h[i].next} \cap T # {} => i \in T
    BY ClosedTree
  <2>3. /\ Q \in [DOMAIN g -> Ptrs] /\ \A i \in DOMAIN g : Q[i] = P[i]
    BY <1>2 DEF Forest, Linked
  <2> HIDE DEF T, g, Q
  <2>4. \A i \in DOMAIN h \ T : h[i].child # NULL => h[h[i].child].prev \notin T
    BY <1>1, <2>1 DEF Forest, Linked
  <2> QED BY <1>2, <2>2, <2>3, <2>4 DEF Forest, Linked
<1> QED
  BY <1>2, <1>3, <1>4, DeleteRooted DEF Forest, Kept

-----------------------------------------------------------------------------
(***************************************************************************)
(* Between two calls the roots are what the caller holds: in no list.      *)
(***************************************************************************)
Grove(h, R, P) ==
    /\ Forest(h, R, P)
    /\ \A r \in R : P[r] = NULL /\ h[r].next = NULL
HasGrove(h, R) == \E P : Grove(h, R, P)
\* The heaps have the same items, types, keys and texts.
SameData(h, g) ==
    /\ DOMAIN g = DOMAIN h
    /\ \A i \in DOMAIN h : /\ g[i].type = h[i].type /\ g[i].string = h[i].string
                           /\ g[i].valuestring = h[i].valuestring

\* cJSON_Delete of a whole document frees the document and nothing beside it.
LEMMA GroveTree ==
    ASSUME NEW h, NEW R, NEW P, Grove(h, R, P), NEW r \in R
    PROVE  Tree(h, r) = Reached(h, {r})
<1> DEFINE T == Reached(h, {r})
           U == Reached(h, {h[r].child})
<1>1. /\ T \subseteq DOMAIN h /\ r \in T /\ Closed(h, T) /\ r \in DOMAIN h
      /\ U \subseteq DOMAIN h /\ Closed(h, U) /\ {h[r].child} \cap DOMAIN h \subseteq U
      /\ h[r].next \notin DOMAIN h
  BY ReachedFacts DEF Grove, Forest, Rooted, IsHeap, Ids, NULL
<1>2. U \subseteq T
  <2>1. {h[r].child} \cap DOMAIN h \subseteq T BY <1>1 DEF Closed
  <2> HIDE DEF T
  <2> QED BY <1>1, <2>1, ReachedFacts
<1>3. T \subseteq {r} \cup U
  <2>1. Closed(h, {r} \cup U) /\ {r} \cup U \in SUBSET DOMAIN h
    BY <1>1 DEF Closed
  <2> HIDE DEF U
  <2> QED BY <2>1, ReachedFacts
<1> QED BY <1>1, <1>2, <1>3 DEF Tree

\* What a heap looks like whose links alone were rewritten: the fields of g[i].
Wired(h, g, i, child, next, prev) ==
    /\ g[i] \in Item
    /\ g[i].child = child /\ g[i].next = next /\ g[i].prev = prev
    /\ g[i].type = h[i].type /\ g[i].string = h[i].string
    /\ g[i].valuestring = h[i].valuestring

\* The pointers that add_item_to_array sets.
LEMMA AddWired ==
    ASSUME NEW h, IsHeap(h), NEW item \in DOMAIN h, NEW array \in DOMAIN h, item # array,
           h[item].next = NULL,
           LET child == h[array].child
               last  == h[child].prev
           IN  child # NULL => /\ child \in DOMAIN h /\ child # item
                               /\ last \in DOMAIN h /\ last # item
    PROVE  LET g == add_item_to_array(h, array, item)
               child == h[array].child
               last  == h[child].prev
           IN  /\ DOMAIN g = DOMAIN h /\ IsHeap(g) /\ SameData(h, g)
               /\ \A i \in DOMAIN h :
                     IF child = NULL
                     THEN Wired(h, g, i, IF i = array THEN item ELSE h[i].child,
                                h[i].next, IF i = item THEN item ELSE h[i].prev)
                     ELSE Wired(h, g, i, h[i].child, IF i = last THEN item ELSE h[i].next,
                                IF i = child THEN item ELSE IF i = item THEN last ELSE h[i].prev)
<1> DEFINE g == add_item_to_array(h, array, item)
           child == h[array].child
           last == h[child].prev
<1>1. NULL \notin DOMAIN h /\ \A i \in DOMAIN h : i \in Ptrs /\ h[i] \in Item
  BY DEF IsHeap, Ids, NULL, Ptrs
<1>2. g = IF child = NULL
          THEN [h EXCEPT ![array].child = item, ![item].prev = item, ![item].next = NULL]
          ELSE [h EXCEPT ![last].next = item, ![item].prev = last, ![child].prev = item]
  BY <1>1 DEF add_item_to_array
<1>3. ASSUME NEW i \in DOMAIN h
      PROVE  IF child = NULL
             THEN Wired(h, g, i, IF i = array THEN item ELSE h[i].child,
                        h[i].next, IF i = item THEN item ELSE h[i].prev)
             ELSE Wired(h, g, i, h[i].child, IF i = last THEN item ELSE h[i].next,
                        IF i = child THEN item ELSE IF i = item THEN last ELSE h[i].prev)
  <2>1. h[i] \in Item /\ (last \in Ptrs \/ child = NULL) /\ item \in Ptrs /\ NULL \in Ptrs
    BY <1>1 DEF Ptrs
  <2>2. CASE child = NULL
    <3>1. g[i] = IF i = array THEN [h[i] EXCEPT !.child = item]
                 ELSE IF i = item THEN [h[i] EXCEPT !.prev = item, !.next = NULL] ELSE h[i]
      BY <1>2, <2>2
    <3> HIDE DEF g, child, last
    <3> QED BY <2>1, <2>2, <3>1 DEF Wired, Item
  <2>3. CASE child # NULL
    <3>1. /\ g = [h EXCEPT ![last].next = item, ![item].prev = last, ![child].prev = item]
          /\ last # item /\ child # item
      BY <1>2, <2>3
    <3> HIDE DEF g, child, last
    <3>2. g[i] = [h[i] EXCEPT !.next = IF i = last THEN item ELSE @,
                    !.prev = IF i = child THEN item ELSE IF i = item THEN last ELSE @]
      BY <2>1, <2>3, <3>1 DEF Item
    <3> QED BY <2>1, <2>3, <3>2 DEF Wired, Item
  <2> QED BY <2>2, <2>3
<1>4. DOMAIN g = DOMAIN h /\ g = [i \in DOMAIN g |-> g[i]]
  BY <1>2 DEF IsHeap
<1>5. IsHeap(g) /\ SameData(h, g)
  <2>1. \A i \in DOMAIN h : Wired(h, g, i, g[i].child, g[i].next, g[i].prev)
    <3> HIDE DEF g, child, last
    <3> QED BY <1>3 DEF Wired
  <2> HIDE DEF g
  <2> QED BY <1>4, <2>1 DEF IsHeap, SameData, Wired
<1> QED BY <1>3, <1>4, <1>5

\* add_item_to_array appends an item that was in no list.
LEMMA AddGrove ==
    ASSUME NEW h, NEW R, NEW P, Grove(h, R, P), NEW item \in R,
           NEW array \in DOMAIN h, array \notin Tree(h, item)
    PROVE  LET g == add_item_to_array(h, array, item)
           IN  Grove(g, R \ {item}, With(P, item, array)) /\ SameData(h, g)
<1> DEFINE g == add_item_to_array(h, array, item)
           Q == With(P, item, array)
           child == h[array].child
           last == h[child].prev
           a == IF child = NULL THEN array ELSE last
           T == Reached(h, {item})
<1>0. Forest(h, R, P) /\ IsHeap(h) /\ Linked(h, P) /\ Rooted(h, R) /\ NULL \notin DOMAIN h
  BY DEF Grove, Forest, IsHeap, Ids, NULL
<1>1. /\ item \in T /\ array \notin T /\ item # array
      /\ item \in DOMAIN h /\ P[item] = NULL /\ h[item].next = NULL
      /\ item \in Ptrs /\ array \in Ptrs /\ \A i \in DOMAIN h : i \in Ptrs
  BY <1>0, ReachedFacts, GroveTree DEF Grove, Rooted, IsHeap, Ptrs
<1>2. \A i \in DOMAIN h : item # h[i].child /\ item # h[i].next
  BY <1>0 DEF Rooted
<1>3. child # NULL => /\ child \in DOMAIN h /\ P[child] = array
                      /\ last \in DOMAIN h /\ P[last] = array /\ h[last].next = NULL
  BY <1>0 DEF Linked
<1>4. a \in DOMAIN h /\ a \notin T
  <2>1. \A i \in T : P[i] \in T \/ P[i] = P[item]
    <3> HIDE DEF T
    <3> QED BY <1>0, <1>1, TreeParents DEF T
  <2> HIDE DEF T
  <2> QED BY <1>0, <1>1, <1>3, <2>1
<1>7. /\ DOMAIN g = DOMAIN h /\ IsHeap(g) /\ SameData(h, g)
      /\ \A i \in DOMAIN h :
            IF child = NULL
            THEN Wired(h, g, i, IF i = array THEN item ELSE h[i].child,
                       h[i].next, IF i = item THEN item ELSE h[i].prev)
            ELSE Wired(h, g, i, h[i].child, IF i = last THEN item ELSE h[i].next,
                       IF i = child THEN item ELSE IF i = item THEN last ELSE h[i].prev)
  <2>1. child # NULL => child # item /\ last # item
    BY <1>1, <1>2, <1>4
  <2> QED BY <1>0, <1>1, <1>3, <2>1, AddWired
<1>6. \A i \in DOMAIN h :
            IF child = NULL
            THEN Wired(h, g, i, IF i = array THEN item ELSE h[i].child,
                       h[i].next, IF i = item THEN item ELSE h[i].prev)
            ELSE Wired(h, g, i, h[i].child, IF i = last THEN item ELSE h[i].next,
                       IF i = child THEN item ELSE IF i = item THEN last ELSE h[i].prev)
  BY <1>7
<1>8. /\ Q \in [DOMAIN h -> Ptrs] /\ Q[item] = array
      /\ \A i \in DOMAIN h \ {item} : Q[i] = P[i]
  <2>1. P \in [DOMAIN h -> Ptrs] BY <1>0 DEF Linked
  <2>2. item \in DOMAIN h /\ array \in Ptrs BY <1>0, <1>1
  <2> QED BY ONLY <2>1, <2>2, WithParent DEF Q
<1>9. Rooted(g, R \ {item})
  <2>1. CASE child = NULL
    <3>1. /\ Redirects(h, g, array, NULL, item) /\ g[item].child = h[item].child
          /\ g[item].next = NULL
          /\ \A i \in DOMAIN h \ {array, item} : SameLinks(h, g, i)
      BY <1>1, <1>6, <2>1 DEF Wired, Redirects, SameLinks
    <3> HIDE DEF g
    <3> QED BY <1>0, <1>1, <1>7, <3>1, AttachRooted
  <2>2. CASE child # NULL
    <3>1. last # item
      BY <1>1, <1>4, <2>2
    <3>2. /\ Redirects(h, g, last, NULL, item) /\ g[item].child = h[item].child
          /\ g[item].next = NULL
          /\ \A i \in DOMAIN h \ {last, item} : SameLinks(h, g, i)
      <4> HIDE DEF g, child, last
      <4> QED BY <1>1, <1>3, <1>6, <2>2, <3>1 DEF Wired, Redirects, SameLinks
    <3>3. last \in DOMAIN h /\ last \notin T
      BY <1>4, <2>2
    <3> HIDE DEF g, child, last
    <3> QED BY <1>0, <1>1, <1>7, <3>2, <3>3, AttachRooted
  <2> QED BY <2>1, <2>2
<1>10. Linked(g, Q)
  <2>1. \A i \in DOMAIN h, j \in DOMAIN h : h[i].child # NULL => h[i].child # h[j].next
    BY <1>0, ChildNotNext
  <2>2. /\ (child = NULL => array # item) /\ (child # NULL => last # item /\ child # item)
    BY <1>1, <1>2, <1>4
  <2> HIDE DEF g, child, last, Q
  <2>3. ASSUME NEW i \in DOMAIN h, g[i].child # NULL
        PROVE  LET c == g[i].child
               IN  /\ c \in DOMAIN g /\ Q[c] = i
                   /\ g[c].prev \in DOMAIN g /\ Q[g[c].prev] = i
                   /\ g[g[c].prev].next = NULL
    <3>1. h[i].child # NULL =>
             /\ h[i].child \in DOMAIN h /\ P[h[i].child] = i
             /\ h[h[i].child].prev \in DOMAIN h /\ P[h[h[i].child].prev] = i
             /\ h[h[h[i].child].prev].next = NULL
      BY <1>0 DEF Linked
    <3>2. CASE i = array BY <1>1, <1>3, <1>6, <1>7, <1>8, <2>2, <2>3, <3>1, <3>2 DEF child, Wired
    <3>3. CASE i # array
      <4>1. g[i].child = h[i].child BY <1>6, <3>3 DEF Wired
      <4>2. h[i].child # item /\ h[i].child # child BY <1>2, <1>3, <2>3, <3>1, <3>3, <4>1
      <4>3. h[h[i].child].prev # item /\ (child # NULL => h[h[i].child].prev # last)
        BY <1>0, <1>1, <1>3, <2>3, <3>1, <3>3, <4>1
      <4> QED BY <1>6, <1>7, <1>8, <2>3, <3>1, <4>1, <4>2, <4>3 DEF Wired
    <3> QED BY <3>2, <3>3
  <2>4. ASSUME NEW i \in DOMAIN h, g[i].next # NULL
        PROVE  g[i].next \in DOMAIN g /\ Q[g[i].next] = Q[i] /\ g[g[i].next].prev = i
    <3>1. CASE child # NULL /\ i = last BY <1>1, <1>3, <1>6, <1>7, <1>8, <2>2, <3>1 DEF Wired
    <3>2. CASE child = NULL \/ i # last
      <4>1. g[i].next = h[i].next BY <1>6, <3>2 DEF Wired
      <4>2. /\ h[i].next \in DOMAIN h /\ P[h[i].next] = P[i] /\ h[h[i].next].prev = i
        BY <1>0, <2>4, <4>1 DEF Linked
      <4>3. i # item /\ h[i].next # item /\ (child # NULL => h[i].next # child)
        BY <1>1, <1>2, <2>1, <2>4, <4>1 DEF child
      <4> QED BY <1>6, <1>7, <1>8, <4>1, <4>2, <4>3 DEF Wired
    <3> QED BY <3>1, <3>2
  <2> QED BY <1>7, <1>8, <2>3, <2>4 DEF Linked
<1>11. \A r \in R \ {item} : Q[r] = NULL /\ g[r].next = NULL
  <2>1. \A r \in R : r \in DOMAIN h /\ P[r] = NULL /\ h[r].next = NULL
    BY <1>0 DEF Grove, Rooted
  <2> HIDE DEF g, child, last, Q
  <2> QED BY <1>0, <1>1, <1>3, <1>6, <1>8, <2>1 DEF Wired
<1> QED BY <1>7, <1>9, <1>10, <1>11 DEF Grove, Forest

\* An item is among the children of its parent.
InList(h, P, parent, item) ==
    /\ parent \in DOMAIN h /\ item \in DOMAIN h /\ P[item] = parent
    /\ h[parent].child # NULL
    /\ h[parent].child = item \/ \E j \in DOMAIN h : h[j].next = item

\* The pointers that cJSON_DetachItemViaPointer sets.
LEMMA DetachWired ==
    ASSUME NEW h, IsHeap(h), NEW parent, NEW item \in DOMAIN h
    PROVE  LET g == DetachItemViaPointer(h, parent, item)
               first == h[parent].child
               next  == h[item].next
               prev  == h[item].prev
           IN  /\ DOMAIN g = DOMAIN h /\ IsHeap(g) /\ SameData(h, g)
               /\ \A i \in DOMAIN h :
                     Wired(h, g, i,
                       IF i = parent /\ item = first THEN next ELSE h[i].child,
                       IF i = item THEN NULL
                       ELSE IF i = prev /\ item # first THEN next ELSE h[i].next,
                       IF i = item THEN NULL
                       ELSE IF i = next \/ (i = first /\ item # first /\ next = NULL)
                            THEN prev ELSE h[i].prev)
<1> DEFINE g == DetachItemViaPointer(h, parent, item)
           first == h[parent].child
           next == h[item].next
           prev == h[item].prev
           C(i) == IF i = parent /\ item = first THEN next ELSE h[i].child
           N(i) == IF i = prev /\ item # first THEN next ELSE h[i].next
           V(i) == IF i = next \/ (i = first /\ item # first /\ next = NULL)
                   THEN prev ELSE h[i].prev
           u == [i \in DOMAIN h |-> [h[i] EXCEPT !.next = N(i), !.prev = V(i), !.child = C(i)]]
<1>1. /\ \A i \in DOMAIN h : h[i] \in Item
      /\ NULL \in Ptrs /\ next \in Ptrs /\ prev \in Ptrs
  BY DEF IsHeap, Item, Ptrs
<1>2. g = [u EXCEPT ![item].prev = NULL, ![item].next = NULL]
  BY DEF DetachItemViaPointer
<1>3. ASSUME NEW i \in DOMAIN h
      PROVE  Wired(h, g, i, C(i), IF i = item THEN NULL ELSE N(i),
                   IF i = item THEN NULL ELSE V(i))
  <2>1. u[i] = [h[i] EXCEPT !.next = N(i), !.prev = V(i), !.child = C(i)]
    OBVIOUS
  <2>2. N(i) \in Ptrs /\ V(i) \in Ptrs /\ C(i) \in Ptrs
    BY <1>1 DEF Item
  <2> HIDE DEF C, N, V
  <2>3. /\ u[i] \in Item /\ u[i].next = N(i) /\ u[i].prev = V(i) /\ u[i].child = C(i)
        /\ u[i].type = h[i].type /\ u[i].string = h[i].string
        /\ u[i].valuestring = h[i].valuestring
    BY <1>1, <2>1, <2>2 DEF Item
  <2>4. g[i] = IF i = item THEN [u[i] EXCEPT !.prev = NULL, !.next = NULL] ELSE u[i]
    BY <1>2
  <2> HIDE DEF g, u
  <2> QED BY <1>1, <2>3, <2>4 DEF Wired, Item
<1>4. DOMAIN g = DOMAIN h /\ g = [i \in DOMAIN g |-> g[i]]
  BY <1>2
<1>5. IsHeap(g) /\ SameData(h, g)
  <2>1. \A i \in DOMAIN h : Wired(h, g, i, g[i].child, g[i].next, g[i].prev)
    <3> HIDE DEF g, C, N, V
    <3> QED BY <1>3 DEF Wired
  <2> HIDE DEF g
  <2> QED BY <1>4, <2>1 DEF IsHeap, SameData, Wired
<1> QED BY <1>3, <1>4, <1>5

\* cJSON_DetachItemViaPointer makes an item of a list a root.
LEMMA DetachGrove ==
    ASSUME NEW h, NEW R, NEW P, Grove(h, R, P), NEW parent, NEW item,
           InList(h, P, parent, item)
    PROVE  LET g == DetachItemViaPointer(h, parent, item)
           IN  Grove(g, R \cup {item}, With(P, item, NULL)) /\ SameData(h, g)
<1> DEFINE g == DetachItemViaPointer(h, parent, item)
           Q == With(P, item, NULL)
           first == h[parent].child
           next == h[item].next
           prev == h[item].prev
           a == IF item = first THEN parent ELSE prev
<1>0. /\ Forest(h, R, P) /\ IsHeap(h) /\ Linked(h, P) /\ Rooted(h, R)
      /\ NULL \notin DOMAIN h /\ NULL \in Ptrs
  BY DEF Grove, Forest, IsHeap, Ids, NULL, Ptrs
<1>1. /\ parent \in DOMAIN h /\ item \in DOMAIN h /\ P[item] = parent
      /\ first \in DOMAIN h /\ P[first] = parent
      /\ h[first].prev \in DOMAIN h /\ P[h[first].prev] = parent
      /\ h[h[first].prev].next = NULL
      /\ next # NULL => next \in DOMAIN h /\ P[next] = parent /\ h[next].prev = item
  BY <1>0 DEF InList, Linked
<1>2. item # first => prev \in DOMAIN h /\ h[prev].next = item /\ P[prev] = parent
  BY <1>0, <1>1 DEF InList, Linked
<1>3. a \in DOMAIN h /\ item \in {h[a].child, h[a].next}
  BY <1>1, <1>2
<1>4. a \notin Reached(h, {item}) /\ a # item /\ item # next /\ item # h[item].child
  <2>1. item \in Reached(h, {item}) BY <1>1, ReachedFacts
  <2>2. ASSUME NEW x \in DOMAIN h, item \in {h[x].child, h[x].next}
        PROVE  x \notin Reached(h, {item})
    BY <1>0, <1>1, <2>2, NoReturn
  <2> QED BY <1>1, <1>3, <2>1, <2>2
<1>5. /\ DOMAIN g = DOMAIN h /\ IsHeap(g) /\ SameData(h, g)
      /\ \A i \in DOMAIN h :
            Wired(h, g, i,
              IF i = parent /\ item = first THEN next ELSE h[i].child,
              IF i = item THEN NULL
              ELSE IF i = prev /\ item # first THEN next ELSE h[i].next,
              IF i = item THEN NULL
              ELSE IF i = next \/ (i = first /\ item # first /\ next = NULL)
                   THEN prev ELSE h[i].prev)
  BY <1>0, <1>1, DetachWired
<1>6. \A i \in DOMAIN h :
         /\ g[i].child = IF i = parent /\ item = first THEN next ELSE h[i].child
         /\ g[i].next = IF i = item THEN NULL
                        ELSE IF i = prev /\ item # first THEN next ELSE h[i].next
         /\ g[i].prev = IF i = item THEN NULL
              ELSE IF i = next \/ (i = first /\ item # first /\ next = NULL)
                   THEN prev ELSE h[i].prev
  <2> DEFINE C(i) == IF i = parent /\ item = first THEN next ELSE h[i].child
             N(i) == IF i = item THEN NULL
                     ELSE IF i = prev /\ item # first THEN next ELSE h[i].next
             V(i) == IF i = item THEN NULL
                     ELSE IF i = next \/ (i = first /\ item # first /\ next = NULL)
                          THEN prev ELSE h[i].prev
  <2>1. \A i \in DOMAIN h : Wired(h, g, i, C(i), N(i), V(i))
    BY ONLY <1>5
  <2> HIDE DEF C, N, V, g
  <2>2. \A i \in DOMAIN h : g[i].child = C(i) /\ g[i].next = N(i) /\ g[i].prev = V(i)
    BY ONLY <2>1 DEF Wired
  <2> HIDE DEF first, next, prev
  <2> QED BY ONLY <2>2 DEF C, N, V
<1>7. /\ Q \in [DOMAIN h -> Ptrs] /\ Q[item] = NULL
      /\ \A i \in DOMAIN h \ {item} : Q[i] = P[i]
  <2>1. P \in [DOMAIN h -> Ptrs] BY <1>0 DEF Linked
  <2>2. item \in DOMAIN h /\ NULL \in Ptrs BY <1>0, <1>1
  <2> QED BY ONLY <2>1, <2>2, WithParent DEF Q
<1>8. \A i \in DOMAIN h, j \in DOMAIN h : h[i].child # NULL => h[i].child # h[j].next
  BY <1>0, ChildNotNext
<1>9. \A i \in DOMAIN h : item \in {h[i].child, h[i].next} => i = a
  BY <1>0, <1>1, <1>3, OnePointer
<1>10. Rooted(g, R \cup {item})
  <2>1. /\ Redirects(h, g, a, item, next) /\ g[item].child = h[item].child
        /\ g[item].next = NULL
        /\ \A i \in DOMAIN h \ {a, item} : SameLinks(h, g, i)
    <3> HIDE DEF g, next, prev, first
    <3>1. item # first => h[a].child # item
      BY <1>0, <1>1, <1>2, <1>8 DEF a
    <3> QED BY <1>1, <1>2, <1>3, <1>4, <1>6, <1>8 DEF Redirects, SameLinks, first
  <2> HIDE DEF g, a
  <2> QED BY <1>0, <1>1, <1>3, <1>5, <2>1, DetachRooted
<1>11. Linked(g, Q)
  <2> HIDE DEF g, Q
  <2>1. ASSUME NEW i \in DOMAIN h, g[i].child # NULL
        PROVE  LET c == g[i].child
               IN  /\ c \in DOMAIN g /\ Q[c] = i
                   /\ g[c].prev \in DOMAIN g /\ Q[g[c].prev] = i
                   /\ g[g[c].prev].next = NULL
    <3>1. h[i].child # NULL =>
             /\ h[i].child \in DOMAIN h /\ P[h[i].child] = i
             /\ h[h[i].child].prev \in DOMAIN h /\ P[h[h[i].child].prev] = i
             /\ h[h[h[i].child].prev].next = NULL
      BY <1>0 DEF Linked
    <3>2. CASE i # parent
      <4>1. g[i].child = h[i].child BY <1>6, <3>2
      <4>2. h[i].child \notin {item, first, next}
        BY <1>1, <2>1, <3>1, <3>2, <4>1
      <4>3. g[h[i].child].prev = h[h[i].child].prev
        BY <1>6, <2>1, <3>1, <4>1, <4>2
      <4>4. h[h[i].child].prev # item /\ (item # first => h[h[i].child].prev # prev)
        BY <1>1, <1>2, <2>1, <3>1, <3>2, <4>1
      <4> QED BY <1>5, <1>6, <1>7, <2>1, <3>1, <4>1, <4>2, <4>3, <4>4
    <3>3. CASE i = parent /\ item = first
      <4>1. g[i].child = next /\ next # NULL /\ next # item
        BY <1>4, <1>6, <2>1, <3>3
      <4>2. prev \in DOMAIN h /\ P[prev] = parent /\ h[prev].next = NULL /\ prev # item
        BY <1>1, <3>3, <4>1
      <4>3. g[next].prev = prev /\ g[prev].next = NULL
        BY <1>1, <1>6, <3>3, <4>1, <4>2
      <4> QED BY <1>1, <1>5, <1>7, <3>3, <4>1, <4>2, <4>3
    <3>4. CASE i = parent /\ item # first
      <4>1. g[i].child = first /\ first # next /\ first # item
        BY <1>1, <1>0, <1>6, <1>8, <3>4
      <4>2. CASE next = NULL
        <5>1. prev # item BY <1>1, <1>2, <1>4, <3>4
        <5>2. g[first].prev = prev /\ g[prev].next = NULL
          BY <1>1, <1>2, <1>6, <3>4, <4>1, <4>2, <5>1
        <5> QED BY <1>1, <1>2, <1>5, <1>7, <3>4, <4>1, <5>1, <5>2
      <4>3. CASE next # NULL
        <5>1. h[first].prev \notin {item, prev}
          BY <1>0, <1>1, <1>2, <3>4, <4>3
        <5>2. g[first].prev = h[first].prev /\ g[h[first].prev].next = NULL
          BY <1>1, <1>6, <3>4, <4>1, <4>3, <5>1
        <5> QED BY <1>1, <1>2, <1>5, <1>7, <3>4, <4>1, <5>1, <5>2
      <4> QED BY <4>2, <4>3
    <3> QED BY <3>2, <3>3, <3>4
  <2>2. ASSUME NEW i \in DOMAIN h, g[i].next # NULL
        PROVE  g[i].next \in DOMAIN g /\ Q[g[i].next] = Q[i] /\ g[g[i].next].prev = i
    <3>1. i # item BY <1>6, <2>2
    <3>2. CASE i = prev /\ item # first
      <4>1. g[i].next = next /\ next # NULL /\ next # item
        BY <1>4, <1>6, <2>2, <3>1, <3>2
      <4>2. g[next].prev = prev BY <1>1, <1>6, <4>1
      <4> QED BY <1>1, <1>2, <1>5, <1>7, <3>1, <3>2, <4>1, <4>2
    <3>3. CASE ~(i = prev /\ item # first)
      <4>1. g[i].next = h[i].next BY <1>6, <3>1, <3>3
      <4>2. /\ h[i].next \in DOMAIN h /\ P[h[i].next] = P[i] /\ h[h[i].next].prev = i
        BY <1>0, <2>2, <4>1 DEF Linked
      <4>3. h[i].next # item
        BY <1>1, <1>2, <1>0, <1>8, <1>9, <3>3
      <4>4. h[i].next # next
        BY <1>1, <2>2, <3>1, <4>1, <4>2
      <4>5. h[i].next # first
        BY <1>1, <1>0, <1>8
      <4> QED BY <1>5, <1>6, <1>7, <3>1, <4>1, <4>2, <4>3, <4>4, <4>5
    <3> QED BY <3>2, <3>3
  <2> QED BY <1>5, <1>7, <2>1, <2>2 DEF Linked
<1>12. \A r \in R \cup {item} : Q[r] = NULL /\ g[r].next = NULL
  <2>1. \A r \in R : r \in DOMAIN h /\ P[r] = NULL /\ h[r].next = NULL
    BY <1>0 DEF Grove, Rooted
  <2>2. item # first => prev \notin R
    BY <1>0, <1>1, <1>2, <2>1
  <2> HIDE DEF g, Q, first, next, prev
  <2> QED BY <1>1, <1>6, <1>7, <2>1, <2>2
<1> QED BY <1>5, <1>10, <1>11, <1>12 DEF Grove, Forest

\* The pointers that cJSON_InsertItemInArray sets.
LEMMA InsertWired ==
    ASSUME NEW h, IsHeap(h), NEW array \in DOMAIN h, NEW after \in DOMAIN h,
           NEW new \in DOMAIN h, new # after, h[after].prev \in DOMAIN h
    PROVE  LET g == InsertBefore(h, array, after, new)
               first == h[array].child
               prev  == h[after].prev
           IN  /\ DOMAIN g = DOMAIN h /\ IsHeap(g) /\ SameData(h, g)
               /\ \A i \in DOMAIN h :
                     Wired(h, g, i,
                       IF i = array /\ after = first THEN new ELSE h[i].child,
                       IF i = prev /\ after # first THEN new
                       ELSE IF i = new THEN after ELSE h[i].next,
                       IF i = after THEN new ELSE IF i = new THEN prev ELSE h[i].prev)
<1> DEFINE g == InsertBefore(h, array, after, new)
           first == h[array].child
           prev == h[after].prev
           C(i) == IF i = array /\ after = first THEN new ELSE h[i].child
           N(i) == IF i = prev /\ after # first THEN new
                   ELSE IF i = new THEN after ELSE h[i].next
           V(i) == IF i = after THEN new ELSE IF i = new THEN prev ELSE h[i].prev
           placed == [h EXCEPT ![new].next = after, ![new].prev = prev, ![after].prev = new]
<1>1. /\ \A i \in DOMAIN h : h[i] \in Item /\ i \in Ptrs
      /\ prev \in Ptrs /\ prev \in DOMAIN h
  BY DEF IsHeap, Item, Ptrs
<1>2. g = IF after = first THEN [placed EXCEPT ![array].child = new]
          ELSE [placed EXCEPT ![prev].next = new]
  BY DEF InsertBefore
<1>3. ASSUME NEW i \in DOMAIN h
      PROVE  Wired(h, g, i, C(i), N(i), V(i))
  <2>1. placed[i] = [h[i] EXCEPT !.next = IF i = new THEN after ELSE @,
                       !.prev = IF i = after THEN new ELSE IF i = new THEN prev ELSE @]
    <3>1. h[i] \in Item /\ new # after
      BY <1>1
    <3> HIDE DEF g, first, prev
    <3>2. CASE i = new BY <3>1, <3>2 DEF Item
    <3>3. CASE i = after BY <3>1, <3>3 DEF Item
    <3>4. CASE i \notin {new, after} BY <3>1, <3>4 DEF Item
    <3> QED BY <3>2, <3>3, <3>4
  <2>2. DOMAIN placed = DOMAIN h
    OBVIOUS
  <2>3. g[i] = [h[i] EXCEPT !.next = N(i), !.prev = V(i), !.child = C(i)]
    <3> HIDE DEF g, placed, first, prev
    <3>0. h[i] \in Item /\ i \in DOMAIN placed /\ prev \in DOMAIN placed
      BY <1>1, <2>2
    <3>1. CASE after = first
      <4>1. g = [placed EXCEPT ![array].child = new] BY <1>2, <3>1
      <4>2. g[i] = [placed[i] EXCEPT !.child = IF i = array THEN new ELSE @]
        <5>1. CASE i = array BY <3>0, <4>1, <5>1
        <5>2. CASE i # array BY <2>1, <3>0, <4>1, <5>2 DEF Item
        <5> QED BY <5>1, <5>2
      <4>3. placed[i] = [h[i] EXCEPT !.next = N(i), !.prev = V(i)]
        BY <2>1, <3>0, <3>1 DEF Item
      <4>4. C(i) = IF i = array THEN new ELSE h[i].child BY <3>1
      <4> HIDE DEF C, N, V
      <4> QED BY <3>0, <4>2, <4>3, <4>4 DEF Item
    <3>2. CASE after # first
      <4>1. g = [placed EXCEPT ![prev].next = new] BY <1>2, <3>2
      <4>2. g[i] = [placed[i] EXCEPT !.next = IF i = prev THEN new ELSE @]
        <5>1. CASE i = prev BY <3>0, <4>1, <5>1
        <5>2. CASE i # prev BY <2>1, <3>0, <4>1, <5>2 DEF Item
        <5> QED BY <5>1, <5>2
      <4>3. PICK n : n = IF i = new THEN after ELSE h[i].next
        OBVIOUS
      <4>4. placed[i] = [h[i] EXCEPT !.next = n, !.prev = V(i)]
        BY <2>1, <3>0, <4>3 DEF Item
      <4>5. C(i) = h[i].child /\ N(i) = IF i = prev THEN new ELSE n
        BY <3>2, <4>3
      <4> HIDE DEF C, N, V
      <4> QED BY ONLY <3>0, <4>2, <4>4, <4>5 DEF Item
    <3> QED BY <3>1, <3>2
  <2>4. N(i) \in Ptrs /\ V(i) \in Ptrs /\ C(i) \in Ptrs
    BY <1>1 DEF Item
  <2> HIDE DEF C, N, V, g
  <2> QED BY <1>1, <2>3, <2>4 DEF Wired, Item
<1>4. DOMAIN g = DOMAIN h /\ g = [i \in DOMAIN g |-> g[i]]
  BY <1>2
<1>5. IsHeap(g) /\ SameData(h, g)
  <2>1. \A i \in DOMAIN h : Wired(h, g, i, g[i].child, g[i].next, g[i].prev)
    <3> HIDE DEF g, C, N, V
    <3> QED BY <1>3 DEF Wired
  <2> HIDE DEF g
  <2> QED BY <1>4, <2>1 DEF IsHeap, SameData, Wired
<1> QED BY <1>3, <1>4, <1>5

\* cJSON_InsertItemInArray puts an item that was in no list before another.
LEMMA InsertGrove ==
    ASSUME NEW h, NEW R, NEW P, Grove(h, R, P), NEW array, NEW after,
           InList(h, P, array, after),
           NEW new \in R, array \notin Tree(h, new)
    PROVE  LET g == InsertBefore(h, array, after, new)
           IN  Grove(g, R \ {new}, With(P, new, array)) /\ SameData(h, g)
<1> DEFINE g == InsertBefore(h, array, after, new)
           Q == With(P, new, array)
           first == h[array].child
           prev == h[after].prev
           a == IF after = first THEN array ELSE prev
           T == Reached(h, {new})
<1>0. /\ Forest(h, R, P) /\ IsHeap(h) /\ Linked(h, P) /\ Rooted(h, R)
      /\ NULL \notin DOMAIN h
  BY DEF Grove, Forest, IsHeap, Ids, NULL
<1>1. /\ array \in DOMAIN h /\ after \in DOMAIN h /\ P[after] = array
      /\ first \in DOMAIN h /\ P[first] = array
      /\ h[first].prev \in DOMAIN h /\ P[h[first].prev] = array
      /\ h[h[first].prev].next = NULL
  BY <1>0 DEF InList, Linked
<1>2. /\ after # first => h[prev].next = after
      /\ prev \in DOMAIN h /\ P[prev] = array
  BY <1>0, <1>1 DEF InList, Linked
<1>3. /\ new \in T /\ array \notin T /\ new # array
      /\ new \in DOMAIN h /\ P[new] = NULL /\ h[new].next = NULL
      /\ new \in Ptrs /\ array \in Ptrs
  BY <1>0, <1>1, ReachedFacts, GroveTree DEF Grove, Rooted, IsHeap, Ptrs
<1>4. \A i \in DOMAIN h : new # h[i].child /\ new # h[i].next
  BY <1>0, <1>3 DEF Rooted
<1>5. a \in DOMAIN h /\ a \notin T
  <2>1. \A i \in T : P[i] \in T \/ P[i] = P[new]
    <3> HIDE DEF T
    <3> QED BY <1>0, <1>3, TreeParents DEF T
  <2> HIDE DEF T
  <2> QED BY <1>0, <1>1, <1>2, <1>3, <2>1
<1>6. new # after /\ new # first /\ new # prev /\ new # h[first].prev
  BY <1>0, <1>1, <1>2, <1>3
<1>7. /\ DOMAIN g = DOMAIN h /\ IsHeap(g) /\ SameData(h, g)
      /\ \A i \in DOMAIN h :
            Wired(h, g, i,
              IF i = array /\ after = first THEN new ELSE h[i].child,
              IF i = prev /\ after # first THEN new
              ELSE IF i = new THEN after ELSE h[i].next,
              IF i = after THEN new ELSE IF i = new THEN prev ELSE h[i].prev)
  BY <1>0, <1>1, <1>2, <1>3, <1>6, InsertWired
<1>8. \A i \in DOMAIN h :
         /\ g[i].child = IF i = array /\ after = first THEN new ELSE h[i].child
         /\ g[i].next = IF i = prev /\ after # first THEN new
                        ELSE IF i = new THEN after ELSE h[i].next
         /\ g[i].prev = IF i = after THEN new ELSE IF i = new THEN prev ELSE h[i].prev
  <2> DEFINE C(i) == IF i = array /\ after = first THEN new ELSE h[i].child
             N(i) == IF i = prev /\ after # first THEN new
                     ELSE IF i = new THEN after ELSE h[i].next
             V(i) == IF i = after THEN new ELSE IF i = new THEN prev ELSE h[i].prev
  <2>1. \A i \in DOMAIN h : Wired(h, g, i, C(i), N(i), V(i))
    BY ONLY <1>7
  <2> HIDE DEF C, N, V, g
  <2>2. \A i \in DOMAIN h : g[i].child = C(i) /\ g[i].next = N(i) /\ g[i].prev = V(i)
    BY ONLY <2>1 DEF Wired
  <2> HIDE DEF first, prev
  <2> QED BY ONLY <2>2 DEF C, N, V
<1>9. /\ Q \in [DOMAIN h -> Ptrs] /\ Q[new] = array
      /\ \A i \in DOMAIN h \ {new} : Q[i] = P[i]
  <2>1. P \in [DOMAIN h -> Ptrs] BY <1>0 DEF Linked
  <2>2. new \in DOMAIN h /\ array \in Ptrs BY <1>0, <1>3
  <2> QED BY ONLY <2>1, <2>2, WithParent DEF Q
<1>10. \A i \in DOMAIN h, j \in DOMAIN h : h[i].child # NULL => h[i].child # h[j].next
  BY <1>0, ChildNotNext
<1>11. Rooted(g, R \ {new})
  <2>1. /\ Redirects(h, g, a, after, new) /\ g[new].child = h[new].child
        /\ g[new].next = after
        /\ \A i \in DOMAIN h \ {a, new} : SameLinks(h, g, i)
    <3> HIDE DEF g, prev, first
    <3>1. CASE after = first
      BY <1>1, <1>3, <1>5, <1>6, <1>8, <3>1 DEF Redirects, SameLinks, first
    <3>2. CASE after # first
      BY <1>1, <1>2, <1>3, <1>5, <1>6, <1>8, <3>2 DEF Redirects, SameLinks
    <3> QED BY <3>1, <3>2
  <2> HIDE DEF g, a
  <2> QED BY <1>0, <1>3, <1>5, <1>7, <2>1, AttachRooted
<1>12. Linked(g, Q)
  <2> HIDE DEF g, Q
  <2>1. ASSUME NEW i \in DOMAIN h, g[i].child # NULL
        PROVE  LET c == g[i].child
               IN  /\ c \in DOMAIN g /\ Q[c] = i
                   /\ g[c].prev \in DOMAIN g /\ Q[g[c].prev] = i
                   /\ g[g[c].prev].next = NULL
    <3>1. h[i].child # NULL =>
             /\ h[i].child \in DOMAIN h /\ P[h[i].child] = i
             /\ h[h[i].child].prev \in DOMAIN h /\ P[h[h[i].child].prev] = i
             /\ h[h[h[i].child].prev].next = NULL
      BY <1>0 DEF Linked
    <3>2. CASE i = array /\ after = first
      <4>1. g[i].child = new /\ g[new].prev = prev /\ h[prev].next = NULL
        BY <1>1, <1>3, <1>6, <1>8, <3>2
      <4>2. g[prev].next = NULL
        BY <1>2, <1>6, <1>8, <3>2, <4>1
      <4> QED BY <1>2, <1>3, <1>6, <1>7, <1>9, <3>2, <4>1, <4>2
    <3>3. CASE ~(i = array /\ after = first)
      <4>1. g[i].child = h[i].child /\ h[i].child # NULL BY <1>8, <2>1, <3>3
      <4>2. h[i].child # after
        BY <1>0, <1>1, <1>2, <1>10, <3>1, <3>3, <4>1
      <4>3. h[i].child # new /\ h[h[i].child].prev # new
        BY <1>0, <1>3, <1>4, <3>1, <4>1
      <4>4. g[h[i].child].prev = h[h[i].child].prev
        BY <1>8, <3>1, <4>1, <4>2, <4>3
      <4>5. after # first => h[h[i].child].prev # prev
        BY <1>0, <1>1, <1>2, <3>1, <4>1
      <4> QED BY <1>7, <1>8, <1>9, <3>1, <4>1, <4>3, <4>4, <4>5
    <3> QED BY <3>2, <3>3
  <2>2. ASSUME NEW i \in DOMAIN h, g[i].next # NULL
        PROVE  g[i].next \in DOMAIN g /\ Q[g[i].next] = Q[i] /\ g[g[i].next].prev = i
    <3>1. CASE i = prev /\ after # first
      <4>1. g[i].next = new /\ g[new].prev = prev BY <1>3, <1>6, <1>8, <3>1
      <4> QED BY <1>2, <1>3, <1>6, <1>7, <1>9, <3>1, <4>1
    <3>2. CASE i = new
      <4>1. g[i].next = after /\ g[after].prev = new BY <1>1, <1>6, <1>8, <3>2
      <4> QED BY <1>1, <1>6, <1>7, <1>9, <3>2, <4>1
    <3>3. CASE ~(i = prev /\ after # first) /\ i # new
      <4>1. g[i].next = h[i].next BY <1>8, <3>3
      <4>2. /\ h[i].next \in DOMAIN h /\ P[h[i].next] = P[i] /\ h[h[i].next].prev = i
        BY <1>0, <2>2, <4>1 DEF Linked
      <4>3. h[i].next # new /\ h[i].next # after
        BY <1>0, <1>1, <1>4, <1>10, <3>3, <4>2
      <4> QED BY <1>7, <1>8, <1>9, <3>3, <4>1, <4>2, <4>3
    <3> QED BY <3>1, <3>2, <3>3
  <2> QED BY <1>7, <1>9, <2>1, <2>2 DEF Linked
<1>13. \A r \in R \ {new} : Q[r] = NULL /\ g[r].next = NULL
  <2>1. \A r \in R : r \in DOMAIN h /\ P[r] = NULL /\ h[r].next = NULL
    BY <1>0 DEF Grove, Rooted
  <2> HIDE DEF g, Q, first, prev
  <2> QED BY <1>0, <1>1, <1>2, <1>8, <1>9, <2>1
<1> QED BY <1>7, <1>11, <1>12, <1>13 DEF Grove, Forest

\* What hangs below some items depends on the links of these alone.
LEMMA SameReached ==
    ASSUME NEW h, NEW g, NEW F, DOMAIN g = DOMAIN h,
           \A i \in Reached(h, F) : SameLinks(h, g, i)
    PROVE  Reached(g, F) = Reached(h, F)
<1> DEFINE T == Reached(h, F)
           U == Reached(g, F)
<1>1. /\ T \subseteq DOMAIN h /\ F \cap DOMAIN h \subseteq T /\ Closed(h, T)
      /\ U \subseteq DOMAIN h /\ F \cap DOMAIN h \subseteq U /\ Closed(g, U)
  BY ReachedFacts
<1>2. Closed(g, T)
  BY <1>1 DEF Closed, SameLinks
<1>3. U \subseteq T
  <2> HIDE DEF T
  <2> QED BY <1>1, <1>2, ReachedFacts
<1>4. Closed(h, T \cap U)
  BY <1>1 DEF Closed, SameLinks
<1>5. T \subseteq T \cap U
  <2>1. T \cap U \in SUBSET DOMAIN h /\ F \cap DOMAIN h \subseteq T \cap U
    BY <1>1
  <2> HIDE DEF U
  <2> QED BY <1>4, <2>1, ReachedFacts
<1> QED BY <1>3, <1>5

\* Heaps with the same data and the same pointers are equal.
LEMMA SameHeap ==
    ASSUME NEW h, NEW g, IsHeap(h), IsHeap(g), DOMAIN g = DOMAIN h,
           \A i \in DOMAIN h : Wired(h, g, i, h[i].child, h[i].next, h[i].prev)
    PROVE  g = h
<1>1. \A i \in DOMAIN h : g[i] = h[i]
  <2>1. ASSUME NEW i \in DOMAIN h PROVE g[i] = h[i]
    <3>1. h[i] \in Item /\ g[i] \in Item BY DEF IsHeap
    <3>2. \A x \in Item : x = [type |-> x.type, child |-> x.child, next |-> x.next,
             prev |-> x.prev, string |-> x.string, valuestring |-> x.valuestring]
      BY DEF Item
    <3> QED BY <3>1, <3>2 DEF Wired
  <2> QED BY <2>1
<1> QED BY <1>1 DEF IsHeap

\* The pointers that cJSON_ReplaceItemViaPointer sets.
LEMMA ReplaceWired ==
    ASSUME NEW h, IsHeap(h), NEW parent, NEW item \in DOMAIN h,
           NEW new \in DOMAIN h, new # item
    PROVE  LET g == ReplaceItemViaPointer(h, parent, item, new)
               first == h[parent].child
               next  == h[item].next
               prev  == IF item = first /\ h[item].prev = item THEN new ELSE h[item].prev
           IN  /\ DOMAIN g = DOMAIN h /\ IsHeap(g) /\ SameData(h, g)
               /\ \A i \in DOMAIN h :
                     Wired(h, g, i,
                       IF i = parent /\ item = first THEN new ELSE h[i].child,
                       IF i = item THEN NULL ELSE IF i = new THEN next
                       ELSE IF i = prev /\ item # first THEN new ELSE h[i].next,
                       IF i = item THEN NULL ELSE IF i = new THEN prev
                       ELSE IF i = next \/ (i = first /\ item # first /\ next = NULL)
                            THEN new ELSE h[i].prev)
<1> DEFINE g == ReplaceItemViaPointer(h, parent, item, new)
           first == h[parent].child
           next == h[item].next
           prev == IF item = first /\ h[item].prev = item THEN new ELSE h[item].prev
           C(i) == IF i = parent /\ item = first THEN new ELSE h[i].child
           N(i) == IF i = prev /\ item # first THEN new ELSE h[i].next
           V(i) == IF i = next \/ (i = first /\ item # first /\ next = NULL)
                   THEN new ELSE h[i].prev
           u == [i \in DOMAIN h |-> [h[i] EXCEPT !.next = N(i), !.prev = V(i), !.child = C(i)]]
<1>1. /\ \A i \in DOMAIN h : h[i] \in Item /\ i \in Ptrs
      /\ NULL \in Ptrs /\ next \in Ptrs /\ prev \in Ptrs
  BY DEF IsHeap, Item, Ptrs
<1>2. g = [u EXCEPT ![new].next = next, ![new].prev = prev,
                    ![item].next = NULL, ![item].prev = NULL]
  BY DEF ReplaceItemViaPointer
<1>3. ASSUME NEW i \in DOMAIN h
      PROVE  Wired(h, g, i, C(i),
                   IF i = item THEN NULL ELSE IF i = new THEN next ELSE N(i),
                   IF i = item THEN NULL ELSE IF i = new THEN prev ELSE V(i))
  <2>1. u[i] = [h[i] EXCEPT !.next = N(i), !.prev = V(i), !.child = C(i)]
    OBVIOUS
  <2>2. N(i) \in Ptrs /\ V(i) \in Ptrs /\ C(i) \in Ptrs
    BY <1>1 DEF Item
  <2> HIDE DEF C, N, V
  <2>3. /\ u[i] \in Item /\ u[i].next = N(i) /\ u[i].prev = V(i) /\ u[i].child = C(i)
        /\ u[i].type = h[i].type /\ u[i].string = h[i].string
        /\ u[i].valuestring = h[i].valuestring
    BY <1>1, <2>1, <2>2 DEF Item
  <2>4. g[i] = IF i = item THEN [u[i] EXCEPT !.next = NULL, !.prev = NULL]
               ELSE IF i = new THEN [u[i] EXCEPT !.next = next, !.prev = prev] ELSE u[i]
    <3>1. DOMAIN u = DOMAIN h /\ u = [j \in DOMAIN u |-> u[j]]
      OBVIOUS
    <3> HIDE DEF u, g, next, prev
    <3>2. PICK u1 : u1 = [u EXCEPT ![new].next = next, ![new].prev = prev]
      OBVIOUS
    <3>3. g = [u1 EXCEPT ![item].next = NULL, ![item].prev = NULL]
      BY <1>2, <3>2
    <3>4. DOMAIN u1 = DOMAIN h
      BY <3>1, <3>2
    <3>5. u1[i] = IF i = new THEN [u[i] EXCEPT !.next = next, !.prev = prev] ELSE u[i]
      BY <3>1, <3>2
    <3>6. g[i] = IF i = item THEN [u1[i] EXCEPT !.next = NULL, !.prev = NULL] ELSE u1[i]
      BY <3>3, <3>4
    <3> QED BY <3>5, <3>6
  <2> HIDE DEF g, u, next, prev
  <2>5. CASE i = item
    <3>0. NULL \in Ptrs BY <1>1
    <3>1. g[i] = [u[i] EXCEPT !.next = NULL, !.prev = NULL] BY <2>4, <2>5
    <3>2. /\ g[i] \in Item /\ g[i].child = C(i) /\ g[i].next = NULL /\ g[i].prev = NULL
          /\ g[i].type = h[i].type /\ g[i].string = h[i].string
          /\ g[i].valuestring = h[i].valuestring
      BY ONLY <2>3, <3>0, <3>1 DEF Item
    <3> QED BY <2>5, <3>2 DEF Wired
  <2>6. CASE i = new
    <3>0. next \in Ptrs /\ prev \in Ptrs BY <1>1
    <3>1. g[i] = [u[i] EXCEPT !.next = next, !.prev = prev] BY <2>4, <2>6
    <3>2. /\ g[i] \in Item /\ g[i].child = C(i) /\ g[i].next = next /\ g[i].prev = prev
          /\ g[i].type = h[i].type /\ g[i].string = h[i].string
          /\ g[i].valuestring = h[i].valuestring
      BY ONLY <2>3, <3>0, <3>1 DEF Item
    <3> QED BY <2>6, <3>2 DEF Wired
  <2>7. CASE i # item /\ i # new
    BY <2>3, <2>4, <2>7 DEF Wired
  <2> QED BY <2>5, <2>6, <2>7
<1>4. DOMAIN g = DOMAIN h /\ g = [i \in DOMAIN g |-> g[i]]
  BY <1>2
<1>5. IsHeap(g) /\ SameData(h, g)
  <2>1. \A i \in DOMAIN h : Wired(h, g, i, g[i].child, g[i].next, g[i].prev)
    <3> HIDE DEF g, C, N, V, prev
    <3> QED BY <1>3 DEF Wired
  <2> HIDE DEF g
  <2> QED BY <1>4, <2>1 DEF IsHeap, SameData, Wired
<1> QED BY <1>3, <1>4, <1>5

\* To replace an item is to detach it and to insert the other where it was.
LEMMA ReplaceIsDetachAndInsert ==
    ASSUME NEW h, NEW R, NEW P, Grove(h, R, P), NEW parent, NEW item,
           InList(h, P, parent, item), NEW new \in R, new # parent
    PROVE  LET h1 == DetachItemViaPointer(h, parent, item)
               next == h[item].next
           IN  ReplaceItemViaPointer(h, parent, item, new) =
                   IF next = NULL THEN add_item_to_array(h1, parent, new)
                   ELSE InsertBefore(h1, parent, next, new)
<1> DEFINE g == ReplaceItemViaPointer(h, parent, item, new)
           h1 == DetachItemViaPointer(h, parent, item)
           first == h[parent].child
           next == h[item].next
           old == h[item].prev
           prev == IF item = first /\ old = item THEN new ELSE old
           g1 == IF next = NULL THEN add_item_to_array(h1, parent, new)
                 ELSE InsertBefore(h1, parent, next, new)
<1>0. /\ Forest(h, R, P) /\ IsHeap(h) /\ Linked(h, P) /\ Rooted(h, R)
      /\ NULL \notin DOMAIN h
  BY DEF Grove, Forest, IsHeap, Ids, NULL
<1>1. /\ parent \in DOMAIN h /\ item \in DOMAIN h /\ P[item] = parent
      /\ first \in DOMAIN h /\ P[first] = parent
      /\ old \in DOMAIN h /\ P[old] = parent
      /\ next # NULL => next \in DOMAIN h /\ P[next] = parent /\ h[next].prev = item
      /\ item # first => h[old].next = item
      /\ item = first => h[old].next = NULL
  BY <1>0 DEF InList, Linked
<1>2. /\ new \in DOMAIN h /\ P[new] = NULL /\ h[new].next = NULL
      /\ \A i \in DOMAIN h : new # h[i].child /\ new # h[i].next
  BY <1>0 DEF Grove, Rooted
<1>3. new \notin {item, old, next, first, parent} /\ next # item
  <2>1. item \in Reached(h, {item}) BY <1>1, ReachedFacts
  <2>2. next # item
    BY <1>0, <1>1, <2>1, NoReturn
  <2> QED BY <1>0, <1>1, <1>2, <2>2
<1>4. /\ DOMAIN g = DOMAIN h /\ IsHeap(g)
      /\ \A i \in DOMAIN h :
            Wired(h, g, i,
              IF i = parent /\ item = first THEN new ELSE h[i].child,
              IF i = item THEN NULL ELSE IF i = new THEN next
              ELSE IF i = prev /\ item # first THEN new ELSE h[i].next,
              IF i = item THEN NULL ELSE IF i = new THEN prev
              ELSE IF i = next \/ (i = first /\ item # first /\ next = NULL)
                   THEN new ELSE h[i].prev)
  BY <1>0, <1>1, <1>2, <1>3, ReplaceWired
<1>5. /\ DOMAIN h1 = DOMAIN h /\ IsHeap(h1)
      /\ \A i \in DOMAIN h :
            Wired(h, h1, i,
              IF i = parent /\ item = first THEN next ELSE h[i].child,
              IF i = item THEN NULL
              ELSE IF i = old /\ item # first THEN next ELSE h[i].next,
              IF i = item THEN NULL
              ELSE IF i = next \/ (i = first /\ item # first /\ next = NULL)
                   THEN old ELSE h[i].prev)
  BY <1>0, <1>1, DetachWired
<1>6. \A i \in DOMAIN h :
         /\ h1[i].child = IF i = parent /\ item = first THEN next ELSE h[i].child
         /\ h1[i].next = IF i = item THEN NULL
                         ELSE IF i = old /\ item # first THEN next ELSE h[i].next
         /\ h1[i].prev = IF i = item THEN NULL
              ELSE IF i = next \/ (i = first /\ item # first /\ next = NULL)
                   THEN old ELSE h[i].prev
         /\ h1[i].type = h[i].type /\ h1[i].string = h[i].string
         /\ h1[i].valuestring = h[i].valuestring
  <2> HIDE DEF h1, first, next, old
  <2> QED BY <1>5 DEF Wired
<1>7. \A i \in DOMAIN h :
         /\ g[i].child = IF i = parent /\ item = first THEN new ELSE h[i].child
         /\ g[i].next = IF i = item THEN NULL ELSE IF i = new THEN next
              ELSE IF i = prev /\ item # first THEN new ELSE h[i].next
         /\ g[i].prev = IF i = item THEN NULL ELSE IF i = new THEN prev
              ELSE IF i = next \/ (i = first /\ item # first /\ next = NULL)
                   THEN new ELSE h[i].prev
         /\ g[i].type = h[i].type /\ g[i].string = h[i].string
         /\ g[i].valuestring = h[i].valuestring
         /\ g[i] \in Item
  <2> HIDE DEF g, first, next, prev
  <2> QED BY <1>4 DEF Wired
<1>8. CASE next # NULL
  <2>1. item # first => next # first
    BY <1>0, <1>1, ChildNotNext
  <2>2. /\ DOMAIN g1 = DOMAIN h1 /\ IsHeap(g1)
        /\ \A i \in DOMAIN h1 :
              Wired(h1, g1, i,
                IF i = parent /\ next = h1[parent].child THEN new ELSE h1[i].child,
                IF i = h1[next].prev /\ next # h1[parent].child THEN new
                ELSE IF i = new THEN next ELSE h1[i].next,
                IF i = next THEN new ELSE IF i = new THEN h1[next].prev ELSE h1[i].prev)
    <3>1. g1 = InsertBefore(h1, parent, next, new)
      BY <1>8
    <3>2. /\ parent \in DOMAIN h1 /\ next \in DOMAIN h1 /\ new \in DOMAIN h1 /\ new # next
          /\ h1[next].prev \in DOMAIN h1
      BY <1>1, <1>2, <1>3, <1>5, <1>6, <1>8
    <3> HIDE DEF g1, h1, next
    <3> QED BY <1>5, <3>1, <3>2, InsertWired
  <2> HIDE DEF g, g1, h1, first, next
  <2>3. /\ h1[next].prev = old /\ h1[item].next = NULL /\ h1[item].prev = NULL
        /\ next = h1[parent].child <=> item = first
    BY <1>1, <1>3, <1>6, <1>8, <2>1 DEF first, next
  <2>4. item # first \/ old # item
    BY <1>1, <1>8 DEF next, old
  <2>5. prev = old
    BY <2>4
  <2> HIDE DEF prev
  <2>8. old # item
    BY <1>1, <1>3, <1>8, <2>4 DEF next
  <2>6. ASSUME NEW i \in DOMAIN h
        PROVE  Wired(g1, g, i, g1[i].child, g1[i].next, g1[i].prev)
    <3> HIDE DEF old
    <3>1. Wired(h1, g1, i,
                IF i = parent /\ item = first THEN new ELSE h1[i].child,
                IF i = old /\ item # first THEN new
                ELSE IF i = new THEN next ELSE h1[i].next,
                IF i = next THEN new ELSE IF i = new THEN old ELSE h1[i].prev)
      BY <1>5, <2>2, <2>3
    <3>2. g[i].child = g1[i].child
      BY <1>6, <1>7, <3>1 DEF Wired
    <3>3. g[i].next = g1[i].next
      BY <1>3, <1>6, <1>7, <2>3, <2>5, <2>8, <3>1 DEF Wired
    <3>4. g[i].prev = g1[i].prev
      BY <1>3, <1>6, <1>7, <1>8, <2>3, <2>5, <3>1 DEF Wired
    <3> QED BY <1>6, <1>7, <3>1, <3>2, <3>3, <3>4 DEF Wired
  <2>7. g = g1
    BY <1>4, <1>5, <2>2, <2>6, SameHeap
  <2> QED BY <2>7 DEF g, g1, h1, next
<1>9. CASE next = NULL
  <2>1. /\ h1[parent].child = IF item = first THEN NULL ELSE first
        /\ item # first => h1[first].prev = old
        /\ h1[new].next = NULL /\ h1[item].next = NULL /\ h1[item].prev = NULL
    <3> HIDE DEF h1
    <3> QED BY <1>1, <1>2, <1>3, <1>6, <1>9
  <2>2. LET child == h1[parent].child
            last  == h1[child].prev
        IN  /\ DOMAIN g1 = DOMAIN h1 /\ IsHeap(g1)
            /\ \A i \in DOMAIN h1 :
                  IF child = NULL
                  THEN Wired(h1, g1, i, IF i = parent THEN new ELSE h1[i].child,
                             h1[i].next, IF i = new THEN new ELSE h1[i].prev)
                  ELSE Wired(h1, g1, i, h1[i].child, IF i = last THEN new ELSE h1[i].next,
                             IF i = child THEN new ELSE IF i = new THEN last ELSE h1[i].prev)
    <3>1. g1 = add_item_to_array(h1, parent, new)
      BY <1>9
    <3>2. /\ parent \in DOMAIN h1 /\ new \in DOMAIN h1 /\ new # parent
          /\ h1[parent].child # NULL =>
                /\ h1[parent].child \in DOMAIN h1 /\ h1[parent].child # new
                /\ h1[h1[parent].child].prev \in DOMAIN h1
                /\ h1[h1[parent].child].prev # new
      <4> HIDE DEF g1, h1
      <4> QED BY <1>1, <1>2, <1>3, <1>5, <2>1
    <3> HIDE DEF g1, h1
    <3> QED BY <1>5, <2>1, <3>1, <3>2, AddWired
  <2>3. CASE item = first
    <3>1. old = item
      <4> DEFINE S == {i \in DOMAIN h : P[i] # parent \/ i = item}
      <4>1. Closed(h, S) /\ R \subseteq S
        BY <1>0, <1>1, <1>9, <2>3 DEF Closed, Linked, Grove, Rooted
      <4>2. S = DOMAIN h
        <5> HIDE DEF S
        <5> QED BY <1>0, <4>1, ReachesAll DEF S
      <4> QED BY <1>1, <4>2
    <3> HIDE DEF g, g1, h1, old
    <3>2. ASSUME NEW i \in DOMAIN h
          PROVE  Wired(g1, g, i, g1[i].child, g1[i].next, g1[i].prev)
      <4>1. Wired(h1, g1, i, IF i = parent THEN new ELSE h1[i].child,
                  h1[i].next, IF i = new THEN new ELSE h1[i].prev)
        BY <1>5, <2>1, <2>2, <2>3
      <4> HIDE DEF first, next
      <4>2. g[i].child = g1[i].child /\ g[i].next = g1[i].next
        BY <1>2, <1>3, <1>6, <1>7, <1>9, <2>3, <4>1 DEF Wired
      <4>3. g[i].prev = g1[i].prev
        BY <1>0, <1>3, <1>6, <1>7, <1>9, <2>3, <3>1, <4>1 DEF Wired
      <4> QED BY <1>6, <1>7, <4>1, <4>2, <4>3 DEF Wired
    <3>3. g = g1
      BY <1>4, <1>5, <2>2, <3>2, SameHeap
    <3> QED BY <3>3 DEF g, g1, h1
  <2>4. CASE item # first
    <3> HIDE DEF g, g1, h1, old, first
    <3>2. ASSUME NEW i \in DOMAIN h
          PROVE  Wired(g1, g, i, g1[i].child, g1[i].next, g1[i].prev)
      <4>1. Wired(h1, g1, i, h1[i].child, IF i = old THEN new ELSE h1[i].next,
                  IF i = first THEN new ELSE IF i = new THEN old ELSE h1[i].prev)
        BY <1>0, <1>1, <1>5, <2>1, <2>2, <2>4
      <4> HIDE DEF next
      <4>2. g[i].child = g1[i].child
        BY <1>6, <1>7, <2>4, <4>1 DEF Wired
      <4>3. g[i].next = g1[i].next
        <5>1. old # item BY <1>0, <1>1, <1>9, <2>4 DEF next
        <5> QED BY <1>2, <1>3, <1>6, <1>7, <1>9, <2>4, <4>1, <5>1 DEF Wired
      <4>4. g[i].prev = g1[i].prev
        BY <1>0, <1>3, <1>6, <1>7, <1>9, <2>4, <4>1 DEF Wired
      <4> QED BY <1>6, <1>7, <4>1, <4>2, <4>3, <4>4 DEF Wired
    <3>3. g = g1
      BY <1>4, <1>5, <2>2, <3>2, SameHeap
    <3> QED BY <3>3 DEF g, g1, h1
  <2> QED BY <2>3, <2>4
<1> QED BY <1>8, <1>9

\* cJSON_ReplaceItemViaPointer, before the item it took out is deleted: what it
\* is going to delete is what hung below the item.
LEMMA ReplaceGrove ==
    ASSUME NEW h, NEW R, NEW P, Grove(h, R, P), NEW parent, NEW item,
           InList(h, P, parent, item), NEW new \in R, parent \notin Tree(h, new)
    PROVE  LET g == ReplaceItemViaPointer(h, parent, item, new)
           IN  /\ HasGrove(g, (R \ {new}) \cup {item})
               /\ SameData(h, g)
               /\ Reached(g, {item}) = Tree(h, item)
<1> DEFINE g == ReplaceItemViaPointer(h, parent, item, new)
           h1 == DetachItemViaPointer(h, parent, item)
           Q1 == With(P, item, NULL)
           Q == With(Q1, new, parent)
           first == h[parent].child
           next == h[item].next
           prev == h[item].prev
           a == IF item = first THEN parent ELSE prev
           T == Reached(h, {new})
           K == Reached(h, {h[item].child})
<1>0. /\ Forest(h, R, P) /\ IsHeap(h) /\ Linked(h, P) /\ Rooted(h, R)
      /\ NULL \notin DOMAIN h
  BY DEF Grove, Forest, IsHeap, Ids, NULL
<1>1. /\ parent \in DOMAIN h /\ item \in DOMAIN h /\ P[item] = parent
      /\ first \in DOMAIN h /\ P[first] = parent
      /\ next # NULL => next \in DOMAIN h /\ P[next] = parent
      /\ item # first => prev \in DOMAIN h /\ P[prev] = parent /\ h[prev].next = item
  BY <1>0 DEF InList, Linked
<1>2. /\ new \in DOMAIN h /\ P[new] = NULL /\ h[new].next = NULL
      /\ \A i \in DOMAIN h : new # h[i].child /\ new # h[i].next
  BY <1>0 DEF Grove, Rooted
<1>3. new \in T /\ parent \notin T /\ new # parent /\ new # item
  BY <1>0, <1>1, <1>2, ReachedFacts, GroveTree
<1>4. /\ DOMAIN h1 = DOMAIN h /\ IsHeap(h1)
      /\ \A i \in DOMAIN h :
            Wired(h, h1, i,
              IF i = parent /\ item = first THEN next ELSE h[i].child,
              IF i = item THEN NULL
              ELSE IF i = prev /\ item # first THEN next ELSE h[i].next,
              IF i = item THEN NULL
              ELSE IF i = next \/ (i = first /\ item # first /\ next = NULL)
                   THEN prev ELSE h[i].prev)
  BY <1>0, <1>1, DetachWired
<1>5. \A i \in DOMAIN h :
         /\ h1[i].child = IF i = parent /\ item = first THEN next ELSE h[i].child
         /\ h1[i].next = IF i = item THEN NULL
                         ELSE IF i = prev /\ item # first THEN next ELSE h[i].next
  <2> HIDE DEF h1, first, next, prev
  <2> QED BY <1>4 DEF Wired
<1>6. /\ \A i \in DOMAIN h \ {a, item} : SameLinks(h, h1, i)
      /\ a \in DOMAIN h /\ item \in {h[a].child, h[a].next}
  <2> HIDE DEF h1, next
  <2> QED BY <1>1, <1>5 DEF SameLinks
<1>7. Grove(h1, R \cup {item}, Q1) /\ SameData(h, h1)
  BY DetachGrove
<1>8. Reached(h1, {new}) = T /\ parent \notin Tree(h1, new)
  <2>1. \A i \in T : P[i] \in T \/ P[i] = P[new]
    <3>1. Forest(h, R, P) /\ new \in DOMAIN h BY <1>0, <1>2
    <3>2. \A i \in Reached(h, {new}) : P[i] \in Reached(h, {new}) \/ P[i] = P[new]
      BY <3>1, TreeParents
    <3> QED BY <3>2
  <2>2. a \notin T /\ item \notin T
    <3> HIDE DEF T
    <3> QED BY <1>0, <1>1, <1>2, <1>3, <2>1
  <2>3. \A i \in T : SameLinks(h, h1, i)
    <3> HIDE DEF h1, a
    <3> QED BY <1>6, <2>2, ReachedFacts
  <2>4. Reached(h1, {new}) = T
    <3> HIDE DEF h1
    <3> QED BY <1>4, <2>3, SameReached
  <2>5. Tree(h1, new) = Reached(h1, {new})
    <3> HIDE DEF h1
    <3> QED BY <1>7, GroveTree
  <2> QED BY <1>3, <2>4, <2>5
<1>9. Grove(g, (R \ {new}) \cup {item}, Q) /\ SameData(h1, g)
  <2>0. (R \cup {item}) \ {new} = (R \ {new}) \cup {item}
    BY <1>3
  <2>1. g = IF next = NULL THEN add_item_to_array(h1, parent, new)
            ELSE InsertBefore(h1, parent, next, new)
    BY <1>3, ReplaceIsDetachAndInsert
  <2>2. CASE next = NULL
    <3>1. g = add_item_to_array(h1, parent, new)
      BY <2>1, <2>2
    <3>2. new \in R \cup {item} /\ parent \in DOMAIN h1
      BY <1>1, <1>4
    <3> HIDE DEF g, h1, Q1
    <3> QED BY <1>7, <1>8, <2>0, <3>1, <3>2, AddGrove
  <2>3. CASE next # NULL
    <3>1. g = InsertBefore(h1, parent, next, new)
      BY <2>1, <2>3
    <3>2. next # item
      <4>1. item \in Reached(h, {item}) BY <1>1, ReachedFacts
      <4> QED BY <1>0, <1>1, <2>3, <4>1, NoReturn
    <3>3. InList(h1, Q1, parent, next)
      <4>1. Q1[next] = parent BY <1>0, <1>1, <2>3, <3>2 DEF With, Linked
      <4> HIDE DEF h1, Q1, prev
      <4>2. CASE item = first
        <5>1. h1[parent].child = next BY <1>1, <1>5, <4>2
        <5> QED BY <1>1, <1>4, <2>3, <4>1, <5>1 DEF InList
      <4>3. CASE item # first
        <5>1. h1[parent].child = first /\ first # NULL BY <1>0, <1>1, <1>5, <4>3
        <5>2. prev # item BY <1>0, <1>1, <2>3, <3>2, <4>3
        <5>3. h1[prev].next = next BY <1>1, <1>5, <4>3, <5>2
        <5> QED BY <1>1, <1>4, <2>3, <4>1, <4>3, <5>1, <5>3 DEF InList
      <4> QED BY <4>2, <4>3
    <3> HIDE DEF g, h1, Q1
    <3> QED BY <1>7, <1>8, <2>0, <3>1, <3>3, InsertGrove
  <2> QED BY <2>2, <2>3
<1>10. Reached(g, {item}) = Tree(h, item)
  <2>1. Tree(g, item) = Reached(g, {item})
    <3> HIDE DEF g, Q
    <3> QED BY <1>9, GroveTree
  <2>2. a \notin Reached(h, {item})
    BY <1>0, <1>1, <1>6, NoReturn
  <2>3. a \notin K /\ item \notin K /\ new \notin K
    <3>1. K \subseteq Reached(h, {item})
      <4>1. Reached(h, {item}) \in SUBSET DOMAIN h /\ Closed(h, Reached(h, {item}))
            /\ item \in Reached(h, {item})
        BY <1>1, ReachedFacts
      <4>2. {h[item].child} \cap DOMAIN h \subseteq Reached(h, {item})
        BY <4>1 DEF Closed
      <4> DEFINE U == Reached(h, {item})
      <4> HIDE DEF U
      <4>3. U \in SUBSET DOMAIN h /\ Closed(h, U) /\ {h[item].child} \cap DOMAIN h \subseteq U
        BY <4>1, <4>2 DEF U
      <4>4. K \subseteq U BY <4>3, ReachedFacts
      <4> QED BY <4>4 DEF U
    <3>2. item \notin K
      <4>1. CASE h[item].child \in DOMAIN h BY <1>0, <1>1, <4>1, NoReturn
      <4>2. CASE h[item].child \notin DOMAIN h
        <5>1. Closed(h, {}) BY DEF Closed
        <5>2. K \subseteq {} BY <4>2, <5>1, ReachedFacts
        <5> QED BY <5>2
      <4> QED BY <4>1, <4>2
    <3>3. new \notin K
      <4>1. Closed(h, K \ {new}) /\ K \ {new} \in SUBSET DOMAIN h
        BY <1>2, ReachedFacts DEF Closed
      <4>2. {h[item].child} \cap DOMAIN h \subseteq K \ {new}
        BY <1>1, <1>2, ReachedFacts
      <4> HIDE DEF K
      <4>3. K \subseteq K \ {new} BY <4>1, <4>2, ReachedFacts DEF K
      <4> QED BY <4>3
    <3> QED BY <2>2, <3>1, <3>2, <3>3
  <2>4. \A i \in K \cup {item} :
           g[i].child = h[i].child /\ (i # item => g[i].next = h[i].next)
    <3>1. \A i \in DOMAIN h :
             /\ g[i].child = IF i = parent /\ item = first THEN new ELSE h[i].child
             /\ i \notin {item, new} /\ (item = first \/ i # prev) => g[i].next = h[i].next
      <4> DEFINE p == IF item = first /\ prev = item THEN new ELSE prev
      <4>1. \A i \in DOMAIN h :
               Wired(h, g, i,
                 IF i = parent /\ item = first THEN new ELSE h[i].child,
                 IF i = item THEN NULL ELSE IF i = new THEN next
                 ELSE IF i = p /\ item # first THEN new ELSE h[i].next,
                 IF i = item THEN NULL ELSE IF i = new THEN p
                 ELSE IF i = next \/ (i = first /\ item # first /\ next = NULL)
                      THEN new ELSE h[i].prev)
        BY <1>0, <1>1, <1>2, <1>3, ReplaceWired
      <4> HIDE DEF g, first, next, prev
      <4> QED BY <4>1 DEF Wired
    <3>2. K \cup {item} \subseteq DOMAIN h /\ item \in Reached(h, {item})
      BY <1>1, ReachedFacts
    <3> HIDE DEF g, K, first, next, prev
    <3> QED BY <2>2, <2>3, <3>1, <3>2
  <2>5. \A i \in K : SameLinks(h, g, i)
    BY <2>3, <2>4 DEF SameLinks
  <2>6. DOMAIN g = DOMAIN h
    BY <1>4, <1>9 DEF SameData
  <2>7. Reached(g, {h[item].child}) = K
    <3> HIDE DEF g
    <3> QED BY <2>5, <2>6, SameReached
  <2> QED BY <2>1, <2>4, <2>7 DEF Tree
<1>11. SameData(h, g)
  <2> HIDE DEF g, h1
  <2> QED BY <1>7, <1>9 DEF SameData
<1> HIDE DEF g, Q
<1> QED BY <1>9, <1>10, <1>11 DEF g, HasGrove

-----------------------------------------------------------------------------
(***************************************************************************)
(* Lists: the loops over next.                                             *)
(***************************************************************************)
\* Every set of numbers has a least one, which is how a loop is followed here:
\* there is no first round in which what is claimed of the rounds is false.
LEMMA LeastNatural ==
    ASSUME NEW T, T \subseteq Nat, T # {}
    PROVE  \E m \in T : \A n \in T : m <= n
<1>1. IsWellFoundedOn(OpToRel(<, Nat), Nat)
  BY NatLessThanWellFounded
<1>2. PICK m \in T : \A n \in T : ~(<<n, m>> \in OpToRel(<, Nat))
  BY <1>1, WFMin
<1>3. \A n \in T : ~(n < m)
  BY <1>2 DEF OpToRel
<1> QED BY <1>3

\* A loop of N rounds on a state in S has a run.
HasRun(S, init, step, N) ==
    \E F \in [0 .. N -> S] :
        F[0] = init /\ \A n \in 1 .. N : F[n] = step[F[n - 1]]

\* A step can be repeated any number of times.
LEMMA Iterates ==
    ASSUME NEW S, NEW init \in S, NEW step \in [S -> S], NEW N \in Nat
    PROVE  HasRun(S, init, step, N)
<1> DEFINE Runs(k) == \E F \in [0 .. k -> S] :
                         F[0] = init /\ \A n \in 1 .. k : F[n] = step[F[n - 1]]
           T == {k \in Nat : ~Runs(k)}
<1>1. T = {}
  <2> SUFFICES ASSUME T # {} PROVE FALSE
    OBVIOUS
  <2>1. PICK m \in T : \A n \in T : m <= n
    <3>1. T \subseteq Nat OBVIOUS
    <3> HIDE DEF T
    <3> QED BY <3>1, LeastNatural
  <2>2. m # 0
    <3> DEFINE F == [n \in 0 .. 0 |-> init]
    <3>1. F \in [0 .. 0 -> S] /\ F[0] = init /\ 1 .. 0 = {}
      OBVIOUS
    <3> HIDE DEF F
    <3>2. Runs(0) BY <3>1
    <3> QED BY <2>1, <3>2
  <2>3. m \in Nat /\ m - 1 \in Nat /\ Runs(m - 1)
    <3> HIDE DEF Runs
    <3>1. m \in Nat /\ m - 1 \in Nat BY <2>1, <2>2
    <3>2. m - 1 \notin T
      <4> HIDE DEF T
      <4> QED BY <2>1, <3>1
    <3> QED BY <3>1, <3>2
  <2>4. PICK F \in [0 .. m - 1 -> S] :
           F[0] = init /\ \A n \in 1 .. m - 1 : F[n] = step[F[n - 1]]
    BY <2>3
  <2> DEFINE G == [n \in 0 .. m |-> IF n = m THEN step[F[m - 1]] ELSE F[n]]
  <2>5. G \in [0 .. m -> S] /\ G[0] = init /\ \A n \in 1 .. m : G[n] = step[G[n - 1]]
    <3>1. F[m - 1] \in S BY <2>3, <2>4
    <3>2. step[F[m - 1]] \in S BY <3>1
    <3>3. \A n \in 0 .. m : n # m => n \in 0 .. m - 1
      BY <2>3
    <3>4. G \in [0 .. m -> S]
      BY <2>4, <3>2, <3>3
    <3>5. G[0] = init
      BY <2>2, <2>3, <2>4
    <3>6. ASSUME NEW n \in 1 .. m PROVE G[n] = step[G[n - 1]]
      <4>1. G[n - 1] = F[n - 1] BY <2>3, <3>6
      <4>2. CASE n = m BY <2>3, <4>1, <4>2
      <4>3. CASE n # m
        <5>1. n \in 1 .. m - 1 /\ n \in 0 .. m BY <2>3, <3>6, <4>3
        <5> QED BY <2>4, <4>1, <4>3, <5>1
      <4> QED BY <4>2, <4>3
    <3> QED BY <3>4, <3>5, <3>6
  <2> HIDE DEF G
  <2>6. Runs(m) BY <2>5
  <2> QED BY <2>1, <2>6
<1>2. Runs(N) BY <1>1
<1> QED BY <1>2 DEF HasRun

\* Where the loop over a list goes next.
Following(h, first, list) == IF list = <<>> THEN first ELSE h[list[Len(list)]].next
IsRun(h, first, list) ==
    /\ list \in Seq(DOMAIN h)
    /\ list # <<>> => list[1] = first
    /\ \A k \in 1 .. Len(list) - 1 : h[list[k]].next = list[k + 1]

\* After n rounds the loop is through, or has visited n items.
LEMMA ChainRuns ==
    ASSUME NEW h, NEW first
    PROVE  /\ IsRun(h, first, Chain(h, first))
           /\ Len(Chain(h, first)) <= MaxItems
           /\ Len(Chain(h, first)) < MaxItems =>
                 Following(h, first, Chain(h, first)) \notin DOMAIN h
<1> DEFINE V[n \in 0 .. MaxItems] ==
               IF n = 0 THEN <<>>
               ELSE LET list == V[n - 1]
                        i == IF list = <<>> THEN first ELSE h[Last(list)].next
                    IN IF i \in DOMAIN h THEN Append(list, i) ELSE list
           Holds(n) == /\ IsRun(h, first, V[n]) /\ Len(V[n]) <= n
                       /\ Len(V[n]) < n => Following(h, first, V[n]) \notin DOMAIN h
           T == {n \in 0 .. MaxItems : ~Holds(n)}
           S == Seq(DOMAIN h)
           Longer(list) == LET i == IF list = <<>> THEN first ELSE h[Last(list)].next
                           IN IF i \in DOMAIN h THEN Append(list, i) ELSE list
           step == [list \in S |-> Longer(list)]
<1>1. V = [n \in 0 .. MaxItems |->
              IF n = 0 THEN <<>>
              ELSE LET list == V[n - 1]
                       i == IF list = <<>> THEN first ELSE h[Last(list)].next
                   IN IF i \in DOMAIN h THEN Append(list, i) ELSE list]
  <2>1. <<>> \in S /\ \A list \in S : Longer(list) \in S
    <3>1. \A D, list : list \in Seq(D) => \A i \in D : Append(list, i) \in Seq(D)
      OBVIOUS
    <3>2. \A list \in Seq(DOMAIN h) : Longer(list) \in Seq(DOMAIN h)
      BY <3>1
    <3> QED BY <3>2
  <2>2. MaxItems \in Nat
    BY JsonAssumption
  <2>3. PICK F \in [0 .. MaxItems -> S] :
           F[0] = <<>> /\ \A n \in 1 .. MaxItems : F[n] = step[F[n - 1]]
    <3> HIDE DEF Longer, S
    <3>1. step \in [S -> S] BY <2>1
    <3> HIDE DEF step
    <3>2. HasRun(S, <<>>, step, MaxItems)
      BY <2>1, <2>2, <3>1, Iterates
    <3> QED BY <3>2 DEF HasRun
  <2>4. ASSUME NEW n \in 0 .. MaxItems, n # 0
        PROVE  F[n] = Longer(F[n - 1])
    <3> HIDE DEF Longer, S
    <3>1. n - 1 \in 0 .. MaxItems /\ n \in 1 .. MaxItems BY <2>2, <2>4
    <3>2. F[n - 1] \in S BY <2>3, <3>1
    <3>3. step[F[n - 1]] = Longer(F[n - 1]) BY <3>2
    <3> QED BY <2>3, <3>1, <3>3
  <2>5. F = [n \in 0 .. MaxItems |-> IF n = 0 THEN <<>> ELSE Longer(F[n - 1])]
    <3> HIDE DEF Longer, step
    <3> QED BY <2>3, <2>4
  <2>6. F = [n \in 0 .. MaxItems |->
                IF n = 0 THEN <<>>
                ELSE LET list == F[n - 1]
                         i == IF list = <<>> THEN first ELSE h[Last(list)].next
                     IN IF i \in DOMAIN h THEN Append(list, i) ELSE list]
    BY <2>5
  <2> QED BY <2>6
<1>2. Chain(h, first) = V[MaxItems]
  BY DEF Chain
<1> HIDE DEF V
<1>3. MaxItems \in Nat
  BY JsonAssumption
<1>4. T = {}
  <2> SUFFICES ASSUME T # {} PROVE FALSE
    OBVIOUS
  <2>1. PICK m \in T : \A n \in T : m <= n
    <3>1. T \subseteq Nat BY <1>3
    <3> HIDE DEF T
    <3> QED BY <3>1, LeastNatural
  <2>2. m # 0
    <3>1. V[0] = <<>>
      <4>1. 0 \in 0 .. MaxItems BY <1>3
      <4> HIDE DEF T, step, S, Longer, Holds
      <4> QED BY ONLY <1>1, <4>1
    <3>2. Holds(0) BY <3>1 DEF IsRun
    <3> QED BY <2>1, <3>2
  <2>3. m - 1 \in 0 .. MaxItems /\ Holds(m - 1)
    <3>1. m \in 1 .. MaxItems BY <1>3, <2>1, <2>2
    <3>2. m - 1 \notin T BY <2>1, <3>1
    <3> HIDE DEF Holds
    <3> QED BY <1>3, <3>1, <3>2
  <2> DEFINE list == V[m - 1]
             i == Following(h, first, list)
  <2>4. V[m] = IF i \in DOMAIN h THEN Append(list, i) ELSE list
    BY <1>1, <1>3, <2>1, <2>2 DEF Following, Last
  <2>5. list \in Seq(DOMAIN h) /\ Len(list) \in Nat /\ m \in Nat
    BY <1>3, <2>1, <2>3 DEF IsRun
  <2>6. CASE i \in DOMAIN h
    <3>1. V[m] = Append(list, i) /\ Len(list) = m - 1
      BY <2>3, <2>4, <2>5, <2>6
    <3>2. IsRun(h, first, Append(list, i))
      <4> HIDE DEF list, i
      <4>1. IsRun(h, first, list) BY <2>3 DEF list
      <4>2. Append(list, i) \in Seq(DOMAIN h) /\ Len(Append(list, i)) = Len(list) + 1
            /\ Append(list, i)[Len(list) + 1] = i
            /\ \A k \in 1 .. Len(list) : Append(list, i)[k] = list[k]
        BY <2>5, <2>6
      <4>3. Append(list, i)[1] = first
        BY <2>5, <4>1, <4>2 DEF IsRun, i, Following
      <4>4. ASSUME NEW k \in 1 .. Len(list)
            PROVE  h[Append(list, i)[k]].next = Append(list, i)[k + 1]
        <5>1. CASE k = Len(list) BY <2>5, <4>2, <4>4, <5>1 DEF i, Following
        <5>2. CASE k # Len(list) BY <2>5, <4>1, <4>2, <4>4, <5>2 DEF IsRun
        <5> QED BY <5>1, <5>2
      <4> QED BY <2>5, <4>2, <4>3, <4>4 DEF IsRun
    <3>3. Len(V[m]) = m BY <2>5, <2>6, <3>1
    <3>4. Holds(m) BY <2>5, <3>1, <3>2, <3>3
    <3> QED BY <2>1, <3>4
  <2>7. CASE i \notin DOMAIN h
    <3>1. V[m] = list BY <2>4, <2>7
    <3>2. Holds(m) BY <2>3, <2>5, <2>7, <3>1
    <3> QED BY <2>1, <3>2
  <2> QED BY <2>6, <2>7
<1> QED BY <1>2, <1>3, <1>4

\* An item without a child has no members.
LEMMA NoMembers ==
    ASSUME NEW h, IsHeap(h), NEW p \in DOMAIN h, h[p].child = NULL
    PROVE  Members(h, p) = <<>>
<1> DEFINE list == Members(h, p)
<1>1. IsRun(h, NULL, list)
  BY ChainRuns DEF Members
<1>2. list \in Seq(DOMAIN h) /\ (list # <<>> => list[1] = NULL)
  BY <1>1 DEF IsRun
<1>3. NULL \notin DOMAIN h
  BY DEF IsHeap, Ids, NULL
<1> HIDE DEF list
<1>4. list # <<>> => list[1] \in DOMAIN h
  BY <1>2
<1>5. list = <<>>
  BY <1>2, <1>3, <1>4
<1> QED BY <1>5 DEF list

\* Members is the children of an item, from the first to the last, each once.
LEMMA MembersFacts ==
    ASSUME NEW h, NEW R, NEW P, Forest(h, R, P), NEW p \in DOMAIN h,
           h[p].child # NULL, \A r \in R : P[r] # p
    PROVE  LET list == Members(h, p)
           IN  /\ list \in Seq(DOMAIN h) /\ list # <<>> /\ list[1] = h[p].child
               /\ \A k \in 1 .. Len(list) - 1 : h[list[k]].next = list[k + 1]
               /\ h[list[Len(list)]].next = NULL
               /\ \A j, k \in 1 .. Len(list) : list[j] = list[k] => j = k
               /\ \A x \in DOMAIN h : P[x] = p <=> \E k \in 1 .. Len(list) : x = list[k]
               /\ Len(list) <= MaxItems
<1> DEFINE list == Members(h, p)
           first == h[p].child
           n == Len(list)
<1>0. /\ IsHeap(h) /\ Linked(h, P) /\ Rooted(h, R) /\ NULL \notin DOMAIN h
      /\ first \in DOMAIN h /\ P[first] = p
  BY DEF Forest, IsHeap, Ids, NULL, Linked
<1>1. /\ IsRun(h, first, list) /\ n <= MaxItems
      /\ n < MaxItems => Following(h, first, list) \notin DOMAIN h
  BY ChainRuns DEF Members
<1>2. MaxItems \in Nat
  BY JsonAssumption
<1> HIDE DEF list
<1>3. /\ list \in Seq(DOMAIN h) /\ n \in Nat /\ (list # <<>> => list[1] = first)
      /\ \A k \in 1 .. n - 1 : h[list[k]].next = list[k + 1]
      /\ \A k \in 1 .. n : list[k] \in DOMAIN h
  BY <1>1 DEF IsRun
<1>4. list # <<>> /\ n >= 1 /\ list[1] = first
  <2>1. CASE n < MaxItems
    BY <1>0, <1>1, <1>3, <2>1 DEF Following
  <2>2. CASE n = MaxItems
    <3>1. MaxItems >= 1 BY <1>0, <1>2 DEF IsHeap, Ids
    <3> QED BY <1>3, <2>2, <3>1
  <2> QED BY <1>1, <1>2, <1>3, <2>1, <2>2
<1>5. \A j \in DOMAIN h : first # h[j].next
  BY <1>0, ChildNotNext
<1>6. ASSUME NEW i \in 1 .. n, NEW k \in 1 .. n, i < k PROVE list[i] # list[k]
  <2> DEFINE T == {j \in 1 .. n : \E m \in 1 .. n : j < m /\ list[j] = list[m]}
  <2>1. T = {}
    <3> SUFFICES ASSUME T # {} PROVE FALSE
      OBVIOUS
    <3>1. PICK j \in T : \A m \in T : j <= m
      <4>1. T \subseteq Nat OBVIOUS
      <4> HIDE DEF T
      <4> QED BY <4>1, LeastNatural
    <3>2. PICK m \in 1 .. n : j < m /\ list[j] = list[m]
      BY <3>1
    <3>3. h[list[m - 1]].next = list[j] /\ list[m - 1] \in DOMAIN h
      <4>1. m - 1 \in 1 .. n - 1 /\ m - 1 \in 1 .. n BY <1>3, <3>1, <3>2
      <4>2. h[list[m - 1]].next = list[(m - 1) + 1] BY <1>3, <4>1
      <4>3. (m - 1) + 1 = m BY <3>2
      <4> QED BY <1>3, <3>2, <4>1, <4>2, <4>3
    <3>4. j # 1 BY <1>4, <1>5, <3>3
    <3>5. h[list[j - 1]].next = list[j] /\ list[j - 1] \in DOMAIN h
      <4>1. j - 1 \in 1 .. n - 1 /\ j - 1 \in 1 .. n BY <1>3, <3>1, <3>2, <3>4
      <4>2. h[list[j - 1]].next = list[(j - 1) + 1] BY <1>3, <4>1
      <4>3. (j - 1) + 1 = j BY <3>1
      <4> QED BY <1>3, <4>1, <4>2, <4>3
    <3>6. list[j - 1] = list[m - 1]
      <4>1. list[j] \in DOMAIN h BY <1>3, <3>1
      <4> QED BY <1>0, <3>3, <3>5, <4>1, OnePointer
    <3>7. j - 1 \in T
      <4>1. n \in Nat /\ j \in 1 .. n /\ m \in 1 .. n /\ j < m /\ j # 1
        BY <1>3, <3>1, <3>2, <3>4
      <4> HIDE DEF n
      <4>2. j - 1 \in 1 .. n /\ m - 1 \in 1 .. n /\ j - 1 < m - 1
        BY ONLY <4>1
      <4> QED BY <3>6, <4>2
    <3>8. j \in Nat BY <3>1
    <3> HIDE DEF T
    <3>9. j <= j - 1 BY <3>1, <3>7
    <3> QED BY <3>8, <3>9
  <2> QED BY <1>6, <2>1
<1>7. \A i, k \in 1 .. n : list[i] = list[k] => i = k
  BY <1>3, <1>6
<1>8. h[list[n]].next = NULL
  <2>1. n \in 1 .. n BY <1>3, <1>4
  <2>2. list[n] \in DOMAIN h BY <1>3, <2>1
  <2>3. CASE n < MaxItems
    <3>1. h[list[n]].next \notin DOMAIN h
      BY <1>1, <1>4, <2>3 DEF Following
    <3> QED BY <1>0, <2>2, <3>1 DEF Linked
  <2>4. CASE n = MaxItems
    <3> SUFFICES ASSUME h[list[n]].next # NULL PROVE FALSE
      OBVIOUS
    <3> DEFINE y == h[list[n]].next
    <3>1. y \in DOMAIN h BY <1>0, <2>2 DEF Linked
    <3>2. PICK k \in 1 .. n : list[k] = y
      <4> DEFINE f == [k \in 1 .. n |-> list[k]]
      <4>1. f \in Injection(1 .. n, Ids)
        <5>1. \A k \in 1 .. n : f[k] = list[k] OBVIOUS
        <5>2. \A k \in 1 .. n : list[k] \in Ids BY <1>0, <1>3 DEF IsHeap
        <5>3. f \in [1 .. n -> Ids] BY <5>2
        <5>4. IsInjective(f) BY <1>7 DEF IsInjective
        <5> QED BY <5>3, <5>4 DEF Injection
      <4>2. IsFiniteSet(Ids) /\ Cardinality(Ids) = MaxItems /\ Cardinality(1 .. n) = n
        <5>1. n >= 1 /\ n \in Int /\ MaxItems \in Int /\ MaxItems >= 1
          BY <1>2, <1>3, <1>4, <2>4
        <5> HIDE DEF n
        <5>2. IsFiniteSet(1 .. MaxItems) /\ Cardinality(1 .. MaxItems) = MaxItems
          BY <5>1, FS_Interval
        <5>3. Cardinality(1 .. n) = n
          BY <5>1, FS_Interval
        <5> QED BY <5>2, <5>3 DEF Ids
      <4> HIDE DEF f, n
      <4>3. f \in Surjection(1 .. n, Ids)
        BY <2>4, <4>1, <4>2, FS_Injection
      <4>4. y \in Ids BY <1>0, <3>1 DEF IsHeap
      <4>5. \E k \in 1 .. n : f[k] = y BY <4>3, <4>4 DEF Surjection
      <4> QED BY <4>5 DEF f
    <3>3. k # 1 BY <1>4, <1>5, <2>2, <3>2
    <3>4. h[list[k - 1]].next = y /\ list[k - 1] \in DOMAIN h /\ k - 1 \in 1 .. n
      <4>1. k - 1 \in 1 .. n - 1 /\ k - 1 \in 1 .. n BY <1>3, <3>2, <3>3
      <4>2. h[list[k - 1]].next = list[(k - 1) + 1] BY <1>3, <4>1
      <4>3. (k - 1) + 1 = k BY <3>2
      <4> QED BY <1>3, <3>2, <4>1, <4>2, <4>3
    <3>5. list[k - 1] = list[n]
      BY <1>0, <2>2, <3>1, <3>4, OnePointer
    <3>6. k - 1 = n BY <1>7, <2>1, <3>4, <3>5
    <3> QED BY <1>3, <3>2, <3>6
  <2> QED BY <1>1, <1>2, <1>3, <2>3, <2>4
<1>9. \A k \in 1 .. n : P[list[k]] = p
  <2> DEFINE T == {k \in 1 .. n : P[list[k]] # p}
  <2> SUFFICES ASSUME T # {} PROVE FALSE
    OBVIOUS
  <2>1. PICK k \in T : \A m \in T : k <= m
    <3>1. T \subseteq Nat OBVIOUS
    <3> HIDE DEF T
    <3> QED BY <3>1, LeastNatural
  <2>2. k # 1 BY <1>0, <1>4, <2>1
  <2>3. k - 1 \in 1 .. n - 1 /\ k - 1 \in 1 .. n /\ (k - 1) + 1 = k
    BY <1>3, <2>1, <2>2
  <2>4. h[list[k - 1]].next = list[k] /\ list[k - 1] \in DOMAIN h /\ list[k] \in DOMAIN h
    <3>1. h[list[k - 1]].next = list[(k - 1) + 1] BY <1>3, <2>3
    <3> QED BY <1>3, <2>1, <2>3, <3>1
  <2>5. P[list[k - 1]] = P[list[k]]
    BY <1>0, <2>4 DEF Linked
  <2>6. k - 1 \in T BY <2>1, <2>3, <2>5
  <2>7. k <= k - 1
    <3> HIDE DEF T
    <3> QED BY <2>1, <2>6
  <2> QED BY <2>1, <2>7
<1>10. ASSUME NEW x \in DOMAIN h, P[x] = p PROVE \E k \in 1 .. n : x = list[k]
  <2> DEFINE S == {y \in DOMAIN h : P[y] # p \/ \E k \in 1 .. n : y = list[k]}
  <2>1. R \subseteq S BY <1>0 DEF Rooted
  <2>2. Closed(h, S)
    <3>1. ASSUME NEW y \in S, NEW z \in {h[y].child, h[y].next} \cap DOMAIN h, P[z] = p
          PROVE  \E k \in 1 .. n : z = list[k]
      <4>1. y \in DOMAIN h /\ z # NULL BY <1>0
      <4>2. CASE z = h[y].child
        <5>1. y = p BY <1>0, <3>1, <4>1, <4>2 DEF Linked
        <5> QED BY <1>3, <1>4, <4>2, <5>1
      <4>3. CASE z = h[y].next
        <5>1. P[y] = p BY <1>0, <3>1, <4>1, <4>3 DEF Linked
        <5>2. PICK k \in 1 .. n : y = list[k] BY <5>1
        <5>3. k # n BY <1>8, <4>1, <4>3, <5>2
        <5>4. k \in 1 .. n - 1 /\ k + 1 \in 1 .. n BY <1>3, <5>2, <5>3
        <5>5. z = list[k + 1] BY <1>3, <4>3, <5>2, <5>4
        <5> QED BY <5>4, <5>5
      <4> QED BY <4>2, <4>3
    <3> QED BY <3>1 DEF Closed
  <2>3. S = DOMAIN h
    <3>1. S \in SUBSET DOMAIN h OBVIOUS
    <3> HIDE DEF S
    <3> QED BY <2>1, <2>2, <3>1, ReachesAll
  <2> QED BY <1>10, <2>3
<1>11. \A x \in DOMAIN h : P[x] = p <=> \E k \in 1 .. n : x = list[k]
  BY <1>9, <1>10
<1> QED BY <1>1, <1>3, <1>4, <1>7, <1>8, <1>11 DEF list

\* The children of an item, as the operations find them.
LEMMA MemberInList ==
    ASSUME NEW h, NEW R, NEW P, Grove(h, R, P), NEW p \in DOMAIN h, NEW i,
           i \in ToSet(Members(h, p))
    PROVE  InList(h, P, p, i)
<1> DEFINE list == Members(h, p)
<1>0. Forest(h, R, P) /\ IsHeap(h) /\ \A r \in R : P[r] # p
  BY DEF Grove, Forest, IsHeap, Ids, NULL
<1>1. h[p].child # NULL
  <2>1. ToSet(<<>>) = {} BY DEF ToSet
  <2> QED BY <1>0, <2>1, NoMembers
<1>2. /\ list \in Seq(DOMAIN h) /\ list[1] = h[p].child
      /\ \A k \in 1 .. Len(list) - 1 : h[list[k]].next = list[k + 1]
      /\ \A x \in DOMAIN h : P[x] = p <=> \E k \in 1 .. Len(list) : x = list[k]
  BY <1>0, <1>1, MembersFacts
<1> HIDE DEF list
<1>3. PICK k \in 1 .. Len(list) : i = list[k]
  BY <1>2 DEF ToSet, list
<1>4. i \in DOMAIN h /\ P[i] = p
  BY <1>2, <1>3
<1>5. CASE k = 1
  BY <1>1, <1>2, <1>3, <1>4, <1>5 DEF InList
<1>6. CASE k # 1
  <2>1. k - 1 \in 1 .. Len(list) - 1 /\ (k - 1) + 1 = k /\ k - 1 \in 1 .. Len(list)
    BY <1>2, <1>3, <1>6
  <2>2. h[list[k - 1]].next = list[(k - 1) + 1] BY <1>2, <2>1
  <2>3. h[list[k - 1]].next = i /\ list[k - 1] \in DOMAIN h
    BY <1>2, <1>3, <2>1, <2>2
  <2> QED BY <1>1, <1>4, <2>3 DEF InList
<1> QED BY <1>5, <1>6

\* get_object_item is the loop it looks like.
LEMMA SearchRuns ==
    ASSUME NEW h, NEW P, IsHeap(h), Linked(h, P), NEW object \in DOMAIN h, NEW name
    PROVE  \E F :
              /\ F[0] = h[object].child
              /\ \A n \in 1 .. MaxItems :
                    F[n] = LET i == F[n - 1]
                           IN IF i = NULL \/ SameKey(name, h[i].string) THEN i
                              ELSE h[i].next
              /\ get_object_item(h, object, name) = F[MaxItems]
<1> DEFINE C[n \in 0 .. MaxItems] ==
               IF n = 0 THEN h[object].child
               ELSE LET i == C[n - 1]
                    IN IF i = NULL \/ SameKey(name, h[i].string) THEN i ELSE h[i].next
           S == DOMAIN h \cup {NULL}
           Step(i) == IF i = NULL \/ SameKey(name, h[i].string) THEN i ELSE h[i].next
           step == [i \in S |-> Step(i)]
<1>1. get_object_item(h, object, name) = C[MaxItems]
  BY DEF get_object_item
<1>2. MaxItems \in Nat
  BY JsonAssumption
<1>3. PICK F \in [0 .. MaxItems -> S] :
         F[0] = h[object].child /\ \A n \in 1 .. MaxItems : F[n] = step[F[n - 1]]
  <2>1. h[object].child \in S /\ \A i \in S : Step(i) \in S
    BY DEF Linked
  <2> HIDE DEF Step
  <2>2. step \in [S -> S] BY <2>1
  <2> HIDE DEF step, S
  <2>3. HasRun(S, h[object].child, step, MaxItems)
    BY <1>2, <2>1, <2>2, Iterates
  <2> QED BY <2>3 DEF HasRun
<1>4. ASSUME NEW n \in 1 .. MaxItems PROVE F[n] = Step(F[n - 1])
  <2> HIDE DEF Step, S
  <2>1. n - 1 \in 0 .. MaxItems BY <1>2, <1>4
  <2>2. F[n - 1] \in S BY <1>3, <2>1
  <2>3. step[F[n - 1]] = Step(F[n - 1]) BY <2>2
  <2> QED BY <1>3, <1>4, <2>3
<1>5. F = [n \in 0 .. MaxItems |-> IF n = 0 THEN h[object].child ELSE Step(F[n - 1])]
  <2>1. ASSUME NEW n \in 0 .. MaxItems
        PROVE  F[n] = IF n = 0 THEN h[object].child ELSE Step(F[n - 1])
    <3> HIDE DEF Step, S
    <3>1. n # 0 => n \in 1 .. MaxItems BY <1>2, <2>1
    <3> QED BY <1>3, <1>4, <3>1
  <2> HIDE DEF Step, S
  <2> QED BY <1>3, <2>1
<1>6. C = [n \in 0 .. MaxItems |->
              IF n = 0 THEN h[object].child
              ELSE LET i == C[n - 1]
                   IN IF i = NULL \/ SameKey(name, h[i].string) THEN i ELSE h[i].next]
  <2>1. F = [n \in 0 .. MaxItems |->
              IF n = 0 THEN h[object].child
              ELSE LET i == F[n - 1]
                   IN IF i = NULL \/ SameKey(name, h[i].string) THEN i ELSE h[i].next]
    BY <1>5
  <2> HIDE DEF Step, step, S
  <2> QED BY <2>1
<1> HIDE DEF C
<1>7. /\ C[0] = h[object].child
      /\ \A n \in 1 .. MaxItems :
            C[n] = LET i == C[n - 1]
                   IN IF i = NULL \/ SameKey(name, h[i].string) THEN i ELSE h[i].next
  <2> HIDE DEF Step, step, S
  <2>1. C[0] = h[object].child
    BY <1>2, <1>6
  <2>2. ASSUME NEW n \in 1 .. MaxItems
        PROVE  C[n] = LET i == C[n - 1]
                      IN IF i = NULL \/ SameKey(name, h[i].string) THEN i ELSE h[i].next
    <3>1. n \in 0 .. MaxItems /\ n # 0 BY <1>2
    <3> QED BY ONLY <1>6, <3>1
  <2> QED BY <2>1, <2>2
<1> QED BY <1>1, <1>7

\* get_object_item returns the first child with the name, NULL if none has it.
LEMMA FindsFirst ==
    ASSUME NEW h, NEW R, NEW P, Grove(h, R, P), NEW object \in DOMAIN h, NEW name
    PROVE  LET list == Members(h, object)
               same == {k \in 1 .. Len(list) : SameKey(name, h[list[k]].string)}
           IN  get_object_item(h, object, name) =
                   IF same = {} THEN NULL ELSE list[Min(same)]
<1> DEFINE list == Members(h, object)
           n == Len(list)
           same == {k \in 1 .. n : SameKey(name, h[list[k]].string)}
           found == get_object_item(h, object, name)
<1>0. /\ Forest(h, R, P) /\ IsHeap(h) /\ Linked(h, P) /\ NULL \notin DOMAIN h
      /\ \A r \in R : P[r] # object
  BY DEF Grove, Forest, IsHeap, Ids, NULL
<1>1. MaxItems \in Nat
  BY JsonAssumption
<1>2. PICK F : /\ F[0] = h[object].child
               /\ \A r \in 1 .. MaxItems :
                     F[r] = LET i == F[r - 1]
                            IN IF i = NULL \/ SameKey(name, h[i].string) THEN i
                               ELSE h[i].next
               /\ found = F[MaxItems]
  BY <1>0, SearchRuns
<1>3. CASE h[object].child = NULL
  <2>1. list = <<>> BY <1>0, <1>3, NoMembers
  <2>2. same = {}
    <3> HIDE DEF list
    <3> QED BY <2>1
  <2> DEFINE T == {r \in 0 .. MaxItems : F[r] # NULL}
  <2> HIDE DEF found
  <2>3. T = {}
    <3> SUFFICES ASSUME T # {} PROVE FALSE
      OBVIOUS
    <3>1. PICK m \in T : \A r \in T : m <= r
      <4>1. T \subseteq Nat BY <1>1
      <4> HIDE DEF T
      <4> QED BY <4>1, LeastNatural
    <3>2. m # 0 /\ m \in 1 .. MaxItems BY <1>1, <1>2, <1>3, <3>1
    <3>3. m - 1 \notin T
      <4>1. m \in Nat BY <1>1, <3>2
      <4> HIDE DEF T
      <4> QED BY <3>1, <4>1
    <3>4. F[m - 1] = NULL BY <1>1, <3>2, <3>3
    <3>5. F[m] = NULL BY <1>2, <3>2, <3>4
    <3> QED BY <3>1, <3>5
  <2>4. found = NULL BY <1>1, <1>2, <2>3
  <2> HIDE DEF same
  <2> QED BY <2>2, <2>4 DEF same, found
<1>4. CASE h[object].child # NULL
  <2>1. /\ list \in Seq(DOMAIN h) /\ list # <<>> /\ list[1] = h[object].child
        /\ \A k \in 1 .. n - 1 : h[list[k]].next = list[k + 1]
        /\ h[list[n]].next = NULL /\ n <= MaxItems
    BY <1>0, <1>4, MembersFacts
  <2> HIDE DEF list, found
  <2>2. /\ n \in Nat /\ n >= 1 /\ n <= MaxItems
        /\ \A k \in 1 .. n : list[k] \in DOMAIN h /\ list[k] # NULL
    BY <1>0, <2>1
  <2>3. same # {} => /\ Min(same) \in same /\ \A k \in same : Min(same) <= k
    <3>1. same # {} => \E m \in same : \A k \in same : m <= k
      <4>1. same \subseteq Nat OBVIOUS
      <4> HIDE DEF same
      <4> QED BY <4>1, LeastNatural
    <3> HIDE DEF same
    <3> QED BY <3>1 DEF Min
  <2> DEFINE last == IF same = {} THEN n ELSE Min(same)
             \* After r rounds the loop is at child r + 1, or has stopped.
             At(r) == IF r + 1 <= last THEN list[r + 1]
                      ELSE IF same = {} THEN NULL ELSE list[last]
             T == {r \in 0 .. MaxItems : F[r] # At(r)}
  <2>4. last \in 1 .. n /\ \A k \in 1 .. n : k < last => k \notin same
    <3>1. same \subseteq 1 .. n OBVIOUS
    <3> HIDE DEF same, n
    <3>2. CASE same = {}
      <4>1. last = n BY <3>2
      <4> HIDE DEF last
      <4> QED BY <2>2, <3>2, <4>1
    <3>3. CASE same # {}
      <4>1. last \in same /\ \A k \in same : last <= k BY <2>3, <3>3
      <4> HIDE DEF last
      <4>2. ASSUME NEW k \in 1 .. n, k < last, k \in same PROVE FALSE
        <5>1. last <= k /\ k \in Nat /\ last \in Nat BY <3>1, <4>1, <4>2
        <5> QED BY <4>2, <5>1
      <4> QED BY <3>1, <4>1, <4>2
    <3> QED BY <3>2, <3>3
  <2>5. T = {}
    <3> SUFFICES ASSUME T # {} PROVE FALSE
      OBVIOUS
    <3>1. PICK m \in T : \A r \in T : m <= r
      <4>1. T \subseteq Nat BY <1>1
      <4> HIDE DEF T
      <4> QED BY <4>1, LeastNatural
    <3>2. m \in 0 .. MaxItems /\ F[m] # At(m) /\ m \in Nat
      BY <1>1, <3>1
    <3>3. m # 0
      <4> HIDE DEF last, same
      <4>1. At(0) = list[1]
        <5>1. 0 + 1 = 1 /\ 1 <= last BY <2>2, <2>4
        <5> QED BY <5>1
      <4> QED BY <1>2, <2>1, <3>2, <4>1
    <3>4. m - 1 \notin T
      <4> HIDE DEF T
      <4> QED BY <3>1, <3>2
    <3> HIDE DEF last
    <3>5. F[m - 1] = At(m - 1) /\ m \in 1 .. MaxItems
      <4>1. m - 1 \in 0 .. MaxItems /\ m \in 1 .. MaxItems BY <1>1, <3>2, <3>3
      <4> HIDE DEF At
      <4> QED BY <3>4, <4>1
    <3> HIDE DEF T
    <3>6. last \in Nat /\ last >= 1 /\ last <= n BY <2>2, <2>4
    <3>7. F[m] = LET i == F[m - 1]
                 IN IF i = NULL \/ SameKey(name, h[i].string) THEN i ELSE h[i].next
      BY <1>2, <3>5
    <3>8. CASE m < last
      <4>1. F[m - 1] = list[m] BY <3>2, <3>5, <3>6, <3>8
      <4>2. m \in 1 .. n /\ m \notin same /\ m \in 1 .. n - 1
        BY <2>2, <2>4, <3>2, <3>3, <3>6, <3>8
      <4>3. list[m] # NULL /\ ~SameKey(name, h[list[m]].string)
        BY <2>2, <4>2
      <4>4. F[m] = list[m + 1] BY <2>1, <3>7, <4>1, <4>2, <4>3
      <4>5. At(m) = list[m + 1] BY <3>2, <3>6, <3>8
      <4> QED BY <3>2, <4>4, <4>5
    <3>9. CASE m = last
      <4>1. F[m - 1] = list[last] BY <3>2, <3>5, <3>6, <3>9
      <4>2. list[last] # NULL BY <2>2, <2>4
      <4>3. At(m) = IF same = {} THEN NULL ELSE list[last] BY <3>2, <3>6, <3>9
      <4>4. CASE same = {}
        <5>1. last = n BY <4>4 DEF last
        <5>2. ~SameKey(name, h[list[n]].string) BY <2>2, <4>4
        <5> QED BY <2>1, <3>2, <3>7, <4>1, <4>2, <4>3, <4>4, <5>1, <5>2
      <4>5. CASE same # {}
        <5>1. last = Min(same) BY <4>5 DEF last
        <5>2. last \in same
          <6> HIDE DEF same
          <6> QED BY <2>3, <4>5, <5>1
        <5>3. SameKey(name, h[list[last]].string) BY <5>2
        <5> HIDE DEF same
        <5> QED BY <3>2, <3>7, <4>1, <4>3, <4>5, <5>3
      <4> QED BY <4>4, <4>5
    <3>10. CASE m > last
      <4>1. ~(m - 1 + 1 <= last) /\ ~(m + 1 <= last) BY <3>2, <3>6, <3>10
      <4>2. At(m) = IF same = {} THEN NULL ELSE list[last]
        BY <4>1
      <4>3. F[m - 1] = IF same = {} THEN NULL ELSE list[last]
        BY <3>5, <4>1
      <4>4. CASE same = {}
        <5> HIDE DEF same
        <5> QED BY <3>2, <3>7, <4>2, <4>3, <4>4
      <4>5. CASE same # {}
        <5>1. last = Min(same) BY <4>5 DEF last
        <5>2. last \in same
          <6> HIDE DEF same
          <6> QED BY <2>3, <4>5, <5>1
        <5>3. SameKey(name, h[list[last]].string) BY <5>2
        <5> HIDE DEF same
        <5> QED BY <3>2, <3>7, <4>2, <4>3, <4>5, <5>3
      <4> QED BY <4>4, <4>5
    <3> QED BY <3>2, <3>6, <3>8, <3>9, <3>10
  <2>6. F[MaxItems] = IF same = {} THEN NULL ELSE list[last]
    <3>1. F[MaxItems] = At(MaxItems)
      <4>1. MaxItems \in 0 .. MaxItems BY <1>1
      <4> HIDE DEF At
      <4> QED BY <2>5, <4>1
    <3> HIDE DEF last, same, T
    <3>2. ~(MaxItems + 1 <= last) BY <1>1, <2>2, <2>4
    <3> QED BY <3>1, <3>2
  <2>7. same # {} => last = Min(same) OBVIOUS
  <2> HIDE DEF last, same, T, At
  <2>8. found = IF same = {} THEN NULL ELSE list[Min(same)]
    BY <1>2, <2>6, <2>7
  <2> QED BY <2>8 DEF found, same, list
<1> QED BY <1>3, <1>4

\* What get_object_item finds is in the list it was looked for in.
LEMMA FoundIsMember ==
    ASSUME NEW h, NEW R, NEW P, Grove(h, R, P), NEW object \in DOMAIN h, NEW name,
           get_object_item(h, object, name) # NULL
    PROVE  InList(h, P, object, get_object_item(h, object, name))
<1> DEFINE list == Members(h, object)
           same == {k \in 1 .. Len(list) : SameKey(name, h[list[k]].string)}
           found == get_object_item(h, object, name)
<1>1. found = IF same = {} THEN NULL ELSE list[Min(same)]
  BY FindsFirst
<1>2. same # {}
  BY <1>1
<1>3. Min(same) \in same
  <2>1. same \subseteq Nat OBVIOUS
  <2> HIDE DEF same
  <2>2. \E m \in same : \A k \in same : m <= k BY <1>2, <2>1, LeastNatural
  <2> QED BY <2>2 DEF Min
<1>4. list \in Seq(DOMAIN h)
  BY ChainRuns DEF Members, IsRun
<1>5. found \in ToSet(list)
  <2> HIDE DEF found, list
  <2>1. Min(same) \in 1 .. Len(list) BY <1>3
  <2> HIDE DEF same
  <2> QED BY <1>1, <1>2, <1>4, <2>1 DEF ToSet
<1> QED BY <1>5, MemberInList

\* prev leads back from each child to the one before it, and from the first to
\* the last.
LEMMA PrevLeadsBack ==
    ASSUME NEW h, NEW R, NEW P, Forest(h, R, P), NEW p \in DOMAIN h,
           h[p].child # NULL, \A r \in R : P[r] # p
    PROVE  LET list == Members(h, p)
           IN  \A k \in 1 .. Len(list) :
                  h[list[k]].prev = list[IF k = 1 THEN Len(list) ELSE k - 1]
<1> DEFINE list == Members(h, p)
<1>1. /\ list \in Seq(DOMAIN h) /\ list # <<>> /\ list[1] = h[p].child
      /\ \A k \in 1 .. Len(list) - 1 : h[list[k]].next = list[k + 1]
      /\ \A x \in DOMAIN h : P[x] = p <=> \E k \in 1 .. Len(list) : x = list[k]
  BY MembersFacts
<1>2. Linked(h, P) /\ NULL \notin DOMAIN h
  BY DEF Forest, IsHeap, Ids, NULL
<1> HIDE DEF list
<1>3. \A k \in 1 .. Len(list) : list[k] \in DOMAIN h
  BY <1>1
<1>4. ASSUME NEW k \in 1 .. Len(list), k # 1 PROVE h[list[k]].prev = list[k - 1]
  <2>1. k - 1 \in 1 .. Len(list) - 1 /\ k - 1 \in 1 .. Len(list) /\ (k - 1) + 1 = k
    BY <1>1, <1>4
  <2>2. h[list[k - 1]].next = list[(k - 1) + 1] BY <1>1, <2>1
  <2>3. h[list[k - 1]].next = list[k] /\ list[k - 1] \in DOMAIN h /\ list[k] \in DOMAIN h
    BY <1>3, <1>4, <2>1, <2>2
  <2> QED BY <1>2, <2>3 DEF Linked
<1>5. h[list[1]].prev = list[Len(list)]
  <2> DEFINE y == h[list[1]].prev
  <2>1. y \in DOMAIN h /\ P[y] = p /\ h[y].next = NULL
    BY <1>1, <1>2 DEF Linked
  <2>2. PICK m \in 1 .. Len(list) : y = list[m]
    BY <1>1, <2>1
  <2>3. CASE m # Len(list)
    <3>1. m \in 1 .. Len(list) - 1 /\ m + 1 \in 1 .. Len(list) BY <1>1, <2>2, <2>3
    <3>2. list[m + 1] = NULL BY <1>1, <2>1, <2>2, <3>1
    <3> QED BY <1>2, <1>3, <3>1, <3>2
  <2> QED BY <2>2, <2>3
<1>6. \A k \in 1 .. Len(list) : h[list[k]].prev = list[IF k = 1 THEN Len(list) ELSE k - 1]
  BY <1>4, <1>5
<1> QED BY <1>6 DEF list

\* An item is in one place: below an item, behind one, or in somebody's hand.
LEMMA OnePlace ==
    ASSUME NEW h, NEW R, NEW P, Forest(h, R, P), NEW i \in DOMAIN h
    PROVE  LET places == {<<"child", j>> : j \in {k \in DOMAIN h : h[k].child = i}}
                    \cup {<<"next", j>> : j \in {k \in DOMAIN h : h[k].next = i}}
                    \cup {<<"root", i>> : j \in R \cap {i}}
           IN  Cardinality(places) = 1
<1> DEFINE below == {<<"child", j>> : j \in {k \in DOMAIN h : h[k].child = i}}
           behind == {<<"next", j>> : j \in {k \in DOMAIN h : h[k].next = i}}
           inHand == {<<"root", i>> : j \in R \cap {i}}
           places == below \cup behind \cup inHand
<1>0. IsHeap(h) /\ Linked(h, P) /\ Rooted(h, R) /\ i # NULL
  BY DEF Forest, IsHeap, Ids, NULL
<1>1. \E x : places = {x}
  <2>1. CASE i \in R
    <3>1. below = {} /\ behind = {} BY <1>0, <2>1 DEF Rooted
    <3>2. inHand = {<<"root", i>>} BY <2>1
    <3> HIDE DEF below, behind, inHand
    <3> QED BY <3>1, <3>2
  <2>2. CASE i \notin R
    <3>1. PICK j \in DOMAIN h : i \in {h[j].child, h[j].next}
      <4> SUFFICES ASSUME \A j \in DOMAIN h : i \notin {h[j].child, h[j].next} PROVE FALSE
        OBVIOUS
      <4>1. Closed(h, DOMAIN h \ {i}) BY DEF Closed
      <4>2. R \subseteq DOMAIN h \ {i} BY <1>0, <2>2 DEF Rooted
      <4>3. DOMAIN h \ {i} = DOMAIN h BY <4>1, <4>2, ReachesAll
      <4> QED BY <4>3
    <3>2. \A k \in DOMAIN h : i \in {h[k].child, h[k].next} => k = j
      BY <1>0, <3>1, OnePointer
    <3>3. inHand = {} BY <2>2
    <3>4. CASE h[j].child = i
      <4>1. behind = {} BY <1>0, <3>4, ChildNotNext
      <4>2. below = {<<"child", j>>} BY <3>2, <3>4
      <4> HIDE DEF below, behind, inHand
      <4> QED BY <3>3, <4>1, <4>2
    <3>5. CASE h[j].next = i /\ h[j].child # i
      <4>1. below = {} BY <3>2, <3>5
      <4>2. behind = {<<"next", j>>} BY <3>2, <3>5
      <4> HIDE DEF below, behind, inHand
      <4> QED BY <3>3, <4>1, <4>2
    <3> QED BY <3>1, <3>4, <3>5
  <2> QED BY <2>1, <2>2
<1> HIDE DEF places
<1>2. IsFiniteSet(places) /\ Cardinality(places) = 1
  BY <1>1, FS_Singleton
<1> QED BY <1>2 DEF places

-----------------------------------------------------------------------------
(***************************************************************************)
(* String blocks.                                                          *)
(***************************************************************************)
LEMMA FiniteHeap ==
    ASSUME NEW h, IsHeap(h)
    PROVE  \A S \in SUBSET DOMAIN h : IsFiniteSet(S)
<1>1. MaxItems \in Nat
  BY JsonAssumption
<1>2. IsFiniteSet(1 .. MaxItems)
  BY <1>1, FS_Interval
<1>3. \A S \in SUBSET DOMAIN h : S \in SUBSET (1 .. MaxItems)
  BY DEF IsHeap, Ids
<1> QED BY <1>2, <1>3, FS_Subset

\* A finite set of items owns a number of blocks.
LEMMA BlocksType ==
    ASSUME NEW h, NEW S, IsFiniteSet(S)
    PROVE  Blocks(h, S) \in Nat
<1> DEFINE A == {i \in S : h[i].string # "none"}
           B == {i \in S : h[i].valuestring # "none"}
<1>1. A \in SUBSET S /\ B \in SUBSET S
  OBVIOUS
<1>2. Blocks(h, S) = Cardinality(A) + Cardinality(B)
  BY DEF Blocks
<1> HIDE DEF A, B
<1>3. Cardinality(A) \in Nat /\ Cardinality(B) \in Nat
  BY <1>1, FS_Subset, FS_CardinalityType
<1> QED BY <1>2, <1>3

\* Blocks counts what the items own and nothing else.
LEMMA BlocksSame ==
    ASSUME NEW h, NEW g, NEW S,
           \A i \in S : g[i].string = h[i].string /\ g[i].valuestring = h[i].valuestring
    PROVE  Blocks(g, S) = Blocks(h, S)
BY DEF Blocks

\* Cardinalities add up.
LEMMA DisjointUnion ==
    ASSUME NEW S, NEW T, IsFiniteSet(S), IsFiniteSet(T), S \cap T = {}
    PROVE  Cardinality(S \cup T) = Cardinality(S) + Cardinality(T)
<1>1. Cardinality(S \cup T) = Cardinality(S) + Cardinality(T) - Cardinality(S \cap T)
  BY FS_Union
<1>2. Cardinality(S \cap T) = 0
  BY FS_EmptySet
<1>3. Cardinality(S) \in Nat /\ Cardinality(T) \in Nat
  BY FS_CardinalityType
<1> QED BY <1>1, <1>2, <1>3

\* The blocks of disjoint sets of items add up.
LEMMA BlocksSplit ==
    ASSUME NEW h, NEW S, NEW T, IsFiniteSet(S), IsFiniteSet(T), S \cap T = {}
    PROVE  Blocks(h, S \cup T) = Blocks(h, S) + Blocks(h, T)
<1> DEFINE A(U) == {i \in U : h[i].string # "none"}
           B(U) == {i \in U : h[i].valuestring # "none"}
<1>1. /\ A(S) \in SUBSET S /\ B(S) \in SUBSET S /\ A(T) \in SUBSET T /\ B(T) \in SUBSET T
      /\ A(S \cup T) = A(S) \cup A(T) /\ B(S \cup T) = B(S) \cup B(T)
      /\ A(S) \cap A(T) = {} /\ B(S) \cap B(T) = {}
  OBVIOUS
<1>2. \A U : Blocks(h, U) = Cardinality(A(U)) + Cardinality(B(U))
  BY DEF Blocks
<1> HIDE DEF A, B
<1>3. /\ IsFiniteSet(A(S)) /\ IsFiniteSet(A(T)) /\ IsFiniteSet(B(S)) /\ IsFiniteSet(B(T))
  BY <1>1, FS_Subset
<1>4. /\ Cardinality(A(S)) \in Nat /\ Cardinality(A(T)) \in Nat
      /\ Cardinality(B(S)) \in Nat /\ Cardinality(B(T)) \in Nat
  BY <1>3, FS_CardinalityType
<1>5. /\ Cardinality(A(S) \cup A(T)) = Cardinality(A(S)) + Cardinality(A(T))
      /\ Cardinality(B(S) \cup B(T)) = Cardinality(B(S)) + Cardinality(B(T))
  <2>1. A(S) \cap A(T) = {} /\ B(S) \cap B(T) = {} BY <1>1
  <2> QED BY <1>3, <2>1, DisjointUnion
<1>6. Blocks(h, S \cup T) = Cardinality(A(S) \cup A(T)) + Cardinality(B(S) \cup B(T))
  BY <1>1, <1>2
<1> QED BY <1>2, <1>4, <1>5, <1>6

\* An item owns at most its key and its string.
LEMMA BlocksOne ==
    ASSUME NEW h, NEW i
    PROVE  Blocks(h, {i}) = (IF h[i].string = "none" THEN 0 ELSE 1)
                                + (IF h[i].valuestring = "none" THEN 0 ELSE 1)
<1> DEFINE A == {j \in {i} : h[j].string # "none"}
           B == {j \in {i} : h[j].valuestring # "none"}
<1>1. A = IF h[i].string = "none" THEN {} ELSE {i}
  OBVIOUS
<1>2. B = IF h[i].valuestring = "none" THEN {} ELSE {i}
  OBVIOUS
<1>3. Blocks(h, {i}) = Cardinality(A) + Cardinality(B)
  BY DEF Blocks
<1> HIDE DEF A, B
<1>4. Cardinality({}) = 0 /\ Cardinality({i}) = 1
  BY FS_EmptySet, FS_Singleton
<1>5. Cardinality(A) = IF h[i].string = "none" THEN 0 ELSE 1
  BY <1>1, <1>4
<1>6. Cardinality(B) = IF h[i].valuestring = "none" THEN 0 ELSE 1
  BY <1>2, <1>4
<1> QED BY <1>3, <1>5, <1>6

\* Copies own as much as what they are copies of.
LEMMA BlocksCopied ==
    ASSUME NEW h, NEW g, NEW T, IsFiniteSet(T), NEW copy, IsInjective(copy), DOMAIN copy = T,
           \A j \in T : /\ g[copy[j]].string = h[j].string
                        /\ g[copy[j]].valuestring = h[j].valuestring
    PROVE  Blocks(g, {copy[j] : j \in T}) = Blocks(h, T)
<1>1. ASSUME NEW A \in SUBSET T
      PROVE  Cardinality({copy[j] : j \in A}) = Cardinality(A)
  <2> DEFINE B == {copy[j] : j \in A}
             f == [j \in A |-> copy[j]]
  <2>1. f \in [A -> B] /\ \A b \in B : \E j \in A : f[j] = b
    OBVIOUS
  <2>2. IsInjective(f)
    BY <1>1 DEF IsInjective
  <2>3. f \in Bijection(A, B)
    BY <2>1, <2>2 DEF Bijection, Injection, Surjection
  <2>4. ExistsBijection(A, B)
    BY <2>3 DEF ExistsBijection
  <2>5. IsFiniteSet(A) BY <1>1, FS_Subset
  <2> HIDE DEF B
  <2>6. Cardinality(B) = Cardinality(A) BY <2>4, <2>5, FS_Bijection
  <2> QED BY <2>6 DEF B
<1> DEFINE C == {copy[j] : j \in T}
           A == {j \in T : h[j].string # "none"}
           B == {j \in T : h[j].valuestring # "none"}
<1>2. /\ {i \in C : g[i].string # "none"} = {copy[j] : j \in A}
      /\ {i \in C : g[i].valuestring # "none"} = {copy[j] : j \in B}
  OBVIOUS
<1>3. /\ Cardinality({copy[j] : j \in A}) = Cardinality(A)
      /\ Cardinality({copy[j] : j \in B}) = Cardinality(B)
  BY <1>1
<1>4. Blocks(g, C) = Cardinality({i \in C : g[i].string # "none"})
                         + Cardinality({i \in C : g[i].valuestring # "none"})
  BY DEF Blocks
<1>5. Blocks(h, T) = Cardinality(A) + Cardinality(B)
  BY DEF Blocks
<1> QED BY <1>2, <1>3, <1>4, <1>5

-----------------------------------------------------------------------------
(***************************************************************************)
(* Copies of a tree.                                                       *)
(***************************************************************************)
\* An item hangs below its parent, or in the list that is to be its parent's.
LEMMA WhereItHangs ==
    ASSUME NEW h, NEW R, NEW P, Forest(h, R, P)
    PROVE  \A x \in DOMAIN h :
              \/ P[x] \in DOMAIN h /\ x \in Reached(h, {h[P[x]].child})
              \/ \E r \in R : P[r] = P[x] /\ x \in Reached(h, {r})
<1> DEFINE Hangs(x) == \/ P[x] \in DOMAIN h /\ x \in Reached(h, {h[P[x]].child})
                       \/ \E r \in R : P[r] = P[x] /\ x \in Reached(h, {r})
           S == {x \in DOMAIN h : Hangs(x)}
<1>0. Linked(h, P) /\ R \subseteq DOMAIN h /\ NULL \notin DOMAIN h
  BY DEF Forest, Rooted, IsHeap, Ids, NULL
<1>1. \A F : /\ F \cap DOMAIN h \subseteq Reached(h, F) /\ Reached(h, F) \subseteq DOMAIN h
             /\ Closed(h, Reached(h, F))
  BY ReachedFacts
<1>2. R \subseteq S
  <2>1. ASSUME NEW r \in R PROVE r \in Reached(h, {r})
    BY <1>0, <1>1
  <2> QED BY <1>0, <2>1
<1>3. Closed(h, S)
  <2>1. ASSUME NEW i \in S, NEW j \in {h[i].child, h[i].next} \cap DOMAIN h
        PROVE  Hangs(j)
    <3>1. i \in DOMAIN h /\ j # NULL BY <1>0
    <3>2. CASE j = h[i].child
      <4>1. P[j] = i BY <1>0, <3>1, <3>2 DEF Linked
      <4>2. j \in Reached(h, {h[i].child}) BY <1>1, <3>2
      <4> QED BY <3>1, <4>1, <4>2
    <3>3. CASE j = h[i].next
      <4>1. P[j] = P[i] BY <1>0, <3>1, <3>3 DEF Linked
      <4>2. \A F : i \in Reached(h, F) => j \in Reached(h, F)
        BY <1>1, <3>3 DEF Closed
      <4> QED BY <2>1, <4>1, <4>2
    <3> QED BY <3>2, <3>3
  <2> HIDE DEF Hangs
  <2> QED BY <2>1 DEF Closed
<1>4. S = DOMAIN h
  <2>1. S \in SUBSET DOMAIN h OBVIOUS
  <2> HIDE DEF S
  <2> QED BY <1>2, <1>3, <2>1, ReachesAll
<1> QED BY <1>4

\* An item in a list has somebody before it, the first the last.
LEMMA PrevSibling ==
    ASSUME NEW h, NEW R, NEW P, Forest(h, R, P), NEW i \in DOMAIN h \ R
    PROVE  h[i].prev \in DOMAIN h /\ P[h[i].prev] = P[i]
<1>0. Linked(h, P) /\ R \subseteq DOMAIN h /\ i # NULL
  BY DEF Forest, Rooted, IsHeap, Ids, NULL
<1>1. PICK j \in DOMAIN h : i \in {h[j].child, h[j].next}
  <2> SUFFICES ASSUME \A j \in DOMAIN h : i \notin {h[j].child, h[j].next} PROVE FALSE
    OBVIOUS
  <2>1. Closed(h, DOMAIN h \ {i}) BY DEF Closed
  <2>2. R \subseteq DOMAIN h \ {i} BY <1>0
  <2>3. DOMAIN h \ {i} = DOMAIN h BY <2>1, <2>2, ReachesAll
  <2> QED BY <2>3
<1> QED BY <1>0, <1>1 DEF Linked

\* The tree of an item, without the item: the items whose parent is in the tree.
LEMMA SubTree ==
    ASSUME NEW h, NEW R, NEW P, Grove(h, R, P), NEW item \in DOMAIN h
    PROVE  LET U == Reached(h, {h[item].child})
               T == Tree(h, item)
           IN  /\ T = {item} \cup U /\ U \subseteq DOMAIN h /\ item \notin U
               /\ Closed(h, U) /\ {h[item].child} \cap DOMAIN h \subseteq U
               /\ \A x \in DOMAIN h : x \in U <=> P[x] \in T
               /\ \A x \in U : h[x].prev \in U
<1> DEFINE U == Reached(h, {h[item].child})
           T == Tree(h, item)
<1>0. /\ Forest(h, R, P) /\ Linked(h, P) /\ IsHeap(h) /\ NULL \notin DOMAIN h
      /\ \A r \in R : P[r] = NULL
  BY DEF Grove, Forest, IsHeap, Ids, NULL
<1>1. /\ U \subseteq DOMAIN h /\ Closed(h, U) /\ {h[item].child} \cap DOMAIN h \subseteq U
      /\ T = {item} \cup U
  <2>1. T = {item} \cup U
    BY DEF Tree
  <2>2. PICK F : F = {h[item].child}
    OBVIOUS
  <2>3. U = Reached(h, F)
    BY <2>2
  <2>4. /\ Reached(h, F) \subseteq DOMAIN h /\ Closed(h, Reached(h, F))
        /\ F \cap DOMAIN h \subseteq Reached(h, F)
    BY ReachedFacts
  <2> HIDE DEF T, U
  <2> QED BY <2>1, <2>2, <2>3, <2>4
<1>2. item \notin U
  <2>1. CASE h[item].child \in DOMAIN h BY <1>0, <2>1, NoReturn
  <2>2. CASE h[item].child \notin DOMAIN h
    <3>1. Closed(h, {}) BY DEF Closed
    <3>2. U \subseteq {} BY <2>2, <3>1, ReachedFacts
    <3> QED BY <3>2
  <2> QED BY <2>1, <2>2
<1>3. ASSUME NEW x \in U PROVE P[x] \in T
  <2>1. CASE h[item].child \in DOMAIN h
    <3>1. P[h[item].child] = item BY <1>0, <2>1 DEF Linked
    <3>2. \A i \in U : P[i] \in U \/ P[i] = P[h[item].child]
      <4>1. PICK r \in DOMAIN h : r = h[item].child
        BY <2>1
      <4>2. \A i \in Reached(h, {r}) : P[i] \in Reached(h, {r}) \/ P[i] = P[r]
        BY <1>0, TreeParents
      <4> QED BY <4>1, <4>2
    <3> QED BY <1>1, <3>1, <3>2
  <2>2. CASE h[item].child \notin DOMAIN h
    <3>1. Closed(h, {}) BY DEF Closed
    <3>2. U \subseteq {} BY <2>2, <3>1, ReachedFacts
    <3> QED BY <3>2
  <2> QED BY <2>1, <2>2
<1>4. ASSUME NEW x \in DOMAIN h, P[x] \in T PROVE x \in U
  <2>1. P[x] \in DOMAIN h /\ P[x] # NULL BY <1>0, <1>1, <1>4
  <2>2. x \in Reached(h, {h[P[x]].child})
    <3> HIDE DEF U, T
    <3>1. Forest(h, R, P) BY <1>0
    <3>2. \A y \in DOMAIN h :
             \/ P[y] \in DOMAIN h /\ y \in Reached(h, {h[P[y]].child})
             \/ \E r \in R : P[r] = P[y] /\ y \in Reached(h, {r})
      BY ONLY <3>1, WhereItHangs
    <3> QED BY <1>0, <2>1, <3>2
  <2>3. {h[P[x]].child} \cap DOMAIN h \subseteq U
    BY <1>1, <1>4 DEF Closed
  <2>4. Reached(h, {h[P[x]].child}) \subseteq U
    <3> HIDE DEF U, T
    <3> QED BY <1>1, <2>3, ReachedFacts
  <2> QED BY <2>2, <2>4
<1>5. ASSUME NEW x \in U PROVE h[x].prev \in U
  <2>1. P[x] \in T /\ P[x] # NULL /\ x \in DOMAIN h BY <1>0, <1>1, <1>3
  <2>2. x \notin R BY <1>0, <2>1
  <2>3. h[x].prev \in DOMAIN h /\ P[h[x].prev] = P[x]
    BY <1>0, <2>1, <2>2, PrevSibling
  <2> QED BY <1>4, <2>1, <2>3
<1>6. \A x \in DOMAIN h : x \in U <=> P[x] \in T
  BY <1>3, <1>4
<1> QED BY <1>1, <1>2, <1>5, <1>6

\* Where there are enough items, each can have a copy of its own.
LEMMA CopiesExist ==
    ASSUME NEW S, NEW T, IsFiniteSet(S), IsFiniteSet(T), Cardinality(S) <= Cardinality(T)
    PROVE  \E f \in [S -> T] : IsInjective(f)
<1> DEFINE a == Cardinality(S)
           b == Cardinality(T)
<1>1. a \in Nat /\ b \in Nat /\ ExistsBijection(1 .. a, S) /\ ExistsBijection(1 .. b, T)
  BY FS_CardinalityType
<1>2. ExistsBijection(S, 1 .. a)
  BY <1>1, Fun_ExistsBijSymmetric
<1>3. PICK f \in Bijection(S, 1 .. a) : TRUE
  BY <1>2 DEF ExistsBijection
<1>4. PICK g \in Bijection(1 .. b, T) : TRUE
  BY <1>1 DEF ExistsBijection
<1> HIDE DEF a, b
<1>5. /\ f \in [S -> 1 .. a] /\ \A x, y \in S : f[x] = f[y] => x = y
      /\ g \in [1 .. b -> T] /\ \A x, y \in 1 .. b : g[x] = g[y] => x = y
  BY <1>3, <1>4 DEF Bijection, Injection, IsInjective
<1>6. \A x \in S : f[x] \in 1 .. b
  BY <1>1, <1>5 DEF a, b
<1> DEFINE c == [x \in S |-> g[f[x]]]
<1>7. c \in [S -> T] /\ IsInjective(c)
  BY <1>5, <1>6 DEF IsInjective
<1> QED BY <1>7

\* cJSON_Duplicate makes a tree of its own that owns as much as the other.
LEMMA DuplicateGrove ==
    ASSUME NEW h, NEW R, NEW P, Grove(h, R, P), NEW item \in DOMAIN h,
           Cardinality(Ids \ DOMAIN h) >= Cardinality(Tree(h, item))
    PROVE  LET g == Duplicate(h, item)
               copy == Copies(h, item)
               C == {copy[j] : j \in Tree(h, item)}
           IN  /\ HasGrove(g, R \cup {copy[item]})
               /\ C \cap DOMAIN h = {} /\ copy[item] \in C /\ DOMAIN g = DOMAIN h \cup C
               /\ \A i \in DOMAIN h : g[i] = h[i]
               /\ Blocks(g, C) = Blocks(h, Tree(h, item))
<1> DEFINE T == Tree(h, item)
           U == Reached(h, {h[item].child})
           copy == Copies(h, item)
           C == {copy[j] : j \in T}
           g == Duplicate(h, item)
           To(p) == IF p = NULL THEN NULL ELSE copy[p]
           Beside(j, p) == IF j = item THEN NULL ELSE To(p)
           Copied(j) == [h[j] EXCEPT !.child = To(@), !.next = Beside(j, @),
                                     !.prev = Beside(j, @)]
<1>0. /\ Forest(h, R, P) /\ Linked(h, P) /\ IsHeap(h) /\ Rooted(h, R) /\ NULL \notin DOMAIN h
      /\ \A r \in R : P[r] = NULL /\ h[r].next = NULL
      /\ R \subseteq DOMAIN h /\ NULL \in Ptrs
  BY DEF Grove, Forest, IsHeap, Ids, NULL, Rooted, Ptrs
<1>1. /\ T = {item} \cup U /\ U \subseteq DOMAIN h /\ item \notin U
      /\ Closed(h, U) /\ {h[item].child} \cap DOMAIN h \subseteq U
      /\ \A x \in DOMAIN h : x \in U <=> P[x] \in T
      /\ \A x \in U : h[x].prev \in U
  BY SubTree
<1>2. IsFiniteSet(T) /\ IsFiniteSet(Ids \ DOMAIN h)
  <2>1. T \in SUBSET DOMAIN h BY <1>1
  <2>2. IsFiniteSet(Ids)
    <3>1. MaxItems \in Nat BY JsonAssumption
    <3>2. IsFiniteSet(1 .. MaxItems) BY <3>1, FS_Interval
    <3> QED BY <3>2 DEF Ids
  <2>3. Ids \ DOMAIN h \in SUBSET Ids
    OBVIOUS
  <2>4. IsFiniteSet(Ids \ DOMAIN h)
    BY <2>2, <2>3, FS_Subset
  <2>5. IsFiniteSet(T)
    BY <1>0, <2>1, FiniteHeap
  <2> QED BY <2>4, <2>5
<1>3. copy \in [T -> Ids \ DOMAIN h] /\ \A x, y \in T : copy[x] = copy[y] => x = y
  <2>1. Cardinality(T) <= Cardinality(Ids \ DOMAIN h)
    <3>1. Cardinality(T) \in Nat /\ Cardinality(Ids \ DOMAIN h) \in Nat
      BY <1>2, FS_CardinalityType
    <3> QED BY <3>1
  <2>2. \E f \in [T -> Ids \ DOMAIN h] : IsInjective(f)
    <3> HIDE DEF T
    <3> QED BY <1>2, <2>1, CopiesExist
  <2>3. copy \in [T -> Ids \ DOMAIN h] /\ IsInjective(copy)
    BY <2>2 DEF Copies
  <2> QED BY <2>3 DEF IsInjective
<1>4. /\ DOMAIN g = DOMAIN h \cup C /\ C \cap DOMAIN h = {} /\ C \subseteq Ids
      /\ \A i \in DOMAIN h : g[i] = h[i]
      /\ \A j \in T : g[copy[j]] = Copied(j)
      /\ g = [i \in DOMAIN g |-> g[i]]
  <2>1. g = [i \in DOMAIN h \cup C |->
                IF i \in DOMAIN h THEN h[i] ELSE Copied(CHOOSE j \in T : copy[j] = i)]
    BY DEF Duplicate
  <2> HIDE DEF Copied, g, copy, T
  <2>2. C \cap DOMAIN h = {} /\ C \subseteq Ids /\ \A j \in T : copy[j] \in C
    BY <1>3
  <2>3. \A j \in T : (CHOOSE k \in T : copy[k] = copy[j]) = j
    BY <1>3
  <2>4. \A j \in T : g[copy[j]] = Copied(CHOOSE k \in T : copy[k] = copy[j])
    BY <2>1, <2>2
  <2> HIDE DEF C
  <2> QED BY <2>1, <2>2, <2>3, <2>4
<1>5. \A j \in T : /\ h[j] \in Item /\ j \in DOMAIN h
                   /\ h[j].child # NULL => h[j].child \in U
                   /\ j # item => j \in U /\ h[j].prev \in U
                   /\ j # item /\ h[j].next # NULL => h[j].next \in U
  <2>1. \A j \in DOMAIN h : /\ h[j] \in Item
                            /\ h[j].child # NULL => h[j].child \in DOMAIN h
                            /\ h[j].next # NULL => h[j].next \in DOMAIN h
    BY <1>0 DEF Linked, IsHeap
  <2>2. \A j \in U : {h[j].child, h[j].next} \cap DOMAIN h \subseteq U
    BY <1>1 DEF Closed
  <2> HIDE DEF T, U
  <2>3. ASSUME NEW j \in T
        PROVE  /\ h[j] \in Item /\ j \in DOMAIN h
               /\ h[j].child # NULL => h[j].child \in U
               /\ j # item => j \in U /\ h[j].prev \in U
               /\ j # item /\ h[j].next # NULL => h[j].next \in U
    <3>1. CASE j = item BY <1>1, <2>1, <3>1
    <3>2. CASE j \in U BY <1>1, <2>1, <2>2, <3>2
    <3> QED BY <1>1, <3>1, <3>2
  <2> QED BY ONLY <2>3
<1>6. \A j \in T : copy[j] \in Ptrs /\ copy[j] # NULL /\ copy[j] \in C /\ copy[j] \notin DOMAIN h
  <2>1. \A j \in T : copy[j] \in Ids \ DOMAIN h /\ copy[j] \in C
    BY <1>3
  <2>2. \A x \in Ids : x \in Ptrs /\ x # NULL
    BY DEF Ids, Ptrs, NULL
  <2> HIDE DEF copy, C, T
  <2> QED BY <2>1, <2>2
<1>6a. \A x \in C : \E j \in T : x = copy[j]
  OBVIOUS
<1>7. ASSUME NEW j \in T
      PROVE  /\ g[copy[j]] \in Item
             /\ g[copy[j]].child = To(h[j].child)
             /\ g[copy[j]].next = Beside(j, h[j].next)
             /\ g[copy[j]].prev = Beside(j, h[j].prev)
             /\ g[copy[j]].string = h[j].string /\ g[copy[j]].valuestring = h[j].valuestring
  <2>1. g[copy[j]] = Copied(j) BY <1>4
  <2>2. /\ To(h[j].child) \in Ptrs /\ Beside(j, h[j].next) \in Ptrs
        /\ Beside(j, h[j].prev) \in Ptrs
    <3>1. U \subseteq T BY <1>1
    <3> HIDE DEF T, U, copy
    <3> QED BY <1>0, <1>5, <1>6, <3>1
  <2>3. h[j] \in Item BY <1>5
  <2> HIDE DEF g, copy, T, To, Beside
  <2> QED BY <2>1, <2>2, <2>3 DEF Item
<1> DEFINE Above(j) == IF j = item THEN NULL ELSE copy[P[j]]
           Q == [i \in DOMAIN g |-> IF i \in DOMAIN h THEN P[i]
                                    ELSE Above(CHOOSE j \in T : copy[j] = i)]
<1> HIDE DEF T, U, copy, C, g
<1>8. /\ \A i \in DOMAIN h : Q[i] = P[i]
      /\ \A j \in T : Q[copy[j]] = Above(j)
      /\ Q \in [DOMAIN g -> Ptrs]
  <2>1. \A j \in T : (CHOOSE k \in T : copy[k] = copy[j]) = j
    <3> QED BY <1>3
  <2>2. \A i \in DOMAIN h : P[i] \in Ptrs
    BY <1>0 DEF Linked
  <2>3. \A j \in T : j # item => P[j] \in T
    BY <1>1
  <2>4. \A j \in T : Above(j) \in Ptrs
    <3> QED BY <1>0, <1>6, <2>3
  <2>5. \A j \in T : copy[j] \in DOMAIN g /\ copy[j] \notin DOMAIN h
    BY <1>4, <1>6
  <2>6. \A j \in T : Q[copy[j]] = Above(j)
    <3>1. \A j \in T : Q[copy[j]] = Above(CHOOSE k \in T : copy[k] = copy[j])
      BY <2>5
    <3> HIDE DEF Q, Above
    <3>2. ASSUME NEW j \in T PROVE Q[copy[j]] = Above(j)
      <4>1. PICK i : i = CHOOSE k \in T : copy[k] = copy[j]
        OBVIOUS
      <4>2. i = j BY <2>1, <4>1
      <4>3. Q[copy[j]] = Above(i) BY <3>1, <4>1
      <4> QED BY <4>2, <4>3
    <3> QED BY <3>2
  <2>7. \A i \in DOMAIN h : Q[i] = P[i]
    BY <1>4
  <2>8. \A i \in DOMAIN g : i \in DOMAIN h \/ \E j \in T : i = copy[j]
    BY <1>4, <1>6a
  <2>9. \A i \in DOMAIN g : Q[i] \in Ptrs
    BY <2>2, <2>4, <2>6, <2>7, <2>8
  <2> QED BY <2>6, <2>7, <2>9
<1> HIDE DEF Q
<1>9. IsHeap(g)
  <2>1. \A i \in DOMAIN h : i \in Ids /\ h[i] \in Item
    BY <1>0 DEF IsHeap
  <2>2. \A i \in DOMAIN g : g[i] \in Item
    <3>1. \A i \in DOMAIN h : g[i] \in Item BY <1>4, <2>1
    <3>2. \A j \in T : g[copy[j]] \in Item BY <1>7
    <3>3. \A i \in DOMAIN g : i \in DOMAIN h \/ \E j \in T : i = copy[j]
      BY <1>4, <1>6a
    <3> QED BY ONLY <3>1, <3>2, <3>3
  <2> QED BY <1>4, <2>1, <2>2 DEF IsHeap
<1>10. Linked(g, Q)
  <2> DEFINE Below(i) == g[i].child # NULL =>
                             /\ g[i].child \in DOMAIN g /\ Q[g[i].child] = i
                             /\ g[g[i].child].prev \in DOMAIN g /\ Q[g[g[i].child].prev] = i
                             /\ g[g[g[i].child].prev].next = NULL
             Behind(i) == g[i].next # NULL =>
                             /\ g[i].next \in DOMAIN g /\ Q[g[i].next] = Q[i]
                             /\ g[g[i].next].prev = i
  <2>1. ASSUME NEW i \in DOMAIN h PROVE Below(i) /\ Behind(i)
    <3> DEFINE c == h[i].child
               last == h[c].prev
               n == h[i].next
    <3>1. /\ c # NULL => /\ c \in DOMAIN h /\ P[c] = i /\ last \in DOMAIN h
                         /\ P[last] = i /\ h[last].next = NULL
          /\ n # NULL => n \in DOMAIN h /\ P[n] = P[i] /\ h[n].prev = i
      <4>1. Linked(h, P) BY <1>0
      <4> QED BY ONLY <2>1, <4>1 DEF Linked
    <3>0. \A k \in DOMAIN h : g[k] = h[k]
      BY <1>4
    <3>2. g[i].child = c /\ g[i].next = n /\ (c \in DOMAIN h => g[c].prev = last)
      BY <3>0
    <3>3. n \in DOMAIN h => g[n].prev = h[n].prev
      BY <3>0
    <3>4. last \in DOMAIN h => g[last].next = h[last].next
      <4> HIDE DEF last
      <4> QED BY <3>0
    <3> HIDE DEF c, last, n
    <3>5. DOMAIN h \subseteq DOMAIN g /\ \A k \in DOMAIN h : Q[k] = P[k]
      BY <1>4, <1>8
    <3>6. Below(i)
      <4>1. SUFFICES ASSUME c # NULL
            PROVE  /\ c \in DOMAIN g /\ Q[c] = i /\ g[c].prev \in DOMAIN g
                   /\ Q[g[c].prev] = i /\ g[g[c].prev].next = NULL
        BY <3>2
      <4>2. /\ c \in DOMAIN h /\ P[c] = i /\ last \in DOMAIN h /\ P[last] = i
            /\ h[last].next = NULL
        BY <3>1, <4>1
      <4>3. g[c].prev = last /\ g[last].next = NULL BY <3>2, <3>4, <4>2
      <4> QED BY <3>5, <4>2, <4>3
    <3>7. Behind(i) BY <3>1, <3>2, <3>3, <3>5
    <3> QED BY <3>6, <3>7
  <2>2. ASSUME NEW j \in T PROVE Below(copy[j])
    <3> DEFINE c == h[j].child
               last == h[c].prev
    <3>1. CASE c # NULL
      <4>1. /\ c \in U /\ last \in U /\ c \in T /\ last \in T /\ c # item /\ last # item
            /\ P[c] = j /\ P[last] = j /\ h[last].next = NULL /\ last # NULL
        BY <1>0, <1>1, <1>5, <3>1 DEF Linked
      <4>2. g[copy[j]].child = copy[c] /\ g[copy[c]].prev = copy[last]
        BY <1>7, <3>1, <4>1
      <4>3. g[copy[last]].next = NULL
        <5>1. g[copy[last]].next = Beside(last, h[last].next) BY <1>7, <4>1
        <5> HIDE DEF last
        <5> QED BY <4>1, <5>1
      <4> HIDE DEF c, last
      <4>4. Q[copy[c]] = copy[j] /\ Q[copy[last]] = copy[j]
        BY <1>8, <4>1
      <4>5. copy[c] \in DOMAIN g /\ copy[last] \in DOMAIN g
        BY <1>4, <1>6, <4>1
      <4> QED BY <4>2, <4>3, <4>4, <4>5
    <3>2. CASE c = NULL
      BY <1>7, <3>2
    <3> QED BY <3>1, <3>2
  <2>3. ASSUME NEW j \in T PROVE Behind(copy[j])
    <3> DEFINE n == h[j].next
    <3>1. CASE j # item /\ n # NULL
      <4>1. /\ n \in U /\ n \in T /\ n # item /\ P[n] = P[j] /\ h[n].prev = j /\ j # NULL
        BY <1>0, <1>1, <1>5, <3>1 DEF Linked
      <4>2. g[copy[j]].next = copy[n] /\ g[copy[n]].prev = copy[j]
        BY <1>7, <3>1, <4>1
      <4> HIDE DEF n
      <4>3. Q[copy[n]] = Q[copy[j]]
        BY <1>8, <3>1, <4>1
      <4>4. copy[n] \in DOMAIN g
        BY <1>4, <1>6, <4>1
      <4> QED BY <4>2, <4>3, <4>4
    <3>2. CASE j = item \/ n = NULL
      <4>1. g[copy[j]].next = NULL BY <1>7, <3>2
      <4> QED BY <4>1
    <3> QED BY <3>1, <3>2
  <2>4. \A i \in DOMAIN g : i \in DOMAIN h \/ \E j \in T : i = copy[j]
    BY <1>4, <1>6a
  <2>5. \A i \in DOMAIN g : Below(i) /\ Behind(i)
    <3> HIDE DEF Below, Behind
    <3> QED BY <2>1, <2>2, <2>3, <2>4
  <2> QED BY <1>8, <2>5 DEF Linked
<1> DEFINE new == copy[item]
<1>11. /\ item \in T /\ new \notin R /\ new \in DOMAIN g
       /\ g[new].next = NULL /\ Q[new] = NULL
  <2>1. item \in T BY <1>1
  <2> QED BY <1>0, <1>4, <1>6, <1>7, <1>8, <2>1
<1>12. ASSUME NEW S \in SUBSET DOMAIN g, R \cup {new} \subseteq S, Closed(g, S)
       PROVE  S = DOMAIN g
  <2>1. Closed(h, S \cap DOMAIN h) /\ R \subseteq S \cap DOMAIN h
    <3> QED BY <1>0, <1>4, <1>12 DEF Closed
  <2>2. S \cap DOMAIN h = DOMAIN h
    <3>1. S \cap DOMAIN h \in SUBSET DOMAIN h OBVIOUS
    <3> QED BY <1>0, <2>1, <3>1, ReachesAll
  <2> DEFINE K == {j \in U : copy[j] \in S}
  <2>3. {h[item].child} \cap DOMAIN h \subseteq K
    <3>1. ASSUME h[item].child # NULL
          PROVE  h[item].child \in U /\ h[item].child \in T
                 /\ copy[h[item].child] \in {g[new].child} \cap DOMAIN g
      <4>1. h[item].child \in U /\ h[item].child \in T
        BY <1>1, <1>5, <3>1
      <4> QED BY <1>4, <1>6, <1>7, <1>11, <3>1, <4>1
    <3> QED BY <1>0, <1>12, <3>1 DEF Closed
  <2>4. Closed(h, K)
    <3>1. ASSUME NEW j \in K, NEW k \in {h[j].child, h[j].next} \cap DOMAIN h
          PROVE  k \in K
      <4>1. j \in T /\ j # item /\ k \in U /\ k \in T /\ k # NULL /\ copy[j] \in S
        BY <1>0, <1>1, <1>5, <3>1 DEF Closed
      <4>2. copy[k] \in DOMAIN g
        BY <1>4, <1>6, <4>1
      <4>3. copy[k] \in {g[copy[j]].child, g[copy[j]].next}
        <5>1. g[copy[j]].child = To(h[j].child) /\ g[copy[j]].next = To(h[j].next)
          BY <1>7, <4>1
        <5>2. To(k) = copy[k] BY <4>1
        <5> HIDE DEF To
        <5>3. k = h[j].child \/ k = h[j].next BY <3>1
        <5> QED BY <5>1, <5>2, <5>3
      <4> QED BY <1>12, <4>1, <4>2, <4>3 DEF Closed
    <3> HIDE DEF K
    <3> QED BY <3>1 DEF Closed
  <2>5. U \subseteq K
    <3>1. K \in SUBSET DOMAIN h BY <1>1
    <3> HIDE DEF K
    <3> QED BY <2>3, <2>4, <3>1, ReachedFacts DEF U
  <2>6. \A j \in T : copy[j] \in S
    <3> QED BY <1>1, <1>12, <2>5
  <2>7. C \subseteq S
    BY <1>6a, <2>6
  <2> QED BY <1>4, <1>12, <2>2, <2>7
<1>13. Rooted(g, R \cup {new})
  <2>1. Reached(g, R \cup {new}) = DOMAIN g
    <3>1. /\ Reached(g, R \cup {new}) \in SUBSET DOMAIN g
          /\ (R \cup {new}) \cap DOMAIN g \subseteq Reached(g, R \cup {new})
          /\ Closed(g, Reached(g, R \cup {new}))
      BY ReachedFacts
    <3>2. R \cup {new} \subseteq DOMAIN g
      <4> QED BY <1>0, <1>4, <1>11
    <3> QED BY <1>12, <3>1, <3>2
  <2>2. ASSUME NEW i \in DOMAIN h, NEW r \in R \cup {new}
        PROVE  r # g[i].child /\ r # g[i].next
    <3>1. h[i].child \in DOMAIN h \cup {NULL} /\ h[i].next \in DOMAIN h \cup {NULL}
      BY <1>0 DEF Linked
    <3>2. new \notin DOMAIN h /\ new # NULL
      BY <1>6, <1>11
    <3>3. g[i] = h[i] BY <1>4
    <3>4. r \in R => r # h[i].child /\ r # h[i].next BY <1>0 DEF Rooted
    <3> HIDE DEF new
    <3> QED BY <3>1, <3>2, <3>3, <3>4
  <2>3. ASSUME NEW j \in T, NEW r \in R \cup {new}
        PROVE  r # g[copy[j]].child /\ r # g[copy[j]].next
    <3> DEFINE c == h[j].child
               n == h[j].next
    <3>1. /\ c # NULL => c \in U /\ c \in T /\ c # item
          /\ j # item /\ n # NULL => n \in U /\ n \in T /\ n # item
      BY <1>1, <1>5
    <3>2. g[copy[j]].child = To(c) /\ g[copy[j]].next = Beside(j, n)
      BY <1>7
    <3>3. \A k \in T : k # item => copy[k] # new
      BY <1>3, <1>11
    <3>4. \A k \in T : copy[k] \notin R
      BY <1>0, <1>6
    <3>5. r # NULL
      BY <1>0, <1>6, <1>11
    <3> HIDE DEF new, c, n
    <3>6. \A k \in T : k # item => r # copy[k]
      BY <3>3, <3>4
    <3>7. r # To(c)
      BY <3>1, <3>5, <3>6
    <3>8. r # Beside(j, n)
      BY <3>1, <3>5, <3>6
    <3> HIDE DEF To, Beside
    <3> QED BY <3>2, <3>7, <3>8
  <2>4. \A i \in DOMAIN g : i \in DOMAIN h \/ \E j \in T : i = copy[j]
    BY <1>4, <1>6a
  <2>5. R \cup {new} \subseteq DOMAIN g
    <3> QED BY <1>0, <1>4, <1>11
  <2>6. \A r \in R \cup {new}, i \in DOMAIN g : r # g[i].child /\ r # g[i].next
    <3> HIDE DEF new
    <3> QED BY <2>2, <2>3, <2>4
  <2> HIDE DEF new
  <2> QED BY ONLY <2>1, <2>5, <2>6 DEF Rooted
<1>14. Grove(g, R \cup {new}, Q)
  <2>1. Forest(g, R \cup {new}, Q)
    <3> HIDE DEF new
    <3> QED BY <1>9, <1>10, <1>13 DEF Forest
  <2>2. \A r \in R : g[r] = h[r] /\ Q[r] = P[r]
    BY <1>0, <1>4, <1>8
  <2>3. \A r \in R \cup {new} : Q[r] = NULL /\ g[r].next = NULL
    <3> HIDE DEF new
    <3> QED BY <1>0, <1>11, <2>2
  <2> HIDE DEF new
  <2> QED BY <2>1, <2>3 DEF Grove
<1>15. Blocks(g, C) = Blocks(h, T)
  <2>1. IsInjective(copy) /\ DOMAIN copy = T
    BY <1>3 DEF IsInjective
  <2>2. \A j \in T : /\ g[copy[j]].string = h[j].string
                     /\ g[copy[j]].valuestring = h[j].valuestring
    BY <1>7
  <2>3. Blocks(g, {copy[j] : j \in T}) = Blocks(h, T)
    BY <1>2, <2>1, <2>2, BlocksCopied
  <2> QED BY <2>3 DEF C
<1>16. new \in C
  BY <1>6, <1>11
<1> QED BY <1>4, <1>14, <1>15, <1>16 DEF g, C, copy, T, HasGrove

-----------------------------------------------------------------------------
(***************************************************************************)
(* The lists the parser is still reading.                                  *)
(***************************************************************************)
\* Nothing is reached from NULL, and cJSON_Delete(NULL) changes nothing.
LEMMA ReachedNothing ==
    ASSUME NEW h, NEW r, r \notin DOMAIN h
    PROVE  Reached(h, {r}) = {}
<1>1. Closed(h, {})
  BY DEF Closed
<1>2. {} \in SUBSET DOMAIN h /\ {r} \cap DOMAIN h \subseteq {}
  OBVIOUS
<1> QED BY <1>1, <1>2, ReachedFacts

\* cJSON_Delete(NULL) does nothing.
LEMMA DeleteNothing ==
    ASSUME NEW h, IsHeap(h), NEW r, r \notin DOMAIN h
    PROVE  Delete(h, r) = h
<1>1. DOMAIN h \ Reached(h, {r}) = DOMAIN h
  BY ReachedNothing
<1> QED BY <1>1 DEF Delete, IsHeap

\* A root whose parent is another does not lead to an item of a list that is
\* not linked to its parent yet.
LEMMA NotBelow ==
    ASSUME NEW h, NEW R, NEW P, Forest(h, R, P), NEW r \in R, NEW x \in DOMAIN h,
           P[x] # P[r], P[x] \in DOMAIN h => h[P[x]].child = NULL
    PROVE  x \notin Reached(h, {r})
<1>1. NULL \notin DOMAIN h
  BY DEF Forest, IsHeap, Ids, NULL
<1>2. Forest(h, R, P)
  OBVIOUS
<1>3. \/ P[x] \in DOMAIN h /\ x \in Reached(h, {h[P[x]].child})
      \/ \E s \in R : P[s] = P[x] /\ x \in Reached(h, {s})
  BY <1>2, WhereItHangs
<1>4. ~(P[x] \in DOMAIN h /\ x \in Reached(h, {h[P[x]].child}))
  <2>1. Reached(h, {NULL}) = {}
    BY <1>1, ReachedNothing
  <2> QED BY <2>1
<1>5. PICK s \in R : P[s] = P[x] /\ x \in Reached(h, {s})
  BY <1>3, <1>4
<1>6. s # r
  BY <1>5
<1>7. Reached(h, {r}) \cap Reached(h, {s}) = {}
  BY <1>2, <1>6, DisjointTrees
<1> QED BY <1>5, <1>7

\* A root is not below another.
LEMMA RootNotBelow ==
    ASSUME NEW h, NEW R, NEW P, Forest(h, R, P), NEW r \in R, NEW s \in R, r # s
    PROVE  s \notin Reached(h, {r})
<1>1. Reached(h, {r}) \cap Reached(h, {s}) = {}
  BY DisjointTrees
<1>2. {s} \cap DOMAIN h \subseteq Reached(h, {s})
  BY ReachedFacts
<1>3. s \in DOMAIN h
  BY DEF Forest, Rooted
<1> QED BY <1>1, <1>2, <1>3

\* A new item at the end of a list whose parent does not know it yet.
Appended(h, item, a) == [New_Item(h, item) EXCEPT ![a].next = Fresh(h)]
\* The loop of parse_array and parse_object appends to the list it has begun.
LEMMA AppendForest ==
    ASSUME NEW h, NEW R, NEW P, Forest(h, R, P), ~Full(h), NEW a \in DOMAIN h,
           h[a].next = NULL, P[a] \in DOMAIN h, h[P[a]].child = NULL,
           NEW item \in Item, item.child = NULL, item.next = NULL, item.prev = a
    PROVE  LET new == Fresh(h)
               g == Appended(h, item, a)
           IN  /\ new \in Ids \ DOMAIN h /\ DOMAIN g = DOMAIN h \cup {new}
               /\ g[new] = item
               /\ \A i \in DOMAIN h \ {a} : g[i] = h[i]
               /\ g[a] = [h[a] EXCEPT !.next = new]
               /\ Forest(g, R, With(P, new, P[a]))
<1> DEFINE new == Fresh(h)
           w == New_Item(h, item)
           g == [w EXCEPT ![a].next = new]
           Q == With(P, new, P[a])
<1>0. IsHeap(h) /\ Linked(h, P) /\ Rooted(h, R) /\ NULL \notin DOMAIN h
  BY DEF Forest, IsHeap, Ids, NULL
<1>1. P[a] \in Ptrs
  BY <1>0 DEF Linked
<1>2. new \in Ids \ DOMAIN h /\ Forest(w, R \cup {new}, Q)
  BY <1>1, NewItemForest
<1>3. DOMAIN w = DOMAIN h \cup {new} /\ w[new] = item /\ \A i \in DOMAIN h : w[i] = h[i]
  <2>1. w = [i \in DOMAIN h \cup {new} |-> IF i \in DOMAIN h THEN h[i] ELSE item]
    BY DEF New_Item
  <2> HIDE DEF w, new
  <2> QED BY <1>2, <2>1
<1> HIDE DEF w, new
<1>4. /\ DOMAIN g = DOMAIN h \cup {new} /\ g[new] = item
      /\ \A i \in DOMAIN h \ {a} : g[i] = h[i]
      /\ g[a] = [h[a] EXCEPT !.next = new]
  BY <1>2, <1>3
<1>5. /\ g[a] \in Item /\ g[a].child = h[a].child /\ g[a].next = new /\ g[a].prev = h[a].prev
  <2>1. h[a] \in Item BY <1>0 DEF IsHeap
  <2>2. new \in Ptrs BY <1>2 DEF Ptrs
  <2> HIDE DEF g
  <2> QED BY <1>4, <2>1, <2>2 DEF Item
<1>6. DOMAIN Q = DOMAIN h \cup {new} /\ Q[new] = P[a] /\ \A i \in DOMAIN h : Q[i] = P[i]
  <2>1. DOMAIN P = DOMAIN h BY <1>0 DEF Linked
  <2> QED BY <1>2, <2>1 DEF With
<1> HIDE DEF g, Q
<1>7. IsHeap(g)
  <2>1. \A i \in DOMAIN h : i \in Ids /\ h[i] \in Item BY <1>0 DEF IsHeap
  <2>2. DOMAIN g \subseteq Ids BY <1>2, <1>4, <2>1
  <2>3. \A i \in DOMAIN g : g[i] \in Item BY <1>4, <1>5, <2>1
  <2>4. g = [i \in DOMAIN g |-> g[i]] BY <1>3 DEF g
  <2> QED BY <2>2, <2>3, <2>4 DEF IsHeap
<1>8. Linked(g, Q)
  <2>1. Q \in [DOMAIN g -> Ptrs]
    <3>1. Linked(w, Q) BY <1>2 DEF Forest
    <3> QED BY <1>3, <1>4, <3>1 DEF Linked
  <2>2. ASSUME NEW i \in DOMAIN h, h[i].child # NULL
        PROVE  LET child == g[i].child
               IN  /\ child \in DOMAIN g /\ Q[child] = i
                   /\ g[child].prev \in DOMAIN g /\ Q[g[child].prev] = i
                   /\ g[g[child].prev].next = NULL
    <3> DEFINE c == h[i].child
               last == h[c].prev
    <3>1. c \in DOMAIN h /\ P[c] = i /\ last \in DOMAIN h /\ P[last] = i /\ h[last].next = NULL
      BY <1>0, <2>2 DEF Linked
    <3>2. last # a BY <2>2, <3>1
    <3>3. g[i].child = c BY <1>4, <1>5
    <3>4. g[c].prev = last BY <1>4, <1>5, <3>1
    <3> HIDE DEF c, last
    <3>5. g[last].next = NULL BY <1>4, <3>1, <3>2
    <3> QED BY <1>4, <1>6, <3>1, <3>3, <3>4, <3>5
  <2>3. ASSUME NEW i \in DOMAIN h \ {a}, h[i].next # NULL
        PROVE  LET next == g[i].next
               IN  next \in DOMAIN g /\ Q[next] = Q[i] /\ g[next].prev = i
    <3> DEFINE n == h[i].next
    <3>1. n \in DOMAIN h /\ P[n] = P[i] /\ h[n].prev = i
      BY <1>0, <2>3 DEF Linked
    <3>2. g[i].next = n BY <1>4
    <3>3. g[n].prev = h[n].prev BY <1>4, <1>5, <3>1
    <3> HIDE DEF n
    <3> QED BY <1>4, <1>6, <3>1, <3>2, <3>3
  <2>4. g[a].next = new /\ new \in DOMAIN g /\ Q[new] = Q[a] /\ g[new].prev = a
    BY <1>4, <1>5, <1>6
  <2>5. g[new].child = NULL /\ g[new].next = NULL
    BY <1>4
  <2>6. \A i \in DOMAIN h : g[i].child = h[i].child
    BY <1>4, <1>5
  <2>7. \A i \in DOMAIN h \ {a} : g[i].next = h[i].next
    BY <1>4
  <2>8. ASSUME NEW i \in DOMAIN g
        PROVE  LET child == g[i].child
                   next  == g[i].next
               IN /\ child # NULL =>
                        /\ child \in DOMAIN g /\ Q[child] = i
                        /\ g[child].prev \in DOMAIN g /\ Q[g[child].prev] = i
                        /\ g[g[child].prev].next = NULL
                  /\ next # NULL =>
                        next \in DOMAIN g /\ Q[next] = Q[i] /\ g[next].prev = i
    <3>1. CASE i = new BY <2>5, <3>1
    <3>2. CASE i = a BY <2>2, <2>4, <2>6, <3>2
    <3>3. CASE i \in DOMAIN h \ {a} BY <2>2, <2>3, <2>6, <2>7, <3>3
    <3> QED BY <1>4, <3>1, <3>2, <3>3
  <2> QED BY <2>1, <2>8 DEF Linked
<1>9. Rooted(g, R)
  <2>1. /\ \A i \in DOMAIN w \ {a, new} : SameLinks(w, g, i)
        /\ Redirects(w, g, a, NULL, new)
        /\ g[new].child = w[new].child /\ g[new].next = w[new].next
    BY <1>3, <1>4, <1>5 DEF SameLinks, Redirects
  <2>2. a \notin Reached(w, {new})
    <3>1. {new} \in SUBSET DOMAIN w /\ NULL \notin DOMAIN w
      BY <1>0, <1>2, <1>3 DEF Ids, NULL
    <3>2. Closed(w, {new}) BY <1>3, <3>1 DEF Closed
    <3>3. Reached(w, {new}) \subseteq {new} BY <3>1, <3>2, ReachedFacts
    <3> QED BY <1>2, <3>3
  <2>3. DOMAIN g = DOMAIN w /\ a \in DOMAIN w /\ new \in R \cup {new}
    BY <1>3, <1>4
  <2>4. Rooted(g, (R \cup {new}) \ {new})
    BY <1>2, <2>1, <2>2, <2>3, AttachRooted
  <2>5. (R \cup {new}) \ {new} = R
    BY <1>0, <1>2 DEF Rooted
  <2> QED BY <2>4, <2>5
<1>10. Forest(g, R, Q)
  BY <1>7, <1>8, <1>9 DEF Forest
<1>11. g = Appended(h, item, a)
  BY DEF g, w, new, Appended
<1> HIDE DEF g
<1> QED BY <1>2, <1>4, <1>10, <1>11 DEF new, Q

\* A list that has been read is linked to its parent.
LEMMA CloseForest ==
    ASSUME NEW h, NEW R, NEW P, Forest(h, R, P), NEW item \in DOMAIN h, NEW head \in R,
           NEW current \in DOMAIN h, h[item].child = NULL, h[current].next = NULL,
           P[head] = item, P[current] = item, item \notin Reached(h, {head}),
           NEW g, IsHeap(g), DOMAIN g = DOMAIN h,
           \A i \in DOMAIN h : /\ g[i].child = IF i = item THEN head ELSE h[i].child
                               /\ g[i].next = h[i].next
                               /\ g[i].prev = IF i = head THEN current ELSE h[i].prev
    PROVE  Forest(g, R \ {head}, P)
<1>1. /\ IsHeap(h) /\ Linked(h, P) /\ Rooted(h, R) /\ NULL \notin DOMAIN h
      /\ head \in DOMAIN h /\ \A i \in DOMAIN h : head # h[i].child /\ head # h[i].next
  BY DEF Forest, IsHeap, Ids, NULL, Rooted
<1>2. Linked(g, P)
  <2>1. ASSUME NEW i \in DOMAIN h, g[i].child # NULL
        PROVE  LET child == g[i].child
               IN  /\ child \in DOMAIN g /\ P[child] = i
                   /\ g[child].prev \in DOMAIN g /\ P[g[child].prev] = i
                   /\ g[g[child].prev].next = NULL
    <3>1. CASE i = item
      <4>1. g[i].child = head /\ g[head].prev = current /\ g[current].next = NULL
        BY <1>1, <3>1
      <4> QED BY <1>1, <3>1, <4>1
    <3>2. CASE i # item
      <4> DEFINE c == h[i].child
                 last == h[c].prev
      <4>1. g[i].child = c /\ c # NULL /\ c # head
        BY <1>1, <2>1, <3>2
      <4>2. c \in DOMAIN h /\ P[c] = i /\ last \in DOMAIN h /\ P[last] = i /\ h[last].next = NULL
        BY <1>1, <4>1 DEF Linked
      <4>3. g[c].prev = last
        BY <4>1, <4>2
      <4> HIDE DEF c, last
      <4>4. g[last].next = NULL
        BY <4>2
      <4> QED BY <4>1, <4>2, <4>3, <4>4
    <3> QED BY <3>1, <3>2
  <2>2. ASSUME NEW i \in DOMAIN h, g[i].next # NULL
        PROVE  LET next == g[i].next
               IN  next \in DOMAIN g /\ P[next] = P[i] /\ g[next].prev = i
    <3> DEFINE n == h[i].next
    <3>1. g[i].next = n /\ n # NULL /\ n # head
      BY <1>1, <2>2
    <3>2. n \in DOMAIN h /\ P[n] = P[i] /\ h[n].prev = i
      BY <1>1, <3>1 DEF Linked
    <3> HIDE DEF n
    <3>3. g[n].prev = i
      BY <3>1, <3>2
    <3> QED BY <3>1, <3>2, <3>3
  <2>3. P \in [DOMAIN g -> Ptrs] BY <1>1 DEF Linked
  <2> QED BY <2>1, <2>2, <2>3 DEF Linked
<1>3. Rooted(g, R \ {head})
  <2>1. /\ \A i \in DOMAIN h \ {item, head} : SameLinks(h, g, i)
        /\ Redirects(h, g, item, NULL, head)
        /\ g[head].next = h[head].next
    BY <1>1 DEF SameLinks, Redirects
  <2>2. g[head].child = h[head].child
    <3>1. head # item
      <4>1. {head} \cap DOMAIN h \subseteq Reached(h, {head}) BY ReachedFacts
      <4> QED BY <1>1, <4>1
    <3> QED BY <1>1, <3>1
  <2> QED BY <2>1, <2>2, AttachRooted
<1> QED BY <1>2, <1>3 DEF Forest

\* String blocks when one item changes, is new, or a tree is gone.
LEMMA BlocksChange ==
    ASSUME NEW h, IsHeap(h), NEW g, DOMAIN g = DOMAIN h, NEW i \in DOMAIN h,
           \A j \in DOMAIN h \ {i} : /\ g[j].string = h[j].string
                                     /\ g[j].valuestring = h[j].valuestring
    PROVE  /\ Blocks(g, DOMAIN g) \in Nat /\ Blocks(h, DOMAIN h) \in Nat
           /\ Blocks(g, {i}) \in Nat /\ Blocks(h, {i}) \in Nat
           /\ Blocks(g, DOMAIN g) + Blocks(h, {i}) = Blocks(h, DOMAIN h) + Blocks(g, {i})
<1> DEFINE A == DOMAIN h \ {i}
<1>1. IsFiniteSet(A) /\ IsFiniteSet({i}) /\ A \cap {i} = {} /\ A \cup {i} = DOMAIN h
  BY FiniteHeap
<1> HIDE DEF A
<1>2. /\ Blocks(h, A \cup {i}) = Blocks(h, A) + Blocks(h, {i})
      /\ Blocks(g, A \cup {i}) = Blocks(g, A) + Blocks(g, {i})
  BY <1>1, BlocksSplit
<1>3. Blocks(g, A) = Blocks(h, A)
  BY BlocksSame DEF A
<1>4. Blocks(h, A) \in Nat /\ Blocks(h, {i}) \in Nat /\ Blocks(g, {i}) \in Nat
  BY <1>1, BlocksType
<1> QED BY <1>1, <1>2, <1>3, <1>4

\* New items bring their blocks.
LEMMA BlocksMore ==
    ASSUME NEW h, IsHeap(h), NEW g, NEW C, IsFiniteSet(C), C \cap DOMAIN h = {},
           DOMAIN g = DOMAIN h \cup C,
           \A j \in DOMAIN h : /\ g[j].string = h[j].string
                               /\ g[j].valuestring = h[j].valuestring
    PROVE  /\ Blocks(g, DOMAIN g) = Blocks(h, DOMAIN h) + Blocks(g, C)
           /\ Blocks(h, DOMAIN h) \in Nat /\ Blocks(g, C) \in Nat
<1>1. IsFiniteSet(DOMAIN h)
  BY FiniteHeap
<1>2. Blocks(g, DOMAIN h \cup C) = Blocks(g, DOMAIN h) + Blocks(g, C)
  BY <1>1, BlocksSplit
<1>3. Blocks(g, DOMAIN h) = Blocks(h, DOMAIN h)
  BY BlocksSame
<1>4. Blocks(h, DOMAIN h) \in Nat /\ Blocks(g, C) \in Nat
  BY <1>1, BlocksType
<1> QED BY <1>2, <1>3, <1>4

\* Deleted items take theirs along.
LEMMA BlocksFewer ==
    ASSUME NEW h, IsHeap(h), NEW g, NEW T \in SUBSET DOMAIN h, DOMAIN g = DOMAIN h \ T,
           \A j \in DOMAIN g : /\ g[j].string = h[j].string
                               /\ g[j].valuestring = h[j].valuestring
    PROVE  /\ Blocks(g, DOMAIN g) = Blocks(h, DOMAIN h) - Blocks(h, T)
           /\ Blocks(g, DOMAIN g) \in Nat
<1> DEFINE A == DOMAIN h \ T
<1>1. IsFiniteSet(A) /\ IsFiniteSet(T) /\ A \cap T = {} /\ A \cup T = DOMAIN h
  BY FiniteHeap
<1>2. DOMAIN g = A
  OBVIOUS
<1> HIDE DEF A
<1>3. Blocks(h, A \cup T) = Blocks(h, A) + Blocks(h, T)
  BY <1>1, BlocksSplit
<1>4. Blocks(g, A) = Blocks(h, A)
  BY <1>2, BlocksSame
<1>5. Blocks(h, A) \in Nat /\ Blocks(h, T) \in Nat
  BY <1>1, BlocksType
<1> QED BY <1>1, <1>2, <1>3, <1>4, <1>5
=============================================================================
