----------------------------- MODULE JsonProofs -----------------------------
(***************************************************************************)
(* What TLAPS proves of JsonLibrary, for any number of items, texts, calls *)
(* and levels of nesting.  The argument: at every moment the heap is a     *)
(* forest whose roots are what the caller holds, the item cJSON_Parse is   *)
(* to return, and the lists the parser has begun; the parent such a list   *)
(* will have is known, though nothing in the heap says so yet.             *)
(***************************************************************************)
EXTENDS JsonLibrary, JsonForest

Frames == [kind : {"array", "object"}, item : Ids, head : Ptrs, current : Ptrs]

\* The roots that are whole documents, and those that are lists being read.
Trees == held \cup (IF mode = "idle" THEN {} ELSE {root} \ {NULL})
Heads == {stack[k].head : k \in 1 .. Len(stack)} \ {NULL}

\* Frame k fills in the item that frame k - 1 reads, and has a list of its own,
\* from head to current.
Frame(P, k) ==
    LET f == stack[k]
    IN  /\ f.item \in DOMAIN heap /\ heap[f.item].child = NULL
        /\ f.item = (IF k = 1 THEN root ELSE stack[k - 1].current)
        /\ \A j \in 1 .. Len(stack) : j # k => stack[j].item # f.item
        /\ f.head = NULL <=> f.current = NULL
        /\ f.head # NULL => /\ f.head \in DOMAIN heap /\ f.current \in DOMAIN heap
                            /\ P[f.head] = f.item /\ P[f.current] = f.item
                            /\ heap[f.current].next = NULL

Shape(P) ==
    /\ Forest(heap, Roots, P)
    /\ \A r \in Trees : P[r] = NULL /\ heap[r].next = NULL
    /\ \A k \in 1 .. Len(stack) : Frame(P, k)

\* What each state of the parser knows.
Control ==
    /\ mode = "idle" => stack = <<>>
    /\ mode # "idle" => root \notin held
    /\ mode # "idle" /\ root = NULL => mode = "fail" /\ stack = <<>>
    /\ mode \notin {"idle", "fail"} => depth = Len(stack)
    /\ Len(stack) <= NestingLimit
    /\ mode \in {"item", "name", "colon", "close"} => stack # <<>>
    /\ mode = "close" => Top.head = NULL /\ pos <= Len(text)
    /\ mode = "after" /\ stack # <<>> => Top.head # NULL
    /\ mode \in {"value", "name", "colon"} =>
          /\ Target \in DOMAIN heap /\ heap[Target].child = NULL
          /\ heap[Target].valuestring = "none"
    /\ mode = "name" => heap[Target].string = "none"

\* Every string block is owned by an item.
Owned == blocks = Blocks(heap, DOMAIN heap)

JsonInv == TypeOK /\ Control /\ Owned /\ \E P : Shape(P)

-----------------------------------------------------------------------------
(***************************************************************************)
(* What the invariant says.                                                *)
(***************************************************************************)
LEMMA RootsAre == Roots = Trees \cup Heads
  BY DEF Roots, Trees, Heads

\* The same after a step.
LEMMA RootsAreNext == Roots' = Trees' \cup Heads'
  BY DEF Roots, Trees, Heads

\* Between two calls every root is the caller's.
LEMMA Idle ==
    ASSUME JsonInv, mode = "idle"
    PROVE  /\ stack = <<>> /\ Roots = held
           /\ \E P : Grove(heap, held, P)
<1>1. stack = <<>>
  BY DEF JsonInv, Control
<1>2. Len(stack) = 0
  BY <1>1
<1>3. Heads = {}
  BY <1>2 DEF Heads
<1>4. Trees = held
  BY DEF Trees
<1>5. Roots = held
  BY <1>3, <1>4, RootsAre
<1>6. PICK P : Shape(P)
  BY DEF JsonInv
<1>7. Grove(heap, held, P)
  BY <1>4, <1>5, <1>6 DEF Shape, Grove
<1> QED BY <1>1, <1>5, <1>7

\* While the parser runs: an open list hangs below no other root.
LEMMA StackFacts ==
    ASSUME NEW P, Shape(P), mode # "idle"
    PROVE  \A k \in 1 .. Len(stack) :
              LET f == stack[k]
              IN  /\ f.item \in DOMAIN heap
                  /\ P[f.item] = (IF k = 1 THEN NULL ELSE stack[k - 1].item)
                  /\ P[f.item] \in DOMAIN heap => heap[P[f.item]].child = NULL
                  /\ P[f.item] # f.item
                  /\ f.head # NULL => /\ f.head \in Roots /\ f.head \notin Trees
                                      /\ P[f.head] = f.item
                                      /\ \A j \in 1 .. Len(stack) :
                                            stack[j].head = f.head => j = k
<1> SUFFICES ASSUME NEW k \in 1 .. Len(stack)
             PROVE  LET f == stack[k]
                    IN  /\ f.item \in DOMAIN heap
                        /\ P[f.item] = (IF k = 1 THEN NULL ELSE stack[k - 1].item)
                        /\ P[f.item] \in DOMAIN heap => heap[P[f.item]].child = NULL
                        /\ P[f.item] # f.item
                        /\ f.head # NULL => /\ f.head \in Roots /\ f.head \notin Trees
                                            /\ P[f.head] = f.item
                                            /\ \A j \in 1 .. Len(stack) :
                                                  stack[j].head = f.head => j = k
  OBVIOUS
<1>1. NULL \notin DOMAIN heap /\ Roots = Trees \cup Heads
  BY RootsAre DEF Shape, Forest, IsHeap, Ids, NULL
<1>2. \A j \in 1 .. Len(stack) : Frame(P, j)
  BY DEF Shape
<1>3. /\ stack[k].item \in DOMAIN heap /\ stack[k].item # NULL
      /\ heap[stack[k].item].child = NULL
      /\ stack[k].item = (IF k = 1 THEN root ELSE stack[k - 1].current)
      /\ stack[k].head # NULL => P[stack[k].head] = stack[k].item
  BY <1>1, <1>2 DEF Frame
<1>4. P[stack[k].item] = (IF k = 1 THEN NULL ELSE stack[k - 1].item)
  <2>1. CASE k = 1
    <3>1. root \in Trees BY <1>3, <2>1 DEF Trees
    <3> QED BY <1>3, <2>1, <3>1 DEF Shape
  <2>2. CASE k # 1
    <3>1. k - 1 \in 1 .. Len(stack) BY <2>2
    <3>2. Frame(P, k - 1) BY <1>2, <3>1
    <3>3. stack[k - 1].current # NULL BY <1>3, <2>2
    <3>4. P[stack[k - 1].current] = stack[k - 1].item BY <3>2, <3>3 DEF Frame
    <3> QED BY <1>3, <2>2, <3>4
  <2> QED BY <2>1, <2>2
<1>5. /\ P[stack[k].item] \in DOMAIN heap => heap[P[stack[k].item]].child = NULL
      /\ P[stack[k].item] # stack[k].item
  <2>1. CASE k = 1 BY <1>1, <1>3, <1>4, <2>1
  <2>2. CASE k # 1
    <3>1. k - 1 \in 1 .. Len(stack) /\ k - 1 # k BY <2>2
    <3>2. Frame(P, k - 1) BY <1>2, <3>1
    <3>3. heap[stack[k - 1].item].child = NULL BY <3>2 DEF Frame
    <3>4. stack[k - 1].item # stack[k].item BY <1>2, <3>1 DEF Frame
    <3> QED BY <1>4, <2>2, <3>3, <3>4
  <2> QED BY <2>1, <2>2
<1>6. ASSUME stack[k].head # NULL
      PROVE  stack[k].head \in Roots /\ stack[k].head \notin Trees
  <2>1. stack[k].head \in Heads BY <1>6 DEF Heads
  <2>2. P[stack[k].head] # NULL BY <1>3, <1>6
  <2> QED BY <1>1, <2>1, <2>2 DEF Shape
<1>7. ASSUME stack[k].head # NULL, NEW j \in 1 .. Len(stack), stack[j].head = stack[k].head
      PROVE  j = k
  <2>1. P[stack[j].head] = stack[j].item BY <1>2, <1>7 DEF Frame
  <2>2. stack[j].item = stack[k].item BY <1>3, <1>7, <2>1
  <2> QED BY <1>2, <2>2 DEF Frame
<1> QED BY <1>3, <1>4, <1>5, <1>6, <1>7

\* The item that parse_value fills in is that of no frame, and nothing that hangs
\* below a list of the parser.
LEMMA TargetFacts ==
    ASSUME NEW P, Shape(P), mode \in {"value", "name", "colon"}, Control
    PROVE  /\ Target \in DOMAIN heap
           /\ \A k \in 1 .. Len(stack) : stack[k].item # Target
           /\ Target = (IF stack = <<>> THEN root ELSE stack[Len(stack)].current)
<1>1. Target \in DOMAIN heap /\ Target # NULL /\ NULL \notin DOMAIN heap
  BY DEF Control, Shape, Forest, IsHeap, Ids, NULL
<1>2. Target = (IF stack = <<>> THEN root ELSE stack[Len(stack)].current)
  BY DEF Target, Top
<1>3. ASSUME NEW k \in 1 .. Len(stack) PROVE stack[k].item # Target
  <2> DEFINE n == Len(stack)
  <2>1. n \in 1 .. Len(stack) /\ stack # <<>>
    BY <1>3
  <2>2. Frame(P, n) /\ Frame(P, k)
    BY <2>1 DEF Shape
  <2>3. P[Target] = stack[n].item /\ stack[n].item \in DOMAIN heap
    BY <1>1, <1>2, <2>1, <2>2 DEF Frame
  <2>4. P[stack[k].item] = (IF k = 1 THEN NULL ELSE stack[k - 1].item)
    BY StackFacts
  <2>5. CASE k = 1
    BY <1>1, <2>3, <2>4, <2>5
  <2>6. CASE k # 1
    <3>1. k - 1 \in 1 .. Len(stack) /\ k - 1 # n
      BY <2>6
    <3>2. stack[k - 1].item # stack[n].item
      BY <2>1, <2>2, <3>1 DEF Frame
    <3> QED BY <2>3, <2>4, <2>6, <3>2
  <2> QED BY <2>5, <2>6
<1> QED BY <1>1, <1>2, <1>3

-----------------------------------------------------------------------------
(***************************************************************************)
(* The start.                                                              *)
(***************************************************************************)
LEMMA InitInv == Init => JsonInv
<1> SUFFICES ASSUME Init PROVE JsonInv
  OBVIOUS
<1>1. heap = <<>> /\ DOMAIN heap = {} /\ held = {} /\ stack = <<>> /\ mode = "idle" /\ blocks = 0
  BY DEF Init
<1>2. Len(stack) = 0 /\ 1 .. Len(stack) = {}
  BY <1>1
<1>3. TypeOK
  <2>1. stack \in Seq(Frames) BY <1>1
  <2>2. MaxCalls \in Nat /\ NestingLimit \in Nat BY CallsAssumption
  <2>3. Len(text) = 0 /\ pos \in 1 .. Len(text) + 1 BY DEF Init
  <2>4. /\ calls \in 0 .. MaxCalls /\ depth \in 0 .. NestingLimit /\ text \in Texts \cup {<<>>}
        /\ root \in Ptrs /\ blocks \in Nat /\ outcome = "none" /\ oom = FALSE
    BY <1>1, <2>2 DEF Init, Ptrs
  <2> QED BY <1>1, <2>1, <2>3, <2>4 DEF TypeOK, Frames
<1>4. Control
  <2>1. NestingLimit \in Nat BY CallsAssumption
  <2> QED BY <1>1, <1>2, <2>1 DEF Control
<1>5. Owned
  <2>1. {i \in DOMAIN heap : heap[i].string # "none"} = {} BY <1>1
  <2>2. {i \in DOMAIN heap : heap[i].valuestring # "none"} = {} BY <1>1
  <2>3. Cardinality({}) = 0 BY FS_EmptySet
  <2> QED BY <1>1, <2>1, <2>2, <2>3 DEF Owned, Blocks
<1>6. Trees = {} /\ Heads = {} /\ Roots = {}
  BY <1>1, <1>2, RootsAre DEF Trees, Heads
<1>7. Shape(heap)
  <2>1. heap \in [DOMAIN heap -> Ptrs] /\ heap \in [DOMAIN heap -> Item]
    BY <1>1
  <2>2. IsHeap(heap) /\ Linked(heap, heap)
    BY <1>1, <2>1 DEF IsHeap, Linked
  <2>3. Reached(heap, {}) = {}
    BY <1>1, ReachedFacts
  <2>4. Rooted(heap, {})
    BY <1>1, <2>3 DEF Rooted
  <2> QED BY <1>2, <1>6, <2>2, <2>4 DEF Shape, Forest
<1> QED BY <1>3, <1>4, <1>5, <1>7 DEF JsonInv

-----------------------------------------------------------------------------
(***************************************************************************)
(* The calls that are one step.                                            *)
(***************************************************************************)
\* Such a call keeps the invariant if it leaves a forest of what is held, and
\* counts the string blocks.
LEMMA EditInv ==
    ASSUME JsonInv, Call, HasGrove(heap', held'),
           blocks' = Blocks(heap', DOMAIN heap')
    PROVE  JsonInv'
<1>0. PICK Q : Grove(heap', held', Q)
  BY DEF HasGrove
<1>1. mode = "idle" /\ mode' = "idle" /\ stack = <<>> /\ stack' = <<>>
  BY Idle DEF Call
<1>2. Len(stack') = 0 /\ 1 .. Len(stack') = {}
  BY <1>1
<1>3. Trees' = held' /\ Heads' = {} /\ Roots' = held'
  BY <1>1, <1>2, RootsAreNext DEF Trees, Heads
<1>4. Shape(Q)'
  BY <1>0, <1>2, <1>3 DEF Shape, Grove
<1>5. TypeOK'
  <2>1. IsHeap(heap') /\ held' \subseteq DOMAIN heap'
    BY <1>0 DEF Grove, Forest, Rooted
  <2>2. blocks' \in Nat
    <3>1. IsFiniteSet(DOMAIN heap') BY <2>1, FiniteHeap
    <3> QED BY <3>1, BlocksType
  <2>3. calls' \in 0 .. MaxCalls
    <3>1. calls \in 0 .. MaxCalls BY DEF JsonInv, TypeOK
    <3>2. calls < MaxCalls /\ calls' = calls + 1 BY DEF Call
    <3>3. MaxCalls \in Nat BY CallsAssumption
    <3> QED BY <3>1, <3>2, <3>3
  <2>4. text' \in Texts \cup {<<>>} /\ pos' \in 1 .. Len(text') + 1
    BY DEF Call
  <2>5. depth' \in 0 .. NestingLimit
    <3>1. NestingLimit \in Nat /\ depth' = 0 BY CallsAssumption DEF Call
    <3> QED BY <3>1
  <2>6. stack' \in Seq(Frames)
    BY <1>1
  <2>7. root' \in Ptrs /\ outcome' = "none" /\ oom' = FALSE
    BY DEF Call, Ptrs
  <2>8. DOMAIN heap' \subseteq Ids /\ \A i \in DOMAIN heap' : heap'[i] \in Item
    BY <2>1 DEF IsHeap
  <2> QED BY <1>1, <2>1, <2>2, <2>3, <2>4, <2>5, <2>6, <2>7, <2>8 DEF TypeOK, Frames
<1>6. Control'
  <2>1. NestingLimit \in Nat BY CallsAssumption
  <2> QED BY <1>1, <1>2, <2>1 DEF Control
<1> QED BY <1>4, <1>5, <1>6 DEF JsonInv, Owned

\* What a call that is one step starts from.
LEMMA IdleFacts ==
    ASSUME JsonInv, Call
    PROVE  /\ \E P : Grove(heap, held, P)
           /\ blocks = Blocks(heap, DOMAIN heap) /\ IsHeap(heap)
           /\ held \subseteq DOMAIN heap
<1>1. mode = "idle" BY DEF Call
<1> QED BY <1>1, Idle DEF JsonInv, Owned, TypeOK, Grove, Forest

\* Items that are going to be in the heap.
LEMMA PlainItem ==
    ASSUME NEW type \in Types
    PROVE  /\ Plain(type) \in Item
           /\ \A s \in Strings : /\ [Plain(type) EXCEPT !.string = s] \in Item
                                 /\ [Plain(type) EXCEPT !.valuestring = s] \in Item
                                 /\ \A t \in Strings : [[Plain(type) EXCEPT !.valuestring = s]
                                                           EXCEPT !.string = t] \in Item
           /\ \A p \in Ptrs : [Plain(type) EXCEPT !.prev = p] \in Item
  BY DEF Plain, Item, Ptrs

\* A new item that nobody points at.
LEMMA NewGrove ==
    ASSUME NEW h, NEW R, NEW P, Grove(h, R, P), ~Full(h), NEW item \in Item,
           item.child = NULL, item.next = NULL
    PROVE  LET new == Fresh(h)
               g == New_Item(h, item)
           IN  /\ new \in Ids \ DOMAIN h /\ DOMAIN g = DOMAIN h \cup {new}
               /\ g[new] = item /\ \A i \in DOMAIN h : g[i] = h[i]
               /\ Grove(g, R \cup {new}, With(P, new, NULL))
               /\ Blocks(g, DOMAIN g) = Blocks(h, DOMAIN h) + Blocks(g, {new})
               /\ Tree(g, new) = {new}
<1> DEFINE new == Fresh(h)
           g == New_Item(h, item)
<1>1. /\ Forest(h, R, P) /\ IsHeap(h) /\ NULL \in Ptrs /\ R \subseteq DOMAIN h
      /\ \A r \in R : P[r] = NULL /\ h[r].next = NULL
      /\ DOMAIN P = DOMAIN h /\ NULL \notin DOMAIN h
  BY DEF Grove, Forest, Ptrs, Rooted, Linked, IsHeap, Ids, NULL
<1>2. new \in Ids \ DOMAIN h /\ Forest(g, R \cup {new}, With(P, new, NULL))
  BY <1>1, NewItemForest
<1>3. DOMAIN g = DOMAIN h \cup {new} /\ g[new] = item /\ \A i \in DOMAIN h : g[i] = h[i]
  <2>1. g = [i \in DOMAIN h \cup {new} |-> IF i \in DOMAIN h THEN h[i] ELSE item]
    BY DEF New_Item
  <2> HIDE DEF g, new
  <2> QED BY <1>2, <2>1
<1> HIDE DEF g, new
<1>4. Grove(g, R \cup {new}, With(P, new, NULL))
  <2>1. \A r \in R \cup {new} : With(P, new, NULL)[r] = NULL
    BY <1>1, <1>2 DEF With
  <2>2. \A r \in R \cup {new} : g[r].next = NULL
    BY <1>1, <1>2, <1>3
  <2> QED BY <1>2, <2>1, <2>2 DEF Grove
<1>5. Blocks(g, DOMAIN g) = Blocks(h, DOMAIN h) + Blocks(g, {new})
  <2>1. IsFiniteSet({new}) /\ {new} \cap DOMAIN h = {} BY <1>2, FS_Singleton
  <2> QED BY <1>1, <1>3, <2>1, BlocksMore
<1>6. Tree(g, new) = {new}
  <2>1. NULL \notin DOMAIN g
    <3>1. NULL \notin Ids BY DEF Ids, NULL
    <3>2. new # NULL BY <1>2, <3>1
    <3> QED BY <1>1, <1>3, <3>2
  <2>2. Reached(g, {NULL}) = {} BY <2>1, ReachedNothing
  <2> QED BY <1>3, <2>2 DEF Tree
<1> QED BY <1>2, <1>3, <1>4, <1>5, <1>6 DEF g, new

\* What leaves the data alone leaves the string blocks alone.
LEMMA SameDataBlocks ==
    ASSUME NEW h, NEW g, SameData(h, g)
    PROVE  /\ Blocks(g, DOMAIN g) = Blocks(h, DOMAIN h)
           /\ \A S \in SUBSET DOMAIN h : Blocks(g, S) = Blocks(h, S)
<1>1. ASSUME NEW S \in SUBSET DOMAIN h PROVE Blocks(g, S) = Blocks(h, S)
  BY <1>1, BlocksSame DEF SameData
<1> QED BY <1>1 DEF SameData

\* A key that is set or taken away.
LEMMA KeyGrove ==
    ASSUME NEW h, NEW R, NEW P, Grove(h, R, P), NEW item \in DOMAIN h,
           NEW key \in Strings \cup {"none"}
    PROVE  LET g == SetKey(h, item, key)
           IN  /\ Grove(g, R, P) /\ DOMAIN g = DOMAIN h
               /\ \A i \in DOMAIN h : /\ SameLinks(h, g, i) /\ Tree(g, i) = Tree(h, i)
                                      /\ g[i].valuestring = h[i].valuestring
                                      /\ i # item => g[i].string = h[i].string
               /\ Blocks(h, DOMAIN h) \in Nat
               /\ Blocks(g, DOMAIN g) = Blocks(h, DOMAIN h)
                                            + (IF key = "none" THEN 0 ELSE 1)
                                            - (IF h[item].string = "none" THEN 0 ELSE 1)
<1> DEFINE g == SetKey(h, item, key)
<1>1. Forest(h, R, P) /\ IsHeap(h)
  BY DEF Grove, Forest
<1>2. DOMAIN g = DOMAIN h /\ \A i \in DOMAIN h \ {item} : g[i] = h[i]
  BY DEF SetKey
<1>3. /\ g[item] \in Item /\ g[item].child = h[item].child /\ g[item].next = h[item].next
      /\ g[item].prev = h[item].prev /\ g[item].string = key
      /\ g[item].valuestring = h[item].valuestring
  <2>1. h[item] \in Item BY <1>1 DEF IsHeap
  <2>2. g[item] = [h[item] EXCEPT !.string = key] BY DEF SetKey
  <2> HIDE DEF g
  <2> QED BY <2>1, <2>2 DEF Item
<1>4. g = [i \in DOMAIN g |-> g[i]]
  BY DEF SetKey
<1> HIDE DEF g
<1>5. IsHeap(g)
  <2>1. \A i \in DOMAIN h : i \in Ids /\ h[i] \in Item BY <1>1 DEF IsHeap
  <2>2. \A i \in DOMAIN g : i \in Ids /\ g[i] \in Item BY <1>2, <1>3, <2>1
  <2> QED BY <1>4, <2>2 DEF IsHeap
<1>6. SameShape(h, g)
  BY <1>2, <1>3 DEF SameShape, SameLinks
<1>7. Forest(g, R, P) /\ \A F : Reached(g, F) = Reached(h, F)
  BY <1>1, <1>5, <1>6, SameShapeForest
<1>8. \A i \in DOMAIN h : SameLinks(h, g, i)
  BY <1>6 DEF SameShape
<1>9. \A i \in DOMAIN h : Tree(g, i) = Tree(h, i)
  BY <1>7, <1>8 DEF Tree, SameLinks
<1>10. Grove(g, R, P)
  <2>1. \A r \in R : r \in DOMAIN h /\ P[r] = NULL /\ h[r].next = NULL
    BY <1>1 DEF Grove, Forest, Rooted
  <2> QED BY <1>7, <1>8, <2>1 DEF Grove, SameLinks
<1>11. /\ Blocks(g, DOMAIN g) \in Nat /\ Blocks(h, DOMAIN h) \in Nat
       /\ Blocks(g, {item}) \in Nat /\ Blocks(h, {item}) \in Nat
       /\ Blocks(g, DOMAIN g) + Blocks(h, {item}) = Blocks(h, DOMAIN h) + Blocks(g, {item})
  BY <1>1, <1>2, BlocksChange
<1>12. /\ Blocks(g, {item}) = (IF key = "none" THEN 0 ELSE 1)
                                  + (IF h[item].valuestring = "none" THEN 0 ELSE 1)
       /\ Blocks(h, {item}) = (IF h[item].string = "none" THEN 0 ELSE 1)
                                  + (IF h[item].valuestring = "none" THEN 0 ELSE 1)
  BY <1>3, BlocksOne
<1>13. Blocks(g, DOMAIN g) = Blocks(h, DOMAIN h) + (IF key = "none" THEN 0 ELSE 1)
                                 - (IF h[item].string = "none" THEN 0 ELSE 1)
  BY <1>11, <1>12
<1>14. \A i \in DOMAIN h : /\ g[i].valuestring = h[i].valuestring
                           /\ i # item => g[i].string = h[i].string
  BY <1>2, <1>3
<1> QED BY <1>2, <1>8, <1>9, <1>10, <1>11, <1>13, <1>14 DEF g

\* A document that is deleted.
LEMMA DeleteGrove ==
    ASSUME NEW h, NEW R, NEW P, Grove(h, R, P), NEW r \in R
    PROVE  LET g == Delete(h, r)
           IN  /\ HasGrove(g, R \ {r})
               /\ Blocks(g, DOMAIN g) = Blocks(h, DOMAIN h) - Blocks(h, Reached(h, {r}))
<1> DEFINE g == Delete(h, r)
           Q == Kept(P, g)
<1>1. /\ Forest(h, R, P) /\ IsHeap(h) /\ NULL \notin DOMAIN h
      /\ \A s \in R : P[s] = NULL /\ h[s].next = NULL
  BY DEF Grove, Forest, IsHeap, Ids, NULL
<1>2. /\ DOMAIN g = DOMAIN h \ Reached(h, {r}) /\ \A i \in DOMAIN g : g[i] = h[i]
      /\ Forest(g, R \ {r}, Q)
  <2>1. Forest(h, R, P) BY <1>1
  <2>2. P[r] \in DOMAIN h => h[P[r]].child = NULL BY <1>1
  <2>3. Forest(Delete(h, r), R \ {r}, Kept(P, Delete(h, r)))
    BY <2>1, <2>2, DeleteForest
  <2>4. DOMAIN g = DOMAIN h \ Reached(h, {r}) /\ \A i \in DOMAIN g : g[i] = h[i]
    BY DEF Delete
  <2> QED BY <2>3, <2>4
<1> HIDE DEF g
<1>3. HasGrove(g, R \ {r})
  <2>1. R \ {r} \subseteq DOMAIN g BY <1>2 DEF Forest, Rooted
  <2>2. \A s \in R \ {r} : s \in DOMAIN g /\ Q[s] = P[s] /\ g[s] = h[s]
    BY <1>2, <2>1 DEF Kept
  <2> HIDE DEF Q
  <2>3. Grove(g, R \ {r}, Q)
    BY <1>1, <1>2, <2>2 DEF Grove
  <2> QED BY <2>3 DEF HasGrove
<1>4. Blocks(g, DOMAIN g) = Blocks(h, DOMAIN h) - Blocks(h, Reached(h, {r}))
  <2>1. Reached(h, {r}) \in SUBSET DOMAIN h BY ReachedFacts
  <2>2. \A j \in DOMAIN g : g[j].string = h[j].string /\ g[j].valuestring = h[j].valuestring
    BY <1>2
  <2>3. IsHeap(h) /\ DOMAIN g = DOMAIN h \ Reached(h, {r})
    BY <1>1, <1>2
  <2> QED BY <2>1, <2>2, <2>3, BlocksFewer
<1> QED BY <1>3, <1>4 DEF g

\* An item that is replaced and deleted.
LEMMA ReplaceAndDelete ==
    ASSUME NEW h, NEW R, NEW P, Grove(h, R, P), NEW parent, NEW item,
           InList(h, P, parent, item), NEW new \in R, parent \notin Tree(h, new)
    PROVE  LET g == Delete(ReplaceItemViaPointer(h, parent, item, new), item)
           IN  /\ HasGrove(g, R \ {new})
               /\ Blocks(g, DOMAIN g) = Blocks(h, DOMAIN h) - Blocks(h, Tree(h, item))
<1> DEFINE w == ReplaceItemViaPointer(h, parent, item, new)
           g == Delete(w, item)
           S == (R \ {new}) \cup {item}
<1>1. /\ HasGrove(w, S) /\ SameData(h, w) /\ Reached(w, {item}) = Tree(h, item)
  BY ReplaceGrove
<1> HIDE DEF w
<1>2. PICK Q : Grove(w, S, Q)
  BY <1>1 DEF HasGrove
<1>3. /\ HasGrove(g, S \ {item})
      /\ Blocks(g, DOMAIN g) = Blocks(w, DOMAIN w) - Blocks(w, Reached(w, {item}))
  <2>1. item \in S OBVIOUS
  <2> HIDE DEF g, S
  <2> QED BY <1>2, <2>1, DeleteGrove DEF g
<1>4. S \ {item} = R \ {new}
  <2>1. item \notin R
    <3>1. P[item] = parent /\ parent \in DOMAIN h BY DEF InList
    <3>2. NULL \notin DOMAIN h /\ \A r \in R : P[r] = NULL
      BY DEF Grove, Forest, IsHeap, Ids, NULL
    <3> QED BY <3>1, <3>2
  <2> QED BY <2>1
<1>5. Tree(h, item) \subseteq DOMAIN h
  <2>1. item \in DOMAIN h BY DEF InList
  <2> QED BY <2>1, ReachedFacts DEF Tree
<1>6. Blocks(w, DOMAIN w) = Blocks(h, DOMAIN h) /\ Blocks(w, Tree(h, item)) = Blocks(h, Tree(h, item))
  BY <1>1, <1>5, SameDataBlocks
<1> QED BY <1>1, <1>3, <1>4, <1>6 DEF g, w

\* cJSON_CreateObject.
LEMMA CreateObjectInv == JsonInv /\ CreateObject => JsonInv'
<1> SUFFICES ASSUME JsonInv, CreateObject PROVE JsonInv'
  OBVIOUS
<1>1. Call /\ ~Full(heap) BY DEF CreateObject
<1> DEFINE it == Plain("object")
           new == Fresh(heap)
<1>2. PICK P : Grove(heap, held, P)
  BY <1>1, IdleFacts
<1>3. it \in Item /\ it.child = NULL /\ it.next = NULL /\ it.string = "none" /\ it.valuestring = "none"
  BY PlainItem DEF Plain, Types
<1>4. /\ heap'[new] = it
      /\ Grove(heap', held \cup {new}, With(P, new, NULL))
      /\ Blocks(heap', DOMAIN heap') = Blocks(heap, DOMAIN heap) + Blocks(heap', {new})
  <2>1. heap' = New_Item(heap, it) BY DEF CreateObject
  <2> HIDE DEF it
  <2> QED BY <1>1, <1>2, <1>3, <2>1, NewGrove
<1>5. HasGrove(heap', held')
  BY <1>4 DEF HasGrove, CreateObject
<1>6. Blocks(heap', {new}) = 0
  BY <1>3, <1>4, BlocksOne
<1>7. blocks' = Blocks(heap', DOMAIN heap')
  <2>1. blocks = Blocks(heap, DOMAIN heap) /\ blocks \in Nat
    BY DEF JsonInv, Owned, TypeOK
  <2> QED BY <1>4, <1>6, <2>1 DEF CreateObject
<1> QED BY <1>1, <1>5, <1>7, EditInv

\* cJSON_AddNumberToObject, cJSON_AddStringToObject, cJSON_AddObjectToObject.
LEMMA AddNewInv ==
    ASSUME JsonInv, NEW object \in DOMAIN heap, NEW key \in Strings, NEW item,
           item.child = NULL, item.next = NULL, [item EXCEPT !.string = key] \in Item,
           [item EXCEPT !.string = key].child = NULL, [item EXCEPT !.string = key].next = NULL,
           AddNew(object, key, item)
    PROVE  JsonInv'
<1>1. Call /\ ~Full(heap) BY DEF AddNew
<1> DEFINE it == [item EXCEPT !.string = key]
           new == Fresh(heap)
           with == New_Item(heap, it)
<1>2. PICK P : Grove(heap, held, P)
  BY <1>1, IdleFacts
<1>3. /\ new \notin DOMAIN heap
      /\ DOMAIN with = DOMAIN heap \cup {new}
      /\ Grove(with, held \cup {new}, With(P, new, NULL))
      /\ Blocks(with, DOMAIN with) = Blocks(heap, DOMAIN heap) + Blocks(with, {new})
      /\ Tree(with, new) = {new}
  <2>1. it \in Item /\ it.child = NULL /\ it.next = NULL OBVIOUS
  <2> HIDE DEF it
  <2> QED BY <1>1, <1>2, <2>1, NewGrove
<1>4. heap' = add_item_to_array(with, object, new) /\ held' = held
      /\ blocks' = blocks + Blocks(heap', {new})
  BY DEF AddNew
<1> HIDE DEF with, new
<1>5. /\ Grove(heap', (held \cup {new}) \ {new}, With(With(P, new, NULL), new, object))
      /\ SameData(with, heap')
  <2>1. object \in DOMAIN with /\ object \notin Tree(with, new) /\ new \in held \cup {new}
    BY <1>3
  <2> QED BY <1>3, <1>4, <2>1, AddGrove
<1>6. (held \cup {new}) \ {new} = held
  BY <1>1, <1>3, IdleFacts
<1>7. HasGrove(heap', held')
  BY <1>4, <1>5, <1>6 DEF HasGrove
<1>8. Blocks(heap', DOMAIN heap') = Blocks(with, DOMAIN with)
      /\ Blocks(heap', {new}) = Blocks(with, {new})
  <2>1. {new} \in SUBSET DOMAIN with BY <1>3
  <2> QED BY <1>5, <2>1, SameDataBlocks
<1>9. blocks' = Blocks(heap', DOMAIN heap')
  BY <1>1, <1>3, <1>4, <1>8, IdleFacts
<1> QED BY <1>1, <1>7, <1>9, EditInv

\* cJSON_AddItemToArray.
LEMMA AddItemInv ==
    ASSUME JsonInv, NEW array \in DOMAIN heap, NEW item, AddItemToArray(array, item)
    PROVE  JsonInv'
<1>1. Call /\ item \in held /\ array \notin Tree(heap, item)
      /\ heap' = add_item_to_array(heap, array, item) /\ held' = held \ {item}
      /\ blocks' = blocks
  BY DEF AddItemToArray
<1>2. PICK P : Grove(heap, held, P)
  BY <1>1, IdleFacts
<1>3. Grove(heap', held', With(P, item, array)) /\ SameData(heap, heap')
  BY <1>1, <1>2, AddGrove
<1>4. Blocks(heap', DOMAIN heap') = Blocks(heap, DOMAIN heap)
  BY <1>3, SameDataBlocks
<1> QED BY <1>1, <1>3, <1>4, IdleFacts, EditInv DEF HasGrove

\* cJSON_AddItemToObject: the key of the item is replaced first.
LEMMA AddItemToObjectInv ==
    ASSUME JsonInv, NEW object \in DOMAIN heap, NEW key \in Strings, NEW item \in held,
           AddItemToObject(object, key, item)
    PROVE  JsonInv'
<1> DEFINE keyed == SetKey(heap, item, key)
<1>1. Call /\ object \notin Tree(heap, item)
      /\ heap' = add_item_to_array(keyed, object, item) /\ held' = held \ {item}
      /\ blocks' = blocks + (IF heap[item].string = "none" THEN 1 ELSE 0)
  BY DEF AddItemToObject
<1>2. PICK P : Grove(heap, held, P)
  BY <1>1, IdleFacts
<1>3. item \in DOMAIN heap /\ blocks = Blocks(heap, DOMAIN heap)
  BY <1>1, IdleFacts
<1>4. key # "none"
  BY JsonAssumption
<1>5. /\ Grove(keyed, held, P) /\ DOMAIN keyed = DOMAIN heap
      /\ Tree(keyed, item) = Tree(heap, item)
      /\ Blocks(heap, DOMAIN heap) \in Nat
      /\ Blocks(keyed, DOMAIN keyed) = Blocks(heap, DOMAIN heap) + 1
                                           - (IF heap[item].string = "none" THEN 0 ELSE 1)
  <2>1. key \in Strings \cup {"none"} OBVIOUS
  <2> HIDE DEF keyed
  <2> QED BY <1>2, <1>3, <1>4, <2>1, KeyGrove DEF keyed
<1> HIDE DEF keyed
<1>6. Grove(heap', held', With(P, item, object)) /\ SameData(keyed, heap')
  BY <1>1, <1>5, AddGrove
<1>7. Blocks(heap', DOMAIN heap') = Blocks(keyed, DOMAIN keyed)
  BY <1>6, SameDataBlocks
<1>8. blocks' = Blocks(heap', DOMAIN heap')
  BY <1>1, <1>3, <1>5, <1>7
<1> QED BY <1>1, <1>6, <1>8, EditInv DEF HasGrove

\* cJSON_DetachItemFromArray and cJSON_DetachItemFromObject.
LEMMA DetachItemInv ==
    ASSUME JsonInv, NEW parent \in DOMAIN heap, NEW item, DetachItem(parent, item)
    PROVE  JsonInv'
<1>1. Call /\ item \in ToSet(Members(heap, parent))
      /\ heap' = DetachItemViaPointer(heap, parent, item)
      /\ held' = held \cup {item} /\ blocks' = blocks
  BY DEF DetachItem
<1>2. PICK P : Grove(heap, held, P)
  BY <1>1, IdleFacts
<1>3. InList(heap, P, parent, item)
  BY <1>1, <1>2, MemberInList
<1>4. Grove(heap', held', With(P, item, NULL)) /\ SameData(heap, heap')
  BY <1>1, <1>2, <1>3, DetachGrove
<1>5. Blocks(heap', DOMAIN heap') = Blocks(heap, DOMAIN heap)
  BY <1>4, SameDataBlocks
<1> QED BY <1>1, <1>4, <1>5, IdleFacts, EditInv DEF HasGrove

\* cJSON_InsertItemInArray, at a place or at the end.
LEMMA InsertItemInv ==
    ASSUME JsonInv, NEW array \in DOMAIN heap, NEW which, NEW item,
           InsertItem(array, which, item)
    PROVE  JsonInv'
<1> DEFINE list == Members(heap, array)
           after == list[which]
<1>1. Call /\ item \in held /\ array \notin Tree(heap, item)
      /\ which \in 1 .. Len(list) + 1
      /\ heap' = InsertItemInArray(heap, array, which, item)
      /\ held' = held \ {item} /\ blocks' = blocks
  BY DEF InsertItem
<1>2. PICK P : Grove(heap, held, P)
  BY <1>1, IdleFacts
<1>3. HasGrove(heap', held') /\ SameData(heap, heap')
  <2>1. CASE which > Len(list)
    <3>1. heap' = add_item_to_array(heap, array, item)
      BY <1>1, <2>1 DEF InsertItemInArray
    <3>2. Grove(heap', held', With(P, item, array)) /\ SameData(heap, heap')
      BY <1>1, <1>2, <3>1, AddGrove
    <3> QED BY <3>2 DEF HasGrove
  <2>2. CASE ~(which > Len(list))
    <3>1. heap' = InsertBefore(heap, array, after, item)
      BY <1>1, <2>2 DEF InsertItemInArray
    <3>2. after \in ToSet(list)
      <4>1. list \in Seq(DOMAIN heap)
        <5>1. IsRun(heap, heap[array].child, list) BY ChainRuns DEF Members
        <5> QED BY <5>1 DEF IsRun
      <4> HIDE DEF list
      <4>2. DOMAIN list = 1 .. Len(list) /\ Len(list) \in Nat BY <4>1
      <4>3. which \in DOMAIN list BY <1>1, <2>2, <4>2
      <4> QED BY <4>3 DEF ToSet
    <3>3. InList(heap, P, array, after)
      <4> HIDE DEF after
      <4> QED BY <1>2, <3>2, MemberInList
    <3> HIDE DEF after
    <3>4. Grove(heap', held', With(P, item, array)) /\ SameData(heap, heap')
      BY <1>1, <1>2, <3>1, <3>3, InsertGrove
    <3> QED BY <3>4 DEF HasGrove
  <2> QED BY <2>1, <2>2
<1>4. Blocks(heap', DOMAIN heap') = Blocks(heap, DOMAIN heap)
  BY <1>3, SameDataBlocks
<1> QED BY <1>1, <1>3, <1>4, IdleFacts, EditInv

\* cJSON_ReplaceItemInArray.
LEMMA ReplaceItemInv ==
    ASSUME JsonInv, NEW parent \in DOMAIN heap, NEW item, NEW replacement,
           ReplaceItem(parent, item, replacement)
    PROVE  JsonInv'
<1>1. /\ Call /\ item \in ToSet(Members(heap, parent))
      /\ replacement \in held /\ parent \notin Tree(heap, replacement)
      /\ heap' = Delete(ReplaceItemViaPointer(heap, parent, item, replacement), item)
      /\ blocks' = blocks - Blocks(heap, Tree(heap, item))
      /\ held' = held \ {replacement}
  BY DEF ReplaceItem
<1>2. PICK P : Grove(heap, held, P)
  BY <1>1, IdleFacts
<1>3. InList(heap, P, parent, item)
  BY <1>1, <1>2, MemberInList
<1>4. /\ HasGrove(heap', held')
      /\ Blocks(heap', DOMAIN heap') = Blocks(heap, DOMAIN heap) - Blocks(heap, Tree(heap, item))
  BY <1>1, <1>2, <1>3, ReplaceAndDelete
<1> QED BY <1>1, <1>4, IdleFacts, EditInv

\* replace_item_in_object without memory for the new key.
LEMMA LosesTheKeyInv ==
    ASSUME JsonInv, NEW object, NEW replacement \in held, LosesTheKey(object, replacement)
    PROVE  JsonInv'
<1>1. /\ Call /\ heap' = SetKey(heap, replacement, "none") /\ held' = held
      /\ blocks' = blocks - (IF heap[replacement].string = "none" THEN 0 ELSE 1)
  BY DEF LosesTheKey
<1>2. PICK P : Grove(heap, held, P)
  BY <1>1, IdleFacts
<1>3. replacement \in DOMAIN heap /\ blocks = Blocks(heap, DOMAIN heap)
  BY <1>1, IdleFacts
<1>4. /\ Grove(heap', held, P) /\ Blocks(heap, DOMAIN heap) \in Nat
      /\ Blocks(heap', DOMAIN heap') = Blocks(heap, DOMAIN heap) + 0
                                           - (IF heap[replacement].string = "none" THEN 0 ELSE 1)
  <2>1. "none" \in Strings \cup {"none"} OBVIOUS
  <2> QED BY <1>1, <1>2, <1>3, <2>1, KeyGrove
<1>5. blocks' = Blocks(heap', DOMAIN heap')
  BY <1>1, <1>3, <1>4
<1> QED BY <1>1, <1>4, <1>5, EditInv DEF HasGrove

\* cJSON_ReplaceItemInObject, whether or not an item has the key.
LEMMA ReplaceInObjectInv ==
    ASSUME JsonInv, NEW object \in DOMAIN heap, NEW key \in Strings, NEW replacement \in held,
           ReplaceItemInObject(object, key, replacement)
    PROVE  JsonInv'
<1> DEFINE keyed == SetKey(heap, replacement, key)
           item == get_object_item(heap, object, key)
           more == IF heap[replacement].string = "none" THEN 1 ELSE 0
<1>1. /\ Call /\ object \notin Tree(heap, replacement)
      /\ IF item = NULL
         THEN heap' = keyed /\ blocks' = blocks + more /\ held' = held
         ELSE /\ heap' = Delete(ReplaceItemViaPointer(keyed, object, item, replacement), item)
              /\ blocks' = blocks + more - Blocks(heap, Tree(heap, item))
              /\ held' = held \ {replacement}
  BY DEF ReplaceItemInObject
<1>2. PICK P : Grove(heap, held, P)
  BY <1>1, IdleFacts
<1>3. replacement \in DOMAIN heap /\ blocks = Blocks(heap, DOMAIN heap)
  BY <1>1, IdleFacts
<1>4. key # "none"
  BY JsonAssumption
<1>5. /\ Grove(keyed, held, P) /\ DOMAIN keyed = DOMAIN heap
      /\ \A i \in DOMAIN heap : /\ SameLinks(heap, keyed, i) /\ Tree(keyed, i) = Tree(heap, i)
                                /\ keyed[i].valuestring = heap[i].valuestring
                                /\ i # replacement => keyed[i].string = heap[i].string
      /\ Blocks(heap, DOMAIN heap) \in Nat
      /\ Blocks(keyed, DOMAIN keyed) = Blocks(heap, DOMAIN heap) + 1
                                           - (IF heap[replacement].string = "none" THEN 0 ELSE 1)
  <2>1. key \in Strings \cup {"none"} OBVIOUS
  <2> HIDE DEF keyed
  <2> QED BY <1>2, <1>3, <1>4, <2>1, KeyGrove DEF keyed
<1> HIDE DEF keyed, item
<1>6. Blocks(keyed, DOMAIN keyed) = blocks + more
  BY <1>3, <1>5
<1>7. CASE item = NULL
  <2>1. HasGrove(heap', held') BY <1>1, <1>5, <1>7 DEF HasGrove
  <2>2. blocks' = Blocks(heap', DOMAIN heap') BY <1>1, <1>6, <1>7
  <2> QED BY <1>1, <2>1, <2>2, EditInv
<1>8. CASE item # NULL
  <2>1. InList(heap, P, object, item)
    BY <1>2, <1>8, FoundIsMember DEF item
  <2>2. item \in DOMAIN heap /\ object \in DOMAIN heap /\ P[item] = object
    BY <2>1 DEF InList
  <2>3. InList(keyed, P, object, item)
    BY <1>5, <2>1, <2>2 DEF InList, SameLinks
  <2>4. object \notin Tree(keyed, replacement)
    BY <1>1, <1>3, <1>5
  <2>5. /\ HasGrove(heap', held')
        /\ Blocks(heap', DOMAIN heap') = Blocks(keyed, DOMAIN keyed) - Blocks(keyed, Tree(keyed, item))
    BY <1>1, <1>5, <1>8, <2>3, <2>4, ReplaceAndDelete
  <2>6. Tree(keyed, item) = Tree(heap, item) /\ Tree(heap, item) \subseteq DOMAIN heap
    <3>1. Tree(heap, item) \subseteq DOMAIN heap BY <2>2, ReachedFacts DEF Tree
    <3> QED BY <1>5, <2>2, <3>1
  <2>7. replacement \notin Tree(heap, item)
    <3> DEFINE U == Reached(heap, {heap[item].child})
    <3>1. P[replacement] = NULL /\ NULL \notin DOMAIN heap
      BY <1>2 DEF Grove, Forest, IsHeap, Ids, NULL
    <3>2. replacement # item
      BY <2>2, <3>1
    <3>3. Tree(heap, item) = {item} \cup U /\ (replacement \in U => P[replacement] \in Tree(heap, item))
      <4> HIDE DEF U
      <4> QED BY <1>2, <1>3, <2>2, SubTree DEF U
    <3> QED BY <2>6, <3>1, <3>2, <3>3
  <2>8. Blocks(keyed, Tree(heap, item)) = Blocks(heap, Tree(heap, item))
    <3>1. \A i \in Tree(heap, item) : /\ keyed[i].string = heap[i].string
                                      /\ keyed[i].valuestring = heap[i].valuestring
      BY <1>5, <2>6, <2>7
    <3> QED BY <3>1, BlocksSame
  <2>9. blocks' = Blocks(heap', DOMAIN heap')
    <3>1. blocks' = blocks + more - Blocks(heap, Tree(heap, item))
      BY <1>1, <1>8
    <3>2. Blocks(keyed, Tree(keyed, item)) = Blocks(heap, Tree(heap, item))
      BY <2>6, <2>8
    <3>3. Blocks(heap', DOMAIN heap') = (blocks + more) - Blocks(keyed, Tree(keyed, item))
      BY <1>6, <2>5
    <3>4. Blocks(heap, Tree(heap, item)) \in Nat
      <4>1. IsFiniteSet(Tree(heap, item)) BY <1>1, <2>6, FiniteHeap, IdleFacts
      <4> QED BY <4>1, BlocksType
    <3>5. blocks \in Nat /\ more \in Nat BY <1>3, <1>5
    <3> HIDE DEF more
    <3> QED BY <3>1, <3>2, <3>3, <3>4, <3>5
  <2> QED BY <1>1, <2>5, <2>9, EditInv
<1> QED BY <1>7, <1>8

\* cJSON_Duplicate.
LEMMA DuplicateInv ==
    ASSUME JsonInv, NEW item \in DOMAIN heap, DuplicateItem(item)
    PROVE  JsonInv'
<1> DEFINE copy == Copies(heap, item)
           C == {copy[j] : j \in Tree(heap, item)}
<1>1. /\ Call /\ Cardinality(Ids \ DOMAIN heap) >= Cardinality(Tree(heap, item))
      /\ heap' = Duplicate(heap, item)
      /\ blocks' = blocks + Blocks(heap, Tree(heap, item))
      /\ held' = held \cup {copy[item]}
  BY DEF DuplicateItem
<1>2. PICK P : Grove(heap, held, P)
  BY <1>1, IdleFacts
<1>3. /\ HasGrove(heap', held') /\ C \cap DOMAIN heap = {}
      /\ DOMAIN heap' = DOMAIN heap \cup C
      /\ \A i \in DOMAIN heap : heap'[i] = heap[i]
      /\ Blocks(heap', C) = Blocks(heap, Tree(heap, item))
  BY <1>1, <1>2, DuplicateGrove
<1> HIDE DEF C
<1>4. IsHeap(heap) /\ IsFiniteSet(C) /\ blocks = Blocks(heap, DOMAIN heap)
  <2>1. IsHeap(heap') BY <1>3 DEF HasGrove, Grove, Forest
  <2>2. C \in SUBSET DOMAIN heap' BY <1>3
  <2> QED BY <1>1, <2>1, <2>2, FiniteHeap, IdleFacts
<1>5. Blocks(heap', DOMAIN heap') = Blocks(heap, DOMAIN heap) + Blocks(heap', C)
  BY <1>3, <1>4, BlocksMore
<1> QED BY <1>1, <1>3, <1>4, <1>5, EditInv

\* cJSON_Delete by the caller.
LEMMA DeleteItemInv ==
    ASSUME JsonInv, NEW item \in held, DeleteItem(item)
    PROVE  JsonInv'
<1>1. /\ Call /\ heap' = Delete(heap, item) /\ held' = held \ {item}
      /\ blocks' = blocks - Blocks(heap, Reached(heap, {item}))
  BY DEF DeleteItem, Deletes
<1>2. PICK P : Grove(heap, held, P)
  BY <1>1, IdleFacts
<1>3. /\ HasGrove(heap', held')
      /\ Blocks(heap', DOMAIN heap') = Blocks(heap, DOMAIN heap) - Blocks(heap, Reached(heap, {item}))
  BY <1>1, <1>2, DeleteGrove
<1> QED BY <1>1, <1>3, IdleFacts, EditInv

\* Every call but cJSON_Parse.
LEMMA EditStep == JsonInv /\ Edit => JsonInv'
<1> SUFFICES ASSUME JsonInv, Edit PROVE JsonInv'
  OBVIOUS
<1>1. CASE CreateObject
  BY <1>1, CreateObjectInv
<1>2. ASSUME NEW o \in Containers("object"), NEW key \in Strings,
             \/ AddNew(o, key, Plain("object")) \/ AddNew(o, key, Plain("number"))
             \/ \E v \in Strings :
                   AddNew(o, key, [Plain("string") EXCEPT !.valuestring = v])
      PROVE  JsonInv'
  <2>1. o \in DOMAIN heap BY DEF Containers
  <2>2. ASSUME NEW type \in Types, AddNew(o, key, Plain(type)) PROVE JsonInv'
    <3>1. /\ Plain(type).child = NULL /\ Plain(type).next = NULL
          /\ [Plain(type) EXCEPT !.string = key].child = NULL
          /\ [Plain(type) EXCEPT !.string = key].next = NULL
      BY DEF Plain
    <3> QED BY <2>1, <2>2, <3>1, PlainItem, AddNewInv
  <2>3. ASSUME NEW v \in Strings, AddNew(o, key, [Plain("string") EXCEPT !.valuestring = v])
        PROVE  JsonInv'
    <3> DEFINE it == [Plain("string") EXCEPT !.valuestring = v]
    <3>1. /\ it.child = NULL /\ it.next = NULL /\ [it EXCEPT !.string = key].child = NULL
          /\ [it EXCEPT !.string = key].next = NULL
      BY DEF Plain
    <3>2. [it EXCEPT !.string = key] \in Item
      BY PlainItem DEF Types
    <3> HIDE DEF it
    <3> QED BY <2>1, <2>3, <3>1, <3>2, AddNewInv DEF it
  <2> QED BY <1>2, <2>2, <2>3 DEF Types
<1>3. ASSUME NEW o \in Containers("object"), NEW key \in Strings, NEW i \in held,
             AddItemToObject(o, key, i) \/ ReplaceItemInObject(o, key, i) \/ LosesTheKey(o, i)
      PROVE  JsonInv'
  <2>1. o \in DOMAIN heap BY DEF Containers
  <2> QED BY <1>3, <2>1, AddItemToObjectInv, ReplaceInObjectInv, LosesTheKeyInv
<1>4. ASSUME NEW a \in Containers("array"), NEW i \in held,
             AddItemToArray(a, i) \/ \E n \in Ids : InsertItem(a, n, i)
      PROVE  JsonInv'
  <2>1. a \in DOMAIN heap BY DEF Containers
  <2> QED BY <1>4, <2>1, AddItemInv, InsertItemInv
<1>5. ASSUME NEW p \in DOMAIN heap, NEW i \in DOMAIN heap,
             DetachItem(p, i) \/ \E r \in held : ReplaceItem(p, i, r)
      PROVE  JsonInv'
  BY <1>5, DetachItemInv, ReplaceItemInv
<1>6. CASE \E i \in DOMAIN heap : DuplicateItem(i)
  BY <1>6, DuplicateInv
<1>7. CASE \E i \in held : DeleteItem(i)
  BY <1>7, DeleteItemInv
<1> QED BY <1>1, <1>2, <1>3, <1>4, <1>5, <1>6, <1>7 DEF Edit

-----------------------------------------------------------------------------
(***************************************************************************)
(* The parser: what its steps have in common.                              *)
(***************************************************************************)
Modes == {"idle", "value", "item", "name", "colon", "after", "close", "fail"}

\* The position stays within the text as long as there is a token to read.
LEMMA TokenFacts ==
    ASSUME TypeOK
    PROVE  /\ Len(text) \in Nat /\ pos \in Nat /\ pos >= 1
           /\ Token # "end" => pos <= Len(text) /\ pos + 1 \in 1 .. Len(text) + 1
           /\ Token \in Strings => Token # "end" /\ Token # "none"
<1> DEFINE Tokens == Types \cup Strings \cup {"{", "}", "[", "]", ",", ":"}
<1>1. text \in Texts \cup {<<>>} /\ pos \in 1 .. Len(text) + 1
  BY DEF TypeOK
<1>2. \A t \in Texts : t \in Seq(Tokens)
  BY CallsAssumption
<1> HIDE DEF Tokens
<1>3. text \in Seq(Tokens)
  <2>1. CASE text \in Texts BY <1>2, <2>1
  <2>2. CASE text = <<>> BY <2>2, EmptySeq
  <2> QED BY <1>1, <2>1, <2>2
<1>4. Len(text) \in Nat
  BY <1>3
<1>5. pos \in Nat /\ pos >= 1 /\ pos <= Len(text) + 1
  BY <1>1, <1>4
<1>6. {"none", "end"} \cap Strings = {}
  BY JsonAssumption
<1>7. Token \in Strings => Token # "end" /\ Token # "none"
  BY <1>6
<1>8. Token # "end" => pos <= Len(text)
  BY DEF Token
<1> QED BY <1>4, <1>5, <1>7, <1>8

\* The calls that are active, the innermost, and those below it.
LEMMA StackType ==
    ASSUME TypeOK
    PROVE  /\ stack \in Seq(Frames) /\ Len(stack) \in Nat
           /\ \A k \in 1 .. Len(stack) : stack[k] \in Frames
           /\ stack # <<>> => /\ Len(stack) \in 1 .. Len(stack) /\ Top = stack[Len(stack)]
                              /\ Front(stack) \in Seq(Frames)
                              /\ Len(Front(stack)) = Len(stack) - 1
                              /\ \A k \in 1 .. Len(stack) - 1 : Front(stack)[k] = stack[k]
           /\ stack = <<>> => Len(stack) = 0
<1>1. stack \in Seq(Frames)
  BY DEF TypeOK, Frames
<1>2. Len(stack) \in Nat /\ \A k \in 1 .. Len(stack) : stack[k] \in Frames
  BY <1>1
<1>3. ASSUME stack # <<>>
      PROVE  /\ Len(stack) \in 1 .. Len(stack) /\ Top = stack[Len(stack)]
             /\ Front(stack) \in Seq(Frames)
             /\ Len(Front(stack)) = Len(stack) - 1
             /\ \A k \in 1 .. Len(stack) - 1 : Front(stack)[k] = stack[k]
  <2>1. Len(stack) >= 1 BY <1>1, <1>3
  <2> DEFINE n == Len(stack) - 1
  <2>2. n \in Int /\ 1 \in Int /\ n - 1 + 1 = n BY <1>2
  <2>3. \A i \in 1 .. n : stack[i] \in Frames BY <1>2
  <2>4. Front(stack) = SubSeq(stack, 1, n) BY DEF Front
  <2> HIDE DEF n
  <2>5. /\ SubSeq(stack, 1, n) \in Seq(Frames)
        /\ Len(SubSeq(stack, 1, n)) = IF 1 <= n THEN n - 1 + 1 ELSE 0
        /\ \A i \in 1 .. n - 1 + 1 : SubSeq(stack, 1, n)[i] = stack[1 + i - 1]
    BY <2>2, <2>3, SubSeqProperties
  <2>6. n \in Nat BY <1>2, <2>1 DEF n
  <2>7. Len(SubSeq(stack, 1, n)) = n BY <2>5, <2>6
  <2>8. \A i \in 1 .. n : SubSeq(stack, 1, n)[i] = stack[i] BY <2>5, <2>6
  <2> QED BY <1>2, <2>1, <2>4, <2>5, <2>7, <2>8 DEF n, Top
<1> QED BY <1>1, <1>2, <1>3

\* A step of the parser that returns nothing yet keeps the types.
LEMMA ParserTypes ==
    ASSUME TypeOK, IsHeap(heap'), held \subseteq DOMAIN heap',
           blocks' = Blocks(heap', DOMAIN heap'), mode' \in Modes,
           pos' \in 1 .. Len(text) + 1, depth' \in 0 .. NestingLimit, stack' \in Seq(Frames),
           oom' \in BOOLEAN, UNCHANGED <<held, calls, text, root, outcome>>
    PROVE  TypeOK'
<1>1. blocks' \in Nat
  <2>1. IsFiniteSet(DOMAIN heap') BY FiniteHeap
  <2> QED BY <2>1, BlocksType
<1>2. DOMAIN heap' \subseteq Ids /\ \A i \in DOMAIN heap' : heap'[i] \in Item
  BY DEF IsHeap
<1> QED BY <1>1, <1>2 DEF TypeOK, Frames, Modes

\* The shape does not change if the links and the roots do not.
LEMMA StillShape ==
    ASSUME NEW P, Shape(P), IsHeap(heap'), SameShape(heap, heap'), mode # "idle", mode' # "idle",
           UNCHANGED <<held, root, stack>>
    PROVE  Shape(P)'
<1>1. Trees' = Trees /\ Heads' = Heads /\ Roots' = Roots
  BY RootsAre, RootsAreNext DEF Trees, Heads
<1>2. Forest(heap', Roots, P)
  BY SameShapeForest DEF Shape
<1>3. \A i \in DOMAIN heap : i \in DOMAIN heap' /\ heap'[i].child = heap[i].child
                               /\ heap'[i].next = heap[i].next
  BY DEF SameShape, SameLinks
<1>4. \A r \in Trees : P[r] = NULL /\ heap'[r].next = NULL
  <2>1. Trees \subseteq DOMAIN heap BY RootsAre DEF Shape, Forest, Rooted
  <2> QED BY <1>3, <2>1 DEF Shape
<1>5. ASSUME NEW k \in 1 .. Len(stack) PROVE Frame(P, k)'
  <2>1. Frame(P, k) BY DEF Shape
  <2> QED BY <1>3, <2>1 DEF Frame
<1> QED BY <1>1, <1>2, <1>4, <1>5 DEF Shape

\* A heap that does not change keeps its shape.
LEMMA SameHeapShape ==
    ASSUME heap' = heap
    PROVE  SameShape(heap, heap') /\ (IsHeap(heap) => IsHeap(heap'))
  BY DEF SameShape, SameLinks

\* A step that leaves the heap and the stack alone.
LEMMA QuietStep ==
    ASSUME JsonInv, mode # "idle", mode' \in Modes \ {"idle"}, pos' \in 1 .. Len(text) + 1,
           oom' \in BOOLEAN,
           UNCHANGED <<heap, blocks, held, calls, text, depth, stack, root, outcome>>, Control'
    PROVE  JsonInv'
<1>1. PICK P : Shape(P) BY DEF JsonInv
<1>2. IsHeap(heap) /\ held \subseteq DOMAIN heap
  BY <1>1 DEF Shape, Forest, JsonInv, TypeOK
<1>3. Shape(P)'
  BY <1>1, <1>2, SameHeapShape, StillShape
<1>4. Owned'
  BY DEF JsonInv, Owned
<1>5. TypeOK'
  <2>1. IsHeap(heap') /\ held \subseteq DOMAIN heap' BY <1>2
  <2>2. blocks' = Blocks(heap', DOMAIN heap') BY <1>4 DEF Owned
  <2>3. TypeOK BY DEF JsonInv
  <2>4. depth' \in 0 .. NestingLimit /\ stack' \in Seq(Frames) BY <2>3, StackType DEF TypeOK
  <2> QED BY <2>1, <2>2, <2>3, <2>4, ParserTypes
<1> QED BY <1>3, <1>4, <1>5 DEF JsonInv

\* A step that fills in the item of parse_value.
LEMMA FillIn ==
    ASSUME JsonInv, mode \in {"value", "name"}, mode' \in Modes \ {"idle"},
           heap' = [heap EXCEPT ![Target] = heap'[Target]],
           SameLinks(heap, heap', Target), heap'[Target].prev = heap[Target].prev,
           heap'[Target] \in Item,
           blocks' = blocks + Blocks(heap', {Target}) - Blocks(heap, {Target}),
           pos' \in 1 .. Len(text) + 1,
           UNCHANGED <<held, calls, text, depth, stack, root, outcome, oom>>, Control'
    PROVE  JsonInv'
<1>1. PICK P : Shape(P) BY DEF JsonInv
<1>2. IsHeap(heap) /\ held \subseteq DOMAIN heap /\ Target \in DOMAIN heap
  BY <1>1 DEF Shape, Forest, JsonInv, TypeOK, Control
<1>3. DOMAIN heap' = DOMAIN heap /\ \A i \in DOMAIN heap \ {Target} : heap'[i] = heap[i]
  OBVIOUS
<1>4. IsHeap(heap')
  <2>1. \A i \in DOMAIN heap : i \in Ids /\ heap'[i] \in Item
    BY <1>2, <1>3 DEF IsHeap
  <2>2. heap' = [i \in DOMAIN heap' |-> heap'[i]]
    OBVIOUS
  <2> QED BY <1>3, <2>1, <2>2 DEF IsHeap
<1>5. SameShape(heap, heap')
  BY <1>3 DEF SameShape, SameLinks
<1>6. Shape(P)'
  BY <1>1, <1>4, <1>5, StillShape
<1>7. Owned'
  <2>1. /\ Blocks(heap', DOMAIN heap') \in Nat /\ Blocks(heap, DOMAIN heap) \in Nat
        /\ Blocks(heap', {Target}) \in Nat /\ Blocks(heap, {Target}) \in Nat
        /\ Blocks(heap', DOMAIN heap') + Blocks(heap, {Target})
               = Blocks(heap, DOMAIN heap) + Blocks(heap', {Target})
    BY <1>2, <1>3, BlocksChange
  <2>2. blocks = Blocks(heap, DOMAIN heap) BY DEF JsonInv, Owned
  <2> QED BY <2>1, <2>2 DEF Owned
<1>8. TypeOK'
  <2>1. held \subseteq DOMAIN heap' BY <1>2, <1>3
  <2>2. blocks' = Blocks(heap', DOMAIN heap') BY <1>7 DEF Owned
  <2>3. TypeOK BY DEF JsonInv
  <2>4. depth' \in 0 .. NestingLimit /\ stack' \in Seq(Frames) /\ oom' \in BOOLEAN
    BY <2>3, StackType DEF TypeOK
  <2> QED BY <1>4, <2>1, <2>2, <2>3, <2>4, ParserTypes
<1> QED BY <1>6, <1>7, <1>8 DEF JsonInv

-----------------------------------------------------------------------------
(***************************************************************************)
(* The parser, step by step.                                               *)
(***************************************************************************)
LEMMA ParseInv == JsonInv /\ (\E t \in Texts : Parse(t)) => JsonInv'
<1> SUFFICES ASSUME JsonInv, NEW t \in Texts, Parse(t) PROVE JsonInv'
  OBVIOUS
<1>1. /\ mode = "idle" /\ stack = <<>> /\ stack' = <<>> /\ held' = held /\ blocks' = blocks
      /\ text' = t /\ pos' = 1 /\ depth' = 0
  BY Idle DEF Parse
<1>2. PICK P : Grove(heap, held, P)
  BY <1>1, Idle
<1>3. /\ blocks = Blocks(heap, DOMAIN heap) /\ IsHeap(heap) /\ held \subseteq DOMAIN heap
      /\ NULL \notin Ids
  BY <1>2 DEF JsonInv, Owned, Grove, Forest, Rooted, Ids, NULL
<1>4. Len(stack') = 0 /\ 1 .. Len(stack') = {}
  BY <1>1
<1>5. /\ Heads' = {} /\ Roots' = Trees'
      /\ mode' # "idle" => Trees' = held \cup ({root'} \ {NULL})
  BY <1>1, <1>4, RootsAreNext DEF Heads, Trees
<1>6. calls' \in 0 .. MaxCalls
  <2>1. calls \in 0 .. MaxCalls BY DEF JsonInv, TypeOK
  <2>2. calls < MaxCalls /\ calls' = calls + 1 BY DEF Parse
  <2>3. MaxCalls \in Nat BY CallsAssumption
  <2> QED BY <2>1, <2>2, <2>3
<1>7. /\ pos' \in 1 .. Len(text') + 1 /\ text' \in Texts /\ depth' \in 0 .. NestingLimit
      /\ stack' \in Seq(Frames) /\ 0 <= NestingLimit
  <2>1. Len(t) \in Nat
    <3> DEFINE Tokens == Types \cup Strings \cup {"{", "}", "[", "]", ",", ":"}
    <3>1. t \in Seq(Tokens) BY CallsAssumption
    <3> HIDE DEF Tokens
    <3> QED BY <3>1
  <2>2. NestingLimit \in Nat BY CallsAssumption
  <2> QED BY <1>1, <2>1, <2>2
<1>8. CASE ~Full(heap) /\ heap' = New_Item(heap, Plain("invalid"))
           /\ root' = Fresh(heap) /\ mode' = "value" /\ oom' = FALSE
  <2> DEFINE it == Plain("invalid")
             new == Fresh(heap)
  <2>1. it \in Item /\ it.child = NULL /\ it.next = NULL /\ it.string = "none" /\ it.valuestring = "none"
    BY PlainItem DEF Plain, Types
  <2>2. /\ new \in Ids \ DOMAIN heap /\ DOMAIN heap' = DOMAIN heap \cup {new}
        /\ heap'[new] = it
        /\ Grove(heap', held \cup {new}, With(P, new, NULL))
        /\ Blocks(heap', DOMAIN heap') = Blocks(heap, DOMAIN heap) + Blocks(heap', {new})
    <3>1. heap' = New_Item(heap, it) /\ ~Full(heap) BY <1>8
    <3> HIDE DEF it
    <3> QED BY <1>2, <2>1, <3>1, NewGrove
  <2>3. Blocks(heap', {new}) = 0
    BY <2>1, <2>2, BlocksOne
  <2>4. Owned' /\ blocks' \in Nat
    BY <1>1, <1>3, <2>2, <2>3 DEF Owned, JsonInv, TypeOK
  <2> HIDE DEF it, new
  <2>5. root' = new /\ new \notin held /\ new # NULL /\ Roots' = held \cup {new} /\ Trees' = held \cup {new}
    BY <1>3, <1>5, <1>8, <2>2 DEF new
  <2>6. \E Q : Shape(Q)'
    <3>1. PICK Q : Grove(heap', held \cup {new}, Q) BY <2>2
    <3>2. Shape(Q)' BY <1>4, <2>5, <3>1 DEF Shape, Grove
    <3> QED BY <3>2
  <2>7. TypeOK'
    <3>1. DOMAIN heap' \subseteq Ids /\ \A i \in DOMAIN heap' : heap'[i] \in Item
      BY <2>2 DEF Grove, Forest, IsHeap
    <3>2. held' \subseteq DOMAIN heap' /\ root' \in Ptrs BY <1>1, <1>3, <2>2, <2>5 DEF Ptrs
    <3>3. outcome' = "none" BY DEF Parse
    <3> QED BY <1>6, <1>7, <1>8, <2>4, <3>1, <3>2, <3>3 DEF TypeOK, Frames
  <2>8. Control'
    <3>1. Target' = root' BY <1>1 DEF Target
    <3>2. heap'[root'].child = NULL /\ heap'[root'].valuestring = "none" /\ root' \in DOMAIN heap'
      BY <2>1, <2>2, <2>5
    <3> QED BY <1>1, <1>4, <1>7, <1>8, <2>5, <3>1, <3>2 DEF Control
  <2> QED BY <2>4, <2>6, <2>7, <2>8 DEF JsonInv
<1>9. CASE mode' = "fail" /\ oom' = TRUE /\ root' = NULL /\ heap' = heap
  <2>1. Roots' = held /\ Trees' = held
    BY <1>5, <1>9
  <2>2. Shape(P)'
    BY <1>1, <1>2, <1>4, <1>9, <2>1 DEF Shape, Grove
  <2>3. Owned'
    BY <1>1, <1>3, <1>9 DEF Owned
  <2>4. TypeOK'
    <3>1. DOMAIN heap' \subseteq Ids /\ \A i \in DOMAIN heap' : heap'[i] \in Item
      BY <1>3, <1>9 DEF IsHeap
    <3>2. held' \subseteq DOMAIN heap' /\ root' \in Ptrs /\ blocks' \in Nat
      BY <1>1, <1>3, <1>9 DEF Ptrs, JsonInv, TypeOK
    <3>3. outcome' = "none" BY DEF Parse
    <3> QED BY <1>6, <1>7, <1>9, <3>1, <3>2, <3>3 DEF TypeOK, Frames
  <2>5. Control'
    <3>1. NULL \notin held BY <1>3 DEF IsHeap
    <3> QED BY <1>1, <1>4, <1>7, <1>9, <3>1 DEF Control
  <2> QED BY <2>2, <2>3, <2>4, <2>5 DEF JsonInv
<1> QED BY <1>8, <1>9 DEF Parse

\* An error or an allocation that fails: from here the lists are deleted.
LEMMA FailInv == JsonInv /\ mode # "idle" /\ (Reject \/ OutOfMemory) => JsonInv'
<1> SUFFICES ASSUME JsonInv, mode # "idle", Reject \/ OutOfMemory PROVE JsonInv'
  OBVIOUS
<1>1. /\ UNCHANGED <<heap, blocks, held, calls, text, pos, depth, stack, root, outcome>>
      /\ mode' = "fail" /\ oom' \in BOOLEAN /\ TypeOK /\ Control
  BY DEF Reject, OutOfMemory, JsonInv, TypeOK
<1>2. Control'
  BY <1>1 DEF Control
<1>3. pos' \in 1 .. Len(text) + 1
  BY <1>1 DEF TypeOK
<1> QED BY <1>1, <1>2, <1>3, QuietStep DEF Modes

\* parse_object passes a colon.
LEMMA ColonInv == JsonInv /\ Colon => JsonInv'
<1> SUFFICES ASSUME JsonInv, Colon PROVE JsonInv'
  OBVIOUS
<1>1. /\ UNCHANGED <<heap, blocks, held, calls, text, depth, stack, root, outcome, oom>>
      /\ mode = "colon" /\ mode' = "value" /\ Token = ":" /\ pos' = pos + 1 /\ TypeOK /\ Control
      /\ oom \in BOOLEAN
  BY DEF Colon, JsonInv, TypeOK
<1>2. Control'
  <2>1. Target' = Target BY <1>1 DEF Target, Top
  <2> QED BY <1>1, <2>1 DEF Control
<1>3. pos' \in 1 .. Len(text) + 1
  BY <1>1, TokenFacts
<1> QED BY <1>1, <1>2, <1>3, QuietStep DEF Modes

\* The loop of parse_array and parse_object passes a comma.
LEMMA CommaInv == JsonInv /\ Comma => JsonInv'
<1> SUFFICES ASSUME JsonInv, Comma PROVE JsonInv'
  OBVIOUS
<1>1. /\ UNCHANGED <<heap, blocks, held, calls, text, depth, stack, root, outcome, oom>>
      /\ mode = "after" /\ mode' = "item" /\ stack # <<>> /\ Token = "," /\ pos' = pos + 1
      /\ TypeOK /\ Control /\ oom \in BOOLEAN
  BY DEF Comma, JsonInv, TypeOK
<1>2. Control'
  BY <1>1 DEF Control
<1>3. pos' \in 1 .. Len(text) + 1
  BY <1>1, TokenFacts
<1> QED BY <1>1, <1>2, <1>3, QuietStep DEF Modes

\* Where there is an item to fill in, the list it is in has begun.
LEMMA OpenList ==
    ASSUME JsonInv, mode \in {"value", "name", "colon"}, stack # <<>>
    PROVE  Top.head # NULL
<1>1. PICK P : Shape(P) BY DEF JsonInv
<1>2. Target = Top.current /\ Target # NULL
  <2>1. Target \in DOMAIN heap /\ NULL \notin DOMAIN heap
    BY <1>1 DEF JsonInv, Control, Shape, Forest, IsHeap, Ids, NULL
  <2> QED BY <2>1 DEF Target
<1>3. Frame(P, Len(stack)) /\ Top = stack[Len(stack)]
  BY <1>1, StackType DEF Shape, JsonInv
<1> QED BY <1>2, <1>3 DEF Frame

\* parse_value fills in a literal or a number.
LEMMA ScalarInv == JsonInv /\ parse_scalar => JsonInv'
<1> SUFFICES ASSUME JsonInv, parse_scalar PROVE JsonInv'
  OBVIOUS
<1>1. /\ UNCHANGED <<blocks, held, calls, text, depth, stack, root, outcome, oom>>
      /\ mode = "value" /\ mode' = "after" /\ Token \in Scalars /\ pos' = pos + 1
      /\ heap' = [heap EXCEPT ![Target].type = Token]
      /\ TypeOK /\ Control
  BY DEF parse_scalar, JsonInv
<1>2. Target \in DOMAIN heap /\ heap[Target] \in Item
  BY <1>1 DEF Control, TypeOK
<1>3. heap'[Target] = [heap[Target] EXCEPT !.type = Token]
      /\ heap' = [heap EXCEPT ![Target] = heap'[Target]]
  BY <1>1, <1>2
<1>4. /\ heap'[Target] \in Item /\ SameLinks(heap, heap', Target)
      /\ heap'[Target].prev = heap[Target].prev
      /\ heap'[Target].string = heap[Target].string
      /\ heap'[Target].valuestring = heap[Target].valuestring
  <2>1. Token \in Types BY <1>1 DEF Scalars, Types
  <2> QED BY <1>2, <1>3, <2>1 DEF Item, SameLinks
<1>5. Blocks(heap', {Target}) = Blocks(heap, {Target}) /\ Blocks(heap, {Target}) \in Nat
  <2>1. Blocks(heap, {Target}) \in Nat
    <3>1. IsFiniteSet({Target}) BY FS_Singleton
    <3> QED BY <3>1, BlocksType
  <2>2. Blocks(heap', {Target}) = Blocks(heap, {Target})
    BY <1>4, BlocksSame
  <2> QED BY <2>1, <2>2
<1>6. Control'
  <2>1. stack # <<>> => Top.head # NULL
    BY <1>1, OpenList
  <2> QED BY <1>1, <2>1 DEF Control, Top
<1>7. pos' \in 1 .. Len(text) + 1
  BY <1>1, TokenFacts DEF Scalars
<1>8. blocks' = blocks + Blocks(heap', {Target}) - Blocks(heap, {Target})
  BY <1>1, <1>5 DEF TypeOK
<1> QED BY <1>1, <1>3, <1>4, <1>6, <1>7, <1>8, FillIn DEF Modes

\* parse_string gives the item a block.
LEMMA StringInv == JsonInv /\ parse_string => JsonInv'
<1> SUFFICES ASSUME JsonInv, parse_string PROVE JsonInv'
  OBVIOUS
<1>1. mode = "value" /\ Token \in Strings /\ TypeOK /\ Control /\ Token # "none" /\ Token # "end"
  BY TokenFacts DEF parse_string, JsonInv
<1>2. CASE OutOfMemory
  BY <1>1, <1>2, FailInv
<1>3. CASE /\ heap' = [heap EXCEPT ![Target].type = "string", ![Target].valuestring = Token]
           /\ blocks' = blocks + 1
           /\ pos' = pos + 1 /\ mode' = "after"
           /\ UNCHANGED <<held, calls, text, depth, stack, root, outcome, oom>>
  <2>1. Target \in DOMAIN heap /\ heap[Target] \in Item /\ heap[Target].valuestring = "none"
    BY <1>1 DEF Control, TypeOK
  <2>2. heap'[Target] = [heap[Target] EXCEPT !.type = "string", !.valuestring = Token]
        /\ heap' = [heap EXCEPT ![Target] = heap'[Target]]
    BY <1>3, <2>1
  <2>3. /\ heap'[Target] \in Item /\ SameLinks(heap, heap', Target)
        /\ heap'[Target].prev = heap[Target].prev
        /\ heap'[Target].string = heap[Target].string
        /\ heap'[Target].valuestring = Token
    BY <1>1, <2>1, <2>2 DEF Item, SameLinks, Types
  <2>4. Blocks(heap', {Target}) = Blocks(heap, {Target}) + 1 /\ Blocks(heap, {Target}) \in Nat
    <3>1. Blocks(heap, {Target}) = (IF heap[Target].string = "none" THEN 0 ELSE 1)
                                       + (IF heap[Target].valuestring = "none" THEN 0 ELSE 1)
      BY BlocksOne
    <3>2. Blocks(heap', {Target}) = (IF heap'[Target].string = "none" THEN 0 ELSE 1)
                                        + (IF heap'[Target].valuestring = "none" THEN 0 ELSE 1)
      BY BlocksOne
    <3> QED BY <1>1, <2>1, <2>3, <3>1, <3>2
  <2>5. Control'
    <3>1. stack # <<>> => Top.head # NULL BY <1>1, OpenList
    <3> QED BY <1>1, <1>3, <3>1 DEF Control, Top
  <2>6. pos' \in 1 .. Len(text) + 1
    BY <1>1, <1>3, TokenFacts
  <2>7. blocks' = blocks + Blocks(heap', {Target}) - Blocks(heap, {Target})
    BY <1>1, <1>3, <2>4 DEF TypeOK
  <2> QED BY <1>1, <1>3, <2>2, <2>3, <2>5, <2>6, <2>7, FillIn DEF Modes
<1> QED BY <1>2, <1>3 DEF parse_string

\* parse_object moves the key from valuestring to string.
LEMMA NameInv == JsonInv /\ parse_name => JsonInv'
<1> SUFFICES ASSUME JsonInv, parse_name PROVE JsonInv'
  OBVIOUS
<1>1. /\ mode = "name" /\ Token \in Strings /\ TypeOK /\ Control /\ Token # "none" /\ Token # "end"
      /\ stack # <<>> /\ Target = Top.current
  BY TokenFacts DEF parse_name, JsonInv, Control, Target
<1>2. CASE OutOfMemory
  BY <1>1, <1>2, FailInv
<1>3. CASE /\ heap' = [heap EXCEPT ![Top.current].string = Token, ![Top.current].type = "string"]
           /\ blocks' = blocks + 1
           /\ pos' = pos + 1 /\ mode' = "colon"
           /\ UNCHANGED <<held, calls, text, depth, stack, root, outcome, oom>>
  <2>1. Target \in DOMAIN heap /\ heap[Target] \in Item /\ heap[Target].string = "none"
        /\ heap[Target].child = NULL /\ heap[Target].valuestring = "none"
    BY <1>1 DEF Control, TypeOK
  <2>2. heap'[Target] = [heap[Target] EXCEPT !.string = Token, !.type = "string"]
        /\ heap' = [heap EXCEPT ![Target] = heap'[Target]]
    BY <1>1, <1>3, <2>1
  <2>3. /\ heap'[Target] \in Item /\ SameLinks(heap, heap', Target)
        /\ heap'[Target].prev = heap[Target].prev
        /\ heap'[Target].string = Token
        /\ heap'[Target].valuestring = heap[Target].valuestring
    BY <1>1, <2>1, <2>2 DEF Item, SameLinks, Types
  <2>4. Blocks(heap', {Target}) = Blocks(heap, {Target}) + 1 /\ Blocks(heap, {Target}) \in Nat
    <3>1. Blocks(heap, {Target}) = (IF heap[Target].string = "none" THEN 0 ELSE 1)
                                       + (IF heap[Target].valuestring = "none" THEN 0 ELSE 1)
      BY BlocksOne
    <3>2. Blocks(heap', {Target}) = (IF heap'[Target].string = "none" THEN 0 ELSE 1)
                                        + (IF heap'[Target].valuestring = "none" THEN 0 ELSE 1)
      BY BlocksOne
    <3> QED BY <1>1, <2>1, <2>3, <3>1, <3>2
  <2>5. Control'
    <3>1. Target' = Target BY <1>3 DEF Target, Top
    <3>2. heap'[Target].child = NULL /\ heap'[Target].valuestring = "none" /\ Target \in DOMAIN heap'
      BY <2>1, <2>2, <2>3 DEF SameLinks
    <3> QED BY <1>1, <1>3, <3>1, <3>2 DEF Control
  <2>6. pos' \in 1 .. Len(text) + 1
    BY <1>1, <1>3, TokenFacts
  <2>7. blocks' = blocks + Blocks(heap', {Target}) - Blocks(heap, {Target})
    BY <1>1, <1>3, <2>4 DEF TypeOK
  <2> QED BY <1>1, <1>3, <2>2, <2>3, <2>5, <2>6, <2>7, FillIn DEF Modes
<1> QED BY <1>2, <1>3 DEF parse_name

\* A new frame, with a list that is empty.
LEMMA EnterInv == JsonInv /\ Enter => JsonInv'
<1> SUFFICES ASSUME JsonInv, Enter PROVE JsonInv'
  OBVIOUS
<1> DEFINE new == [kind |-> KindOf[Token], item |-> Target, head |-> NULL, current |-> NULL]
           n == Len(stack)
<1>1. /\ mode = "value" /\ Token \in {"[", "{"} /\ depth < NestingLimit
      /\ depth' = depth + 1 /\ stack' = Append(stack, new) /\ pos' = pos + 1
      /\ mode' = IF pos < Len(text) /\ text[pos + 1] = (IF Token = "[" THEN "]" ELSE "}")
                 THEN "close" ELSE "item"
      /\ UNCHANGED <<heap, blocks, held, calls, text, root, outcome, oom>>
      /\ TypeOK /\ Control
  BY DEF Enter, JsonInv
<1>2. PICK P : Shape(P)
  BY DEF JsonInv
<1>3. /\ Target \in DOMAIN heap /\ heap[Target].child = NULL /\ IsHeap(heap)
      /\ \A k \in 1 .. n : stack[k].item # Target
      /\ Target = (IF stack = <<>> THEN root ELSE stack[n].current)
      /\ root # NULL
  BY <1>1, <1>2, TargetFacts DEF Control, Shape, Forest
<1>4. new \in Frames
  <2>1. KindOf[Token] \in {"array", "object"} BY <1>1 DEF KindOf
  <2>2. Target \in Ids BY <1>3 DEF IsHeap
  <2> QED BY <2>1, <2>2 DEF Frames, Ptrs
<1>5. /\ stack \in Seq(Frames) /\ n \in Nat /\ (stack = <<>> <=> n = 0)
      /\ stack' \in Seq(Frames) /\ Len(stack') = n + 1 /\ stack'[n + 1] = new
      /\ \A k \in 1 .. n : stack'[k] = stack[k]
  <2>1. stack \in Seq(Frames) /\ n \in Nat BY <1>1, StackType
  <2>2. stack' = Append(stack, new) BY <1>1
  <2>3. stack = <<>> <=> n = 0 BY <2>1
  <2> HIDE DEF new
  <2>4. /\ Append(stack, new) \in Seq(Frames) /\ Len(Append(stack, new)) = n + 1
        /\ Append(stack, new)[n + 1] = new
        /\ \A k \in 1 .. n : Append(stack, new)[k] = stack[k]
    BY <1>4, <2>1, AppendProperties
  <2> QED BY <2>1, <2>2, <2>3, <2>4
<1> HIDE DEF n
<1>6. new.item = Target /\ new.head = NULL /\ new.current = NULL
  OBVIOUS
<1> HIDE DEF new
<1>7. Trees' = Trees /\ Heads' = Heads /\ Roots' = Roots
  <2>1. Trees' = Trees BY <1>1 DEF Trees
  <2>2. Heads' = Heads
    <3>1. ASSUME NEW x, x # NULL
          PROVE  (\E k \in 1 .. n + 1 : stack'[k].head = x) <=> (\E k \in 1 .. n : stack[k].head = x)
      BY <1>5, <1>6, <3>1
    <3>2. \A x : x \in Heads' <=> x # NULL /\ \E k \in 1 .. n + 1 : stack'[k].head = x
      BY <1>5 DEF Heads
    <3>3. \A x : x \in Heads <=> x # NULL /\ \E k \in 1 .. n : stack[k].head = x
      BY DEF Heads, n
    <3> QED BY <3>1, <3>2, <3>3
  <2> QED BY <2>1, <2>2, RootsAre, RootsAreNext
<1>8. ASSUME NEW k \in 1 .. n + 1 PROVE Frame(P, k)'
  <2>1. CASE k \in 1 .. n
    <3>1. Frame(P, k) BY <1>2, <2>1 DEF Shape, n
    <3>2. k - 1 \in 1 .. n \/ k = 1 BY <1>5, <2>1
    <3>3. stack'[k] = stack[k] /\ (k # 1 => stack'[k - 1] = stack[k - 1]) BY <1>5, <2>1, <3>2
    <3>4. \A j \in 1 .. n + 1 : j # k => stack'[j].item # stack[k].item
      <4>1. \A j \in 1 .. n : j # k => stack[j].item # stack[k].item BY <3>1 DEF Frame, n
      <4>2. stack[k].item # Target BY <1>3, <2>1
      <4>3. \A j \in 1 .. n + 1 : j = n + 1 \/ j \in 1 .. n BY <1>5
      <4> QED BY <1>5, <1>6, <4>1, <4>2, <4>3
    <3> QED BY <1>1, <1>5, <3>1, <3>3, <3>4 DEF Frame
  <2>2. CASE k = n + 1
    <3>1. stack'[k] = new BY <1>5, <2>2
    <3>2. \A j \in 1 .. n + 1 : j # k => stack'[j].item # Target
      <4>1. \A j \in 1 .. n + 1 : j # k => j \in 1 .. n BY <1>5, <2>2
      <4> QED BY <1>3, <1>5, <4>1 DEF n
    <3>3. Target = (IF k = 1 THEN root ELSE stack'[k - 1].current)
      <4>1. k = 1 <=> n = 0 BY <1>5, <2>2
      <4>2. k # 1 => k - 1 = n /\ n \in 1 .. n BY <1>5, <2>2
      <4> QED BY <1>3, <1>5, <4>1, <4>2
    <3> QED BY <1>1, <1>3, <1>5, <1>6, <3>1, <3>2, <3>3 DEF Frame
  <2> QED BY <1>5, <2>1, <2>2
<1>9. Shape(P)'
  <2>1. mode' # "idle" BY <1>1
  <2> QED BY <1>1, <1>2, <1>5, <1>7, <1>8 DEF Shape
<1>10. Owned'
  BY <1>1 DEF JsonInv, Owned
<1>11. depth = n /\ depth' \in 0 .. NestingLimit /\ Len(stack') <= NestingLimit
  <2>1. depth = n BY <1>1 DEF Control, n
  <2>2. NestingLimit \in Nat BY CallsAssumption
  <2>3. depth < NestingLimit /\ depth' = depth + 1 BY <1>1
  <2>4. n \in Nat /\ Len(stack') = n + 1 BY <1>5
  <2> QED BY <2>1, <2>2, <2>3, <2>4
<1>12. TypeOK'
  <2>1. IsHeap(heap') /\ held \subseteq DOMAIN heap' BY <1>1, <1>3 DEF TypeOK
  <2>2. blocks' = Blocks(heap', DOMAIN heap') BY <1>10 DEF Owned
  <2>3. pos' \in 1 .. Len(text) + 1
    <3>1. Token # "end" BY <1>1
    <3> QED BY <1>1, <3>1, TokenFacts
  <2>4. mode' \in Modes /\ oom' \in BOOLEAN BY <1>1 DEF Modes, TypeOK
  <2> QED BY <1>1, <1>5, <1>11, <2>1, <2>2, <2>3, <2>4, ParserTypes
<1>13. Control'
  <2>1. stack' # <<>> /\ Top' = new BY <1>5 DEF Top
  <2>2. mode' = "close" => pos' <= Len(text')
    <3>1. mode' = "close" => pos < Len(text) BY <1>1
    <3>2. Len(text) \in Nat /\ pos \in Nat /\ pos' = pos + 1 /\ text' = text BY <1>1, TokenFacts
    <3> QED BY <3>1, <3>2
  <2>3. mode' \in {"close", "item"} BY <1>1
  <2> QED BY <1>1, <1>3, <1>5, <1>6, <1>11, <2>1, <2>2, <2>3 DEF Control
<1> QED BY <1>9, <1>10, <1>12, <1>13 DEF JsonInv

\* cJSON_Parse returns the document to the caller.
LEMMA AcceptInv == JsonInv /\ Accept => JsonInv'
<1> SUFFICES ASSUME JsonInv, Accept PROVE JsonInv'
  OBVIOUS
<1>1. /\ mode = "after" /\ mode' = "idle" /\ stack = <<>> /\ stack' = <<>>
      /\ held' = held \cup {root} /\ outcome' = "item"
      /\ UNCHANGED <<heap, blocks, calls, text, pos, depth, root, oom>>
      /\ TypeOK /\ Control /\ root # NULL
  BY DEF Accept, JsonInv, Control
<1>2. PICK P : Shape(P)
  BY DEF JsonInv
<1>3. Len(stack') = 0 /\ 1 .. Len(stack') = {} /\ Heads = {} /\ Heads' = {}
  BY <1>1 DEF Heads
<1>4. Trees' = Trees /\ Roots' = Roots
  <2>1. Trees' = Trees BY <1>1 DEF Trees
  <2> QED BY <1>3, <2>1, RootsAre, RootsAreNext
<1>5. Shape(P)'
  BY <1>1, <1>2, <1>3, <1>4 DEF Shape
<1>6. TypeOK'
  <2>1. root \in DOMAIN heap
    <3>1. root \in Trees BY <1>1 DEF Trees
    <3> QED BY <1>2, <3>1, RootsAre DEF Shape, Forest, Rooted
  <2>2. held' \subseteq DOMAIN heap' BY <1>1, <2>1 DEF TypeOK
  <2> QED BY <1>1, <2>2 DEF TypeOK
<1>7. Control'
  BY <1>1 DEF Control
<1>8. Owned'
  BY <1>1 DEF JsonInv, Owned
<1> QED BY <1>5, <1>6, <1>7, <1>8 DEF JsonInv

\* A new item at the end of the list that is being read.
LEMMA NewItemInv == JsonInv /\ NewItem => JsonInv'
<1> SUFFICES ASSUME JsonInv, NewItem PROVE JsonInv'
  OBVIOUS
<1> DEFINE new == Fresh(heap)
           it == [Plain("invalid") EXCEPT !.prev = Top.current]
           with == New_Item(heap, it)
           top == [Top EXCEPT !.head = IF @ = NULL THEN new ELSE @, !.current = new]
           n == Len(stack)
           a == Top.current
           p == Top.item
<1>1. mode = "item" /\ TypeOK /\ Control /\ stack # <<>>
  BY DEF NewItem, JsonInv, Control
<1>2. CASE OutOfMemory
  BY <1>1, <1>2, FailInv
<1>3. CASE /\ ~Full(heap)
           /\ heap' = IF Top.head = NULL THEN with ELSE [with EXCEPT ![Top.current].next = new]
           /\ stack' = SetTop(top)
           /\ mode' = IF Top.kind = "array" THEN "value" ELSE "name"
           /\ UNCHANGED <<blocks, held, calls, text, pos, depth, root, outcome, oom>>
  <2>1. PICK P : Shape(P)
    BY DEF JsonInv
  <2>2. /\ Forest(heap, Roots, P) /\ IsHeap(heap) /\ NULL \notin DOMAIN heap
        /\ DOMAIN P = DOMAIN heap /\ Roots \subseteq DOMAIN heap
        /\ \A r \in Trees : P[r] = NULL /\ heap[r].next = NULL
        /\ Trees \subseteq DOMAIN heap
    BY <2>1, RootsAre DEF Shape, Forest, IsHeap, Ids, NULL, Linked, Rooted
  <2>3. /\ stack \in Seq(Frames) /\ n \in Nat /\ n \in 1 .. n /\ Top = stack[n] /\ Top \in Frames
    BY <1>1, StackType
  <2>4. /\ p \in DOMAIN heap /\ p # NULL /\ heap[p].child = NULL
        /\ Top.head = NULL <=> a = NULL
        /\ Top.head # NULL => /\ Top.head \in DOMAIN heap /\ a \in DOMAIN heap
                              /\ P[Top.head] = p /\ P[a] = p /\ heap[a].next = NULL
    BY <2>1, <2>2, <2>3 DEF Shape, Frame
  <2>5. /\ it \in Item /\ it.child = NULL /\ it.next = NULL /\ it.prev = a
        /\ it.string = "none" /\ it.valuestring = "none"
    <3>1. a \in Ptrs /\ "invalid" \in Types BY <2>3 DEF Frames, Types
    <3> QED BY <3>1, PlainItem DEF Plain
  <2>6. PICK Q : Q = With(P, new, p)
    OBVIOUS
  <2>7. /\ new \in Ids \ DOMAIN heap /\ DOMAIN heap' = DOMAIN heap \cup {new}
        /\ heap'[new] = it
        /\ \A i \in DOMAIN heap : /\ heap'[i].child = heap[i].child
                                  /\ i # a => heap'[i].next = heap[i].next
                                  /\ heap'[i].string = heap[i].string
                                  /\ heap'[i].valuestring = heap[i].valuestring
        /\ Forest(heap', IF Top.head = NULL THEN Roots \cup {new} ELSE Roots, Q)
    <3>1. CASE Top.head = NULL
      <4>1. heap' = with BY <1>3, <3>1
      <4>2. p \in Ptrs BY <2>3 DEF Frames, Ptrs
      <4>3. new \in Ids \ DOMAIN heap /\ Forest(with, Roots \cup {new}, Q)
        <5> HIDE DEF it, p
        <5> QED BY <1>3, <2>2, <2>5, <2>6, <4>2, NewItemForest
      <4>4. with = [i \in DOMAIN heap \cup {new} |-> IF i \in DOMAIN heap THEN heap[i] ELSE it]
        BY DEF New_Item
      <4> HIDE DEF it, with, new, p, a
      <4>5. DOMAIN with = DOMAIN heap \cup {new} /\ with[new] = it /\ \A i \in DOMAIN heap : with[i] = heap[i]
        BY <4>3, <4>4
      <4> QED BY <3>1, <4>1, <4>3, <4>5
    <3>2. CASE Top.head # NULL
      <4>1. heap' = Appended(heap, it, a) BY <1>3, <3>2 DEF Appended
      <4>2. a \in DOMAIN heap /\ heap[a].next = NULL /\ P[a] = p /\ P[a] \in DOMAIN heap
            /\ heap[P[a]].child = NULL
        BY <2>4, <3>2
      <4> HIDE DEF it, p, a
      <4>3. /\ new \in Ids \ DOMAIN heap /\ DOMAIN heap' = DOMAIN heap \cup {new}
            /\ heap'[new] = it
            /\ \A i \in DOMAIN heap \ {a} : heap'[i] = heap[i]
            /\ heap'[a] = [heap[a] EXCEPT !.next = new]
            /\ Forest(heap', Roots, With(P, new, P[a]))
        <5>1. /\ Forest(heap, Roots, P) /\ ~Full(heap) /\ it \in Item /\ it.child = NULL
              /\ it.next = NULL /\ it.prev = a
          BY <1>3, <2>2, <2>5
        <5>2. PICK now, R, h, node, last :
                 /\ h = heap /\ R = Roots /\ node = it /\ last = a /\ now = Appended(h, node, last)
          OBVIOUS
        <5>3. new = Fresh(h) /\ heap' = now BY <4>1, <5>2 DEF new
        <5>4. /\ Forest(h, R, P) /\ ~Full(h) /\ last \in DOMAIN h /\ h[last].next = NULL
              /\ P[last] \in DOMAIN h /\ h[P[last]].child = NULL /\ node \in Item
              /\ node.child = NULL /\ node.next = NULL /\ node.prev = last
          BY <4>2, <5>1, <5>2
        <5>5. /\ Fresh(h) \in Ids \ DOMAIN h
              /\ DOMAIN Appended(h, node, last) = DOMAIN h \cup {Fresh(h)}
              /\ Appended(h, node, last)[Fresh(h)] = node
              /\ \A i \in DOMAIN h \ {last} : Appended(h, node, last)[i] = h[i]
              /\ Appended(h, node, last)[last] = [h[last] EXCEPT !.next = Fresh(h)]
              /\ Forest(Appended(h, node, last), R, With(P, Fresh(h), P[last]))
          BY ONLY <5>4, AppendForest
        <5> HIDE DEF new
        <5> QED BY <5>2, <5>3, <5>5
      <4>4. /\ heap'[a].child = heap[a].child /\ heap'[a].string = heap[a].string
            /\ heap'[a].valuestring = heap[a].valuestring
        <5>1. heap[a] \in Item BY <2>2, <4>2 DEF IsHeap
        <5> QED BY <4>3, <5>1 DEF Item
      <4>5. With(P, new, P[a]) = Q BY <2>6, <4>2
      <4> HIDE DEF new
      <4> QED BY <3>2, <4>3, <4>4, <4>5
    <3> QED BY <3>1, <3>2
  <2>8. /\ Q[new] = p /\ \A i \in DOMAIN heap : Q[i] = P[i]
    BY <2>2, <2>7, <2>6 DEF With
  <2>9. /\ top \in Frames /\ top.item = p /\ top.current = new /\ top.kind = Top.kind
        /\ top.head = IF Top.head = NULL THEN new ELSE Top.head
        /\ new # NULL
    <3>1. new \in Ptrs /\ new # NULL BY <2>7 DEF Ptrs, Ids, NULL
    <3> HIDE DEF new
    <3> QED BY <2>3, <3>1 DEF Frames
  <2>10. /\ stack' \in Seq(Frames) /\ Len(stack') = n /\ stack'[n] = top
         /\ \A k \in 1 .. n : k # n => stack'[k] = stack[k]
         /\ \A k \in 1 .. n : stack'[k].item = stack[k].item
    <3>1. stack' = [stack EXCEPT ![n] = top] BY <1>3 DEF SetTop
    <3>2. top \in Frames /\ top.item = p BY <2>9
    <3> HIDE DEF top
    <3>3. /\ [stack EXCEPT ![n] = top] \in Seq(Frames)
          /\ Len([stack EXCEPT ![n] = top]) = Len(stack)
          /\ \A j \in 1 .. Len(stack) : [stack EXCEPT ![n] = top][j] = IF j = n THEN top ELSE stack[j]
      BY <2>3, <3>2, ExceptSeq
    <3> QED BY <2>3, <3>1, <3>2, <3>3
  <2>11. /\ Owned' /\ blocks' = Blocks(heap', DOMAIN heap')
    <3>1. IsFiniteSet({new}) /\ {new} \cap DOMAIN heap = {} BY <2>7, FS_Singleton
    <3> HIDE DEF new, it
    <3>2. heap'[new].string = "none" /\ heap'[new].valuestring = "none" BY <2>5, <2>7
    <3>3. Blocks(heap', {new}) = 0 BY <3>2, BlocksOne
    <3>4. \A i \in DOMAIN heap : /\ heap'[i].string = heap[i].string
                                 /\ heap'[i].valuestring = heap[i].valuestring
      BY <2>7
    <3>5. IsHeap(heap) /\ DOMAIN heap' = DOMAIN heap \cup {new} BY <2>2, <2>7
    <3>6. Blocks(heap', DOMAIN heap') = Blocks(heap, DOMAIN heap) + Blocks(heap', {new})
          /\ Blocks(heap, DOMAIN heap) \in Nat
      BY <3>1, <3>4, <3>5, BlocksMore
    <3> QED BY <1>3, <3>3, <3>6 DEF Owned, JsonInv
  <2> HIDE DEF new, it, with, top, n
  <2>12. mode' \in {"value", "name"}
    BY <1>3
  <2>13. Trees' = Trees
    BY <1>1, <1>3, <2>12 DEF Trees
  <2>14. Heads' = IF Top.head = NULL THEN Heads \cup {new} ELSE Heads
    <3>1. \A x : x \in Heads' <=> x # NULL /\ \E k \in 1 .. n : stack'[k].head = x
      BY <2>10 DEF Heads
    <3>2. \A x : x \in Heads <=> x # NULL /\ \E k \in 1 .. n : stack[k].head = x
      BY DEF Heads, n
    <3>3. \A k \in 1 .. n : stack'[k].head = IF k = n THEN (IF Top.head = NULL THEN new ELSE Top.head)
                                            ELSE stack[k].head
      BY <2>9, <2>10
    <3>4. stack[n].head = Top.head /\ n \in 1 .. n /\ new # NULL BY <2>3, <2>9
    <3> QED BY <3>1, <3>2, <3>3, <3>4
  <2>15. Roots' = IF Top.head = NULL THEN Roots \cup {new} ELSE Roots
    BY <2>13, <2>14, RootsAre, RootsAreNext
  <2>16. \A r \in Trees' : Q[r] = NULL /\ heap'[r].next = NULL
    <3>1. \A r \in Trees : r # a
      <4>1. a # NULL => P[a] = p BY <2>4
      <4> QED BY <2>2, <2>4, <4>1
    <3> QED BY <2>2, <2>7, <2>8, <2>13, <3>1
  <2>17. ASSUME NEW k \in 1 .. n PROVE Frame(Q, k)'
    <3>1. Frame(P, k) BY <2>1, <2>17 DEF Shape, n
    <3>2. k - 1 \in 1 .. n \/ k = 1 BY <2>3, <2>17
    <3>3. k # 1 => stack'[k - 1] = stack[k - 1]
      BY <2>3, <2>10, <2>17, <3>2
    <3>4. /\ stack'[k].item \in DOMAIN heap' /\ heap'[stack'[k].item].child = NULL
          /\ stack'[k].item = (IF k = 1 THEN root' ELSE stack'[k - 1].current)
          /\ \A j \in 1 .. n : j # k => stack'[j].item # stack'[k].item
      BY <1>3, <2>7, <2>10, <3>1, <3>3 DEF Frame, n
    <3>5. CASE k = n
      <4>1. stack'[k].head # NULL /\ stack'[k].current = new /\ new # NULL /\ stack'[k].item = p
        BY <2>9, <2>10, <3>5
      <4>2. stack'[k].head \in DOMAIN heap' /\ Q[stack'[k].head] = p
        BY <2>4, <2>7, <2>8, <2>9, <2>10, <3>5
      <4>3. new \in DOMAIN heap' /\ Q[new] = p /\ heap'[new].next = NULL
        BY <2>5, <2>7, <2>8
      <4> QED BY <2>10, <3>4, <4>1, <4>2, <4>3 DEF Frame
    <3>6. CASE k # n
      <4>1. stack'[k] = stack[k] BY <2>10, <3>6
      <4>2. ASSUME stack[k].head # NULL
            PROVE  /\ Q[stack[k].head] = stack[k].item /\ Q[stack[k].current] = stack[k].item
                   /\ stack[k].head \in DOMAIN heap' /\ stack[k].current \in DOMAIN heap'
                   /\ heap'[stack[k].current].next = NULL
        <5>1. /\ stack[k].head \in DOMAIN heap /\ stack[k].current \in DOMAIN heap
              /\ P[stack[k].head] = stack[k].item /\ P[stack[k].current] = stack[k].item
              /\ heap[stack[k].current].next = NULL
          BY <3>1, <4>2 DEF Frame
        <5>2. stack[k].current # a
          <6>1. Frame(P, n) BY <2>1, <2>3 DEF Shape, n
          <6>2. stack[k].item # p BY <2>3, <3>6, <6>1 DEF Frame, n
          <6>3. a # NULL => P[a] = p BY <2>4
          <6> QED BY <2>2, <5>1, <6>2, <6>3
        <5> QED BY <2>7, <2>8, <5>1, <5>2
      <4>3. stack[k].head = NULL <=> stack[k].current = NULL BY <3>1 DEF Frame
      <4> HIDE DEF a, p
      <4> QED BY <2>10, <3>4, <4>1, <4>2, <4>3 DEF Frame
    <3> QED BY <3>5, <3>6
  <2>18. Shape(Q)'
    <3>1. Forest(heap', Roots', Q) BY <2>7, <2>15
    <3> QED BY <2>10, <2>16, <2>17, <3>1 DEF Shape
  <2>19. TypeOK'
    <3>1. IsHeap(heap') BY <2>7 DEF Forest
    <3>2. held \subseteq DOMAIN heap' BY <1>1, <2>7 DEF TypeOK
    <3>3. mode' \in Modes /\ oom' \in BOOLEAN /\ pos' \in 1 .. Len(text) + 1 /\ depth' \in 0 .. NestingLimit
      BY <1>1, <1>3, <2>12 DEF Modes, TypeOK
    <3> QED BY <1>1, <1>3, <2>10, <2>11, <3>1, <3>2, <3>3, ParserTypes
  <2>20. Control'
    <3>1. stack' # <<>> /\ Top' = top
      BY <2>3, <2>10 DEF Top
    <3>2. Target' = new BY <2>9, <3>1 DEF Target
    <3>3. new \in DOMAIN heap' /\ heap'[new].child = NULL /\ heap'[new].valuestring = "none"
          /\ heap'[new].string = "none"
      BY <2>5, <2>7
    <3>4. depth = n /\ n <= NestingLimit BY <1>1 DEF Control, n
    <3> QED BY <1>1, <1>3, <2>10, <2>12, <3>1, <3>2, <3>3, <3>4 DEF Control
  <2> QED BY <2>11, <2>18, <2>19, <2>20 DEF JsonInv
<1> QED BY <1>2, <1>3 DEF NewItem

\* What the frames below the last one keep when it is gone.
LEMMA LowerFrames ==
    ASSUME TypeOK, NEW P, Shape(P), mode # "idle", stack # <<>>, NEW Q,
           stack' = Front(stack), UNCHANGED root,
           \A k \in 1 .. Len(stack) : /\ stack[k].item \in DOMAIN heap'
                                      /\ k < Len(stack) => heap'[stack[k].item].child = NULL
                                      /\ heap'[stack[k].item].next = heap[stack[k].item].next
                                      /\ Q[stack[k].item] = P[stack[k].item],
           \A k \in 1 .. Len(stack) - 1 : stack[k].head # NULL =>
               stack[k].head \in DOMAIN heap' /\ Q[stack[k].head] = P[stack[k].head]
    PROVE  /\ \A k \in 1 .. Len(stack') : Frame(Q, k)'
           /\ Heads' = Heads \ {Top.head}
           /\ stack' # <<>> => Top'.head # NULL
<1> DEFINE n == Len(stack)
<1>1. /\ stack \in Seq(Frames) /\ n \in Nat /\ n \in 1 .. n /\ Top = stack[n]
      /\ Len(stack') = n - 1 /\ stack' \in Seq(Frames)
      /\ \A k \in 1 .. n - 1 : stack'[k] = stack[k] /\ k \in 1 .. n
  BY StackType
<1>2. \A k \in 1 .. n : Frame(P, k)
  BY DEF Shape
<1>3. NULL \notin DOMAIN heap
  BY DEF Shape, Forest, IsHeap, Ids, NULL
<1>4. ASSUME NEW k \in 1 .. n - 1
      PROVE  /\ k + 1 \in 1 .. n /\ stack[k].current = stack[k + 1].item
             /\ stack[k].head # NULL /\ stack[k].current # NULL
  <2>1. k + 1 \in 1 .. n /\ k + 1 # 1 /\ (k + 1) - 1 = k BY <1>1
  <2>2. Frame(P, k + 1) /\ Frame(P, k) BY <1>1, <1>2, <2>1
  <2>3. stack[k + 1].item = stack[k].current /\ stack[k + 1].item \in DOMAIN heap
    BY <2>1, <2>2 DEF Frame
  <2> QED BY <1>3, <2>1, <2>2, <2>3 DEF Frame
<1>5. \A k \in 1 .. n :
         LET f == stack[k]
         IN  f.head # NULL => \A j \in 1 .. n : stack[j].head = f.head => j = k
  BY StackFacts DEF n
<1>6. ASSUME NEW k \in 1 .. n - 1 PROVE Frame(Q, k)'
  <2>1. Frame(P, k) /\ k \in 1 .. n /\ k < n BY <1>1, <1>2
  <2>2. /\ stack'[k] = stack[k] /\ (k # 1 => stack'[k - 1] = stack[k - 1])
        /\ k # 1 => k - 1 \in 1 .. n - 1
    BY <1>1
  <2>3. /\ stack[k].item \in DOMAIN heap' /\ heap'[stack[k].item].child = NULL
        /\ stack[k].item = (IF k = 1 THEN root' ELSE stack'[k - 1].current)
        /\ \A j \in 1 .. n - 1 : j # k => stack'[j].item # stack[k].item
    BY <1>1, <2>1, <2>2 DEF Frame, n
  <2>4. /\ stack[k].head \in DOMAIN heap' /\ Q[stack[k].head] = stack[k].item
        /\ stack[k].current \in DOMAIN heap' /\ Q[stack[k].current] = stack[k].item
        /\ heap'[stack[k].current].next = NULL
    <3>1. /\ P[stack[k].head] = stack[k].item /\ P[stack[k].current] = stack[k].item
          /\ heap[stack[k].current].next = NULL
      BY <1>4, <2>1 DEF Frame
    <3>2. stack[k].head \in DOMAIN heap' /\ Q[stack[k].head] = P[stack[k].head]
      BY <1>4 DEF n
    <3>3. LET c == stack[k + 1].item
          IN  c \in DOMAIN heap' /\ heap'[c].next = heap[c].next /\ Q[c] = P[c]
      BY <1>4 DEF n
    <3> QED BY <1>4, <3>1, <3>2, <3>3
  <2> QED BY <1>1, <1>4, <2>2, <2>3, <2>4 DEF Frame
<1>7. Heads' = Heads \ {Top.head}
  <2>1. \A x : x \in Heads' <=> x # NULL /\ \E k \in 1 .. n - 1 : stack'[k].head = x
    BY <1>1 DEF Heads
  <2>2. \A x : x \in Heads <=> x # NULL /\ \E k \in 1 .. n : stack[k].head = x
    BY DEF Heads
  <2>3. \A k \in 1 .. n : k = n \/ k \in 1 .. n - 1 BY <1>1
  <2>4. ASSUME NEW x, x # NULL
        PROVE  (\E k \in 1 .. n - 1 : stack'[k].head = x)
                   <=> x # Top.head /\ \E k \in 1 .. n : stack[k].head = x
    <3>1. ASSUME NEW k \in 1 .. n - 1, stack[k].head = x PROVE x # Top.head
      BY <1>1, <1>5, <2>4, <3>1
    <3> HIDE DEF n
    <3> QED BY <1>1, <2>3, <3>1
  <2> QED BY <2>1, <2>2, <2>4
<1>8. stack' # <<>> => Top'.head # NULL
  <2>1. ASSUME stack' # <<>> PROVE Top'.head # NULL
    <3>1. n - 1 \in 1 .. n - 1 BY <1>1, <2>1
    <3>2. Top' = stack[n - 1] BY <1>1, <3>1 DEF Top
    <3> QED BY <1>4, <3>1, <3>2
  <2> QED BY <2>1
<1> QED BY <1>1, <1>6, <1>7, <1>8

\* The list that has been read is linked to its parent.
LEMMA CloseInv == JsonInv /\ Close => JsonInv'
<1> SUFFICES ASSUME JsonInv, Close PROVE JsonInv'
  OBVIOUS
<1> DEFINE n == Len(stack)
           f == Top
<1>1. /\ mode = "close" \/ (mode = "after" /\ stack # <<>> /\ Token = Closer)
      /\ depth' = depth - 1 /\ heap' = CloseList(heap, f) /\ stack' = Front(stack)
      /\ pos' = pos + 1 /\ mode' = "after"
      /\ UNCHANGED <<blocks, held, calls, text, root, outcome, oom>>
      /\ TypeOK /\ Control
  BY DEF Close, LowerDepth, JsonInv
<1>2. /\ mode # "idle" /\ stack # <<>> /\ depth = n /\ n <= NestingLimit /\ root # NULL /\ root \notin held
      /\ f.head = NULL <=> mode = "close"
  BY <1>1 DEF Control
<1>3. PICK P : Shape(P)
  BY DEF JsonInv
<1>4. /\ Forest(heap, Roots, P) /\ IsHeap(heap) /\ NULL \notin DOMAIN heap
      /\ Roots \subseteq DOMAIN heap /\ Trees \subseteq DOMAIN heap
      /\ \A r \in Trees : P[r] = NULL /\ heap[r].next = NULL
  BY <1>3, RootsAre DEF Shape, Forest, IsHeap, Ids, NULL, Rooted
<1>5. /\ stack \in Seq(Frames) /\ n \in Nat /\ n \in 1 .. n /\ f = stack[n] /\ f \in Frames
      /\ stack' \in Seq(Frames) /\ Len(stack') = n - 1
  BY <1>1, <1>2, StackType
<1>6. /\ f.item \in DOMAIN heap /\ f.item # NULL /\ heap[f.item].child = NULL
      /\ f.head # NULL => /\ f.head \in DOMAIN heap /\ f.current \in DOMAIN heap
                          /\ P[f.head] = f.item /\ P[f.current] = f.item
                          /\ heap[f.current].next = NULL
      /\ \A k \in 1 .. n : k # n => stack[k].item # f.item
  BY <1>3, <1>4, <1>5 DEF Shape, Frame
<1>7. \A k \in 1 .. n : /\ stack[k].item \in DOMAIN heap /\ heap[stack[k].item].child = NULL
                        /\ stack[k].head # NULL => stack[k].head \in DOMAIN heap
  BY <1>3 DEF Shape, Frame
<1>8. /\ P[f.item] \in DOMAIN heap => heap[P[f.item]].child = NULL
      /\ P[f.item] # f.item
      /\ f.head # NULL => f.head \in Roots /\ f.head \notin Trees
  BY <1>2, <1>3, <1>5, StackFacts
<1>9. DOMAIN heap' = DOMAIN heap /\ heap' = [i \in DOMAIN heap' |-> heap'[i]]
  BY <1>1 DEF CloseList
<1>10. ASSUME NEW i \in DOMAIN heap
       PROVE  /\ heap'[i] \in Item
              /\ heap'[i].child = IF i = f.item THEN f.head ELSE heap[i].child
              /\ heap'[i].next = heap[i].next
              /\ heap'[i].prev = IF i # f.item /\ i = f.head THEN f.current ELSE heap[i].prev
              /\ heap'[i].string = heap[i].string /\ heap'[i].valuestring = heap[i].valuestring
  <2>1. heap[i] \in Item BY <1>4 DEF IsHeap
  <2>2. f.head \in Ptrs /\ f.current \in Ptrs /\ f.kind \in Types BY <1>5 DEF Frames, Types
  <2>3. heap'[i] = IF i = f.item THEN [heap[i] EXCEPT !.type = f.kind, !.child = f.head]
                   ELSE IF i = f.head THEN [heap[i] EXCEPT !.prev = f.current] ELSE heap[i]
    BY <1>1 DEF CloseList
  <2> HIDE DEF f
  <2>4. CASE i = f.item
    <3>1. heap'[i] = [heap[i] EXCEPT !.type = f.kind, !.child = f.head] BY <2>3, <2>4
    <3> QED BY <2>1, <2>2, <2>4, <3>1 DEF Item
  <2>5. CASE i # f.item /\ i = f.head
    <3>1. heap'[i] = [heap[i] EXCEPT !.prev = f.current] BY <2>3, <2>5
    <3> QED BY <2>1, <2>2, <2>5, <3>1 DEF Item
  <2>6. CASE i # f.item /\ i # f.head
    BY <2>1, <2>3, <2>6
  <2> QED BY <2>4, <2>5, <2>6
<1> HIDE DEF f
<1>11. IsHeap(heap')
  <2>1. DOMAIN heap' \subseteq Ids BY <1>4, <1>9 DEF IsHeap
  <2> QED BY <1>9, <1>10, <2>1 DEF IsHeap
<1>12. Forest(heap', Roots \ {f.head}, P)
  <2>1. CASE f.head = NULL
    <3>1. SameShape(heap, heap')
      BY <1>4, <1>6, <1>9, <1>10, <2>1 DEF SameShape, SameLinks
    <3>2. Roots \ {f.head} = Roots BY <1>4, <2>1
    <3> QED BY <1>4, <1>11, <3>1, <3>2, SameShapeForest
  <2>2. CASE f.head # NULL
    <3>1. f.item \notin Reached(heap, {f.head})
      <4>1. P[f.item] # P[f.head] BY <1>6, <1>8, <2>2
      <4> QED BY <1>4, <1>6, <1>8, <2>2, <4>1, NotBelow
    <3>2. f.head # f.item
      <4>1. {f.head} \cap DOMAIN heap \subseteq Reached(heap, {f.head}) BY ReachedFacts
      <4> QED BY <1>6, <2>2, <3>1, <4>1
    <3>3. \A i \in DOMAIN heap : /\ heap'[i].child = IF i = f.item THEN f.head ELSE heap[i].child
                                 /\ heap'[i].next = heap[i].next
                                 /\ heap'[i].prev = IF i = f.head THEN f.current ELSE heap[i].prev
      BY <1>10, <3>2
    <3> QED BY <1>4, <1>6, <1>8, <1>9, <1>11, <2>2, <3>1, <3>3, CloseForest
  <2> QED BY <2>1, <2>2
<1>13. /\ \A k \in 1 .. Len(stack') : Frame(P, k)'
       /\ Heads' = Heads \ {Top.head}
       /\ stack' # <<>> => Top'.head # NULL
  <2>1. \A k \in 1 .. n : /\ stack[k].item \in DOMAIN heap'
                          /\ k < n => heap'[stack[k].item].child = NULL
                          /\ heap'[stack[k].item].next = heap[stack[k].item].next
                          /\ P[stack[k].item] = P[stack[k].item]
    BY <1>5, <1>6, <1>7, <1>9, <1>10
  <2>2. \A k \in 1 .. n - 1 : stack[k].head # NULL =>
            stack[k].head \in DOMAIN heap' /\ P[stack[k].head] = P[stack[k].head]
    BY <1>5, <1>7, <1>9
  <2> QED BY <1>1, <1>2, <1>3, <2>1, <2>2, LowerFrames
<1>14. Trees' = Trees
  BY <1>1, <1>2 DEF Trees
<1>15. Roots' = Roots \ {f.head}
  <2>1. f.head \notin Trees BY <1>4, <1>8
  <2> QED BY <1>13, <1>14, <2>1, RootsAre, RootsAreNext DEF f
<1>16. Shape(P)'
  <2>1. \A r \in Trees' : P[r] = NULL /\ heap'[r].next = NULL
    BY <1>4, <1>10, <1>14
  <2> QED BY <1>12, <1>13, <1>15, <2>1 DEF Shape
<1>17. Owned' /\ blocks' = Blocks(heap', DOMAIN heap')
  <2>1. Blocks(heap', DOMAIN heap) = Blocks(heap, DOMAIN heap) BY <1>10, BlocksSame
  <2> QED BY <1>1, <1>9, <2>1 DEF Owned, JsonInv
<1>18. n - 1 \in 0 .. NestingLimit /\ n - 1 <= NestingLimit
  <2>1. NestingLimit \in Nat BY CallsAssumption
  <2> QED BY <1>2, <1>5, <2>1
<1>19. TypeOK'
  <2>1. pos' \in 1 .. Len(text) + 1
    <3>1. CASE mode = "close"
      <4>1. pos <= Len(text) BY <1>1, <3>1 DEF Control
      <4>2. pos \in Nat /\ Len(text) \in Nat /\ pos' = pos + 1 BY <1>1, TokenFacts
      <4> QED BY <4>1, <4>2
    <3>2. CASE mode # "close"
      <4>1. Token # "end" BY <1>1, <3>2 DEF Closer
      <4> QED BY <1>1, <4>1, TokenFacts
    <3> QED BY <3>1, <3>2
  <2>2. held \subseteq DOMAIN heap' /\ mode' \in Modes /\ oom' \in BOOLEAN
    BY <1>1, <1>9 DEF TypeOK, Modes
  <2>3. depth' \in 0 .. NestingLimit BY <1>1, <1>2, <1>18
  <2> QED BY <1>1, <1>5, <1>11, <1>17, <2>1, <2>2, <2>3, ParserTypes
<1>20. Control'
  <2>1. depth' = Len(stack') /\ Len(stack') <= NestingLimit BY <1>1, <1>2, <1>5, <1>18
  <2> QED BY <1>1, <1>2, <1>13, <2>1 DEF Control
<1> QED BY <1>16, <1>17, <1>19, <1>20 DEF JsonInv

\* `fail:` of the innermost call: its list goes, and what the others hold stays.
LEMMA UnwindInv == JsonInv /\ Unwind => JsonInv'
<1> SUFFICES ASSUME JsonInv, Unwind PROVE JsonInv'
  OBVIOUS
<1> DEFINE n == Len(stack)
           f == Top
           D == Reached(heap, {f.head})
<1>1. /\ mode = "fail" /\ mode' = "fail" /\ stack # <<>> /\ stack' = Front(stack)
      /\ heap' = Delete(heap, f.head) /\ blocks' = blocks - Blocks(heap, D)
      /\ UNCHANGED <<held, calls, text, pos, depth, root, outcome, oom>>
      /\ TypeOK /\ Control
  BY DEF Unwind, DeletesTheList, Deletes, JsonInv
<1>2. PICK P : Shape(P)
  BY DEF JsonInv
<1>3. /\ Forest(heap, Roots, P) /\ IsHeap(heap) /\ NULL \notin DOMAIN heap
      /\ P = [i \in DOMAIN heap |-> P[i]]
      /\ Roots \subseteq DOMAIN heap /\ Roots = Trees \cup Heads
      /\ \A r \in Trees : P[r] = NULL /\ heap[r].next = NULL
  BY <1>2, RootsAre DEF Shape, Forest, IsHeap, Ids, NULL, Rooted, Linked
<1>4. /\ stack \in Seq(Frames) /\ n \in Nat /\ n \in 1 .. n /\ f = stack[n]
      /\ stack' \in Seq(Frames) /\ Len(stack') = n - 1
  BY <1>1, StackType
<1>5. \A k \in 1 .. n : Frame(P, k)
  BY <1>2 DEF Shape
<1>6. f.head # NULL => /\ f.head \in Roots /\ f.head \notin Trees /\ P[f.head] = f.item
                       /\ f.item \in DOMAIN heap /\ heap[f.item].child = NULL
  BY <1>1, <1>2, <1>4, <1>5, StackFacts DEF Frame
<1>7. PICK Q : Q = Kept(P, heap')
  OBVIOUS
<1> HIDE DEF f
<1>8. /\ DOMAIN heap' = DOMAIN heap \ D /\ \A i \in DOMAIN heap' : heap'[i] = heap[i]
      /\ Forest(heap', Roots \ {f.head}, Q)
  <2>1. CASE f.head = NULL
    <3>1. D = {} /\ heap' = heap
      BY <1>1, <1>3, <2>1, ReachedNothing, DeleteNothing
    <3>2. Q = P BY <1>3, <1>7, <3>1 DEF Kept
    <3>3. Roots \ {f.head} = Roots BY <1>3, <2>1
    <3> QED BY <1>3, <3>1, <3>2, <3>3
  <2>2. CASE f.head # NULL
    <3>1. f.head \in Roots /\ (P[f.head] \in DOMAIN heap => heap[P[f.head]].child = NULL)
      BY <1>6, <2>2
    <3>2. Forest(Delete(heap, f.head), Roots \ {f.head}, Kept(P, Delete(heap, f.head)))
      BY <1>3, <3>1, DeleteForest
    <3> QED BY <1>1, <1>7, <3>2 DEF Delete
  <2> QED BY <2>1, <2>2
<1>9. \A i \in DOMAIN heap' : Q[i] = P[i]
  BY <1>7 DEF Kept
<1>10. ASSUME NEW k \in 1 .. n PROVE stack[k].item \in DOMAIN heap \ D
  <2>1. /\ stack[k].item \in DOMAIN heap
        /\ P[stack[k].item] = (IF k = 1 THEN NULL ELSE stack[k - 1].item)
        /\ P[stack[k].item] \in DOMAIN heap => heap[P[stack[k].item]].child = NULL
    BY <1>1, <1>2, StackFacts DEF n
  <2>2. CASE f.head = NULL
    BY <1>3, <2>1, <2>2, ReachedNothing
  <2>3. CASE f.head # NULL
    <3>1. P[stack[k].item] # f.item
      <4>1. CASE k = 1 BY <1>3, <1>6, <2>1, <2>3, <4>1
      <4>2. CASE k # 1
        <5>1. k - 1 \in 1 .. n /\ k - 1 # n BY <1>4, <4>2
        <5>2. stack[k - 1].item # stack[n].item BY <1>4, <1>5, <5>1 DEF Frame, n
        <5> QED BY <1>4, <2>1, <4>2, <5>2
      <4> QED BY <4>1, <4>2
    <3> QED BY <1>3, <1>6, <2>1, <2>3, <3>1, NotBelow
  <2> QED BY <2>2, <2>3
<1>11. ASSUME NEW s \in Roots, s # f.head PROVE s \in DOMAIN heap \ D
  <2>1. CASE f.head = NULL
    BY <1>3, <1>11, <2>1, ReachedNothing
  <2>2. CASE f.head # NULL
    BY <1>3, <1>6, <1>11, <2>2, RootNotBelow
  <2> QED BY <2>1, <2>2
<1>12. ASSUME NEW k \in 1 .. n - 1, stack[k].head # NULL
       PROVE  stack[k].head \in DOMAIN heap \ D
  <2>1. k \in 1 .. n /\ k # n BY <1>4
  <2>2. stack[k].head \in Roots /\ (f.head = stack[k].head => n = k)
    BY <1>1, <1>2, <1>4, <1>12, <2>1, StackFacts DEF n
  <2> QED BY <1>11, <2>1, <2>2
<1>13. /\ \A k \in 1 .. Len(stack') : Frame(Q, k)'
       /\ Heads' = Heads \ {Top.head}
       /\ stack' # <<>> => Top'.head # NULL
  <2>1. \A k \in 1 .. n : /\ stack[k].item \in DOMAIN heap'
                          /\ k < n => heap'[stack[k].item].child = NULL
                          /\ heap'[stack[k].item].next = heap[stack[k].item].next
                          /\ Q[stack[k].item] = P[stack[k].item]
    BY <1>5, <1>8, <1>9, <1>10 DEF Frame
  <2>2. \A k \in 1 .. n - 1 : stack[k].head # NULL =>
            stack[k].head \in DOMAIN heap' /\ Q[stack[k].head] = P[stack[k].head]
    BY <1>8, <1>9, <1>12
  <2> QED BY <1>1, <1>2, <2>1, <2>2, LowerFrames
<1>14. Trees' = Trees
  BY <1>1 DEF Trees
<1>15. f.head \notin Trees
  BY <1>3, <1>6
<1>16. Roots' = Roots \ {f.head}
  BY <1>3, <1>13, <1>14, <1>15, RootsAreNext DEF f
<1>17. Shape(Q)'
  <2>1. \A r \in Trees' : Q[r] = NULL /\ heap'[r].next = NULL
    BY <1>3, <1>8, <1>9, <1>11, <1>14, <1>15
  <2> QED BY <1>8, <1>13, <1>16, <2>1 DEF Shape
<1>18. Owned' /\ blocks' = Blocks(heap', DOMAIN heap')
  <2>1. D \in SUBSET DOMAIN heap BY ReachedFacts
  <2> HIDE DEF D
  <2>2. Blocks(heap', DOMAIN heap') = Blocks(heap, DOMAIN heap) - Blocks(heap, D)
    BY <1>3, <1>8, <2>1, BlocksFewer
  <2> QED BY <1>1, <2>2 DEF Owned, JsonInv
<1>19. TypeOK'
  <2>1. held \subseteq DOMAIN heap'
    <3>1. held \subseteq Trees BY DEF Trees
    <3> QED BY <1>3, <1>8, <1>11, <1>15, <3>1
  <2>2. /\ mode' \in Modes /\ oom' \in BOOLEAN /\ pos' \in 1 .. Len(text) + 1
        /\ depth' \in 0 .. NestingLimit
    BY <1>1 DEF TypeOK, Modes
  <2>3. IsHeap(heap') BY <1>8 DEF Forest
  <2> QED BY <1>1, <1>4, <1>18, <2>1, <2>2, <2>3, ParserTypes
<1>20. Control'
  <2>1. Len(stack') <= NestingLimit
    <3>1. n <= NestingLimit /\ NestingLimit \in Nat BY <1>1, CallsAssumption DEF Control
    <3> QED BY <1>4, <3>1
  <2> QED BY <1>1, <2>1 DEF Control
<1> QED BY <1>17, <1>18, <1>19, <1>20 DEF JsonInv

\* `fail:` of cJSON_ParseWithLengthOpts: the item it was to return goes too.
LEMMA ParseFailsInv == JsonInv /\ ParseFails => JsonInv'
<1> SUFFICES ASSUME JsonInv, ParseFails PROVE JsonInv'
  OBVIOUS
<1> DEFINE D == Reached(heap, {root})
<1>1. /\ mode = "fail" /\ mode' = "idle" /\ stack = <<>> /\ stack' = <<>> /\ root' = NULL
      /\ heap' = Delete(heap, root) /\ blocks' = blocks - Blocks(heap, D)
      /\ UNCHANGED <<held, calls, text, pos, depth, oom>> /\ outcome' = "null"
      /\ TypeOK /\ Control
  BY DEF ParseFails, Deletes, JsonInv
<1>2. PICK P : Shape(P)
  BY DEF JsonInv
<1>3. Len(stack) = 0 /\ 1 .. Len(stack) = {} /\ 1 .. Len(stack') = {} /\ Heads = {} /\ Heads' = {}
  BY <1>1 DEF Heads
<1>4. Trees' = held /\ Roots' = held /\ Roots = held \cup ({root} \ {NULL}) /\ Trees = Roots
  BY <1>1, <1>3, RootsAre, RootsAreNext DEF Trees
<1>5. /\ Forest(heap, Roots, P) /\ IsHeap(heap) /\ NULL \notin DOMAIN heap
      /\ P = [i \in DOMAIN heap |-> P[i]]
      /\ Roots \subseteq DOMAIN heap
      /\ \A r \in Roots : P[r] = NULL /\ heap[r].next = NULL
  BY <1>2, <1>4 DEF Shape, Forest, IsHeap, Ids, NULL, Rooted, Linked
<1>6. held = Roots \ {root} /\ root \notin held
  BY <1>1, <1>4, <1>5 DEF Control
<1>7. PICK Q : Q = Kept(P, heap')
  OBVIOUS
<1>8. /\ DOMAIN heap' = DOMAIN heap \ D /\ \A i \in DOMAIN heap' : heap'[i] = heap[i]
      /\ Forest(heap', held, Q)
  <2>1. CASE root = NULL
    <3>1. D = {} /\ heap' = heap
      BY <1>1, <1>5, <2>1, ReachedNothing, DeleteNothing
    <3>2. Q = P BY <1>5, <1>7, <3>1 DEF Kept
    <3>3. Roots = held BY <1>4, <2>1
    <3> QED BY <1>5, <3>1, <3>2, <3>3
  <2>2. CASE root # NULL
    <3>1. root \in Roots /\ P[root] \notin DOMAIN heap BY <1>4, <1>5, <2>2
    <3>2. Forest(Delete(heap, root), Roots \ {root}, Kept(P, Delete(heap, root)))
      BY <1>5, <3>1, DeleteForest
    <3> QED BY <1>1, <1>6, <1>7, <3>2 DEF Delete
  <2> QED BY <2>1, <2>2
<1>9. held \subseteq DOMAIN heap' /\ IsHeap(heap')
  BY <1>8 DEF Forest, Rooted
<1>10. Shape(Q)'
  <2>1. \A r \in held : Q[r] = NULL /\ heap'[r].next = NULL
    BY <1>5, <1>6, <1>7, <1>8, <1>9 DEF Kept
  <2> QED BY <1>1, <1>3, <1>4, <1>8, <2>1 DEF Shape
<1>11. Owned' /\ blocks' \in Nat
  <2>1. D \in SUBSET DOMAIN heap BY ReachedFacts
  <2> HIDE DEF D
  <2>2. Blocks(heap', DOMAIN heap') = Blocks(heap, DOMAIN heap) - Blocks(heap, D)
        /\ Blocks(heap', DOMAIN heap') \in Nat
    BY <1>5, <1>8, <2>1, BlocksFewer
  <2> QED BY <1>1, <2>2 DEF Owned, JsonInv
<1>12. TypeOK'
  <2>1. DOMAIN heap' \subseteq Ids /\ \A i \in DOMAIN heap' : heap'[i] \in Item
    BY <1>9 DEF IsHeap
  <2> QED BY <1>1, <1>9, <1>11, <2>1 DEF TypeOK, Ptrs
<1>13. Control'
  <2>1. NestingLimit \in Nat BY CallsAssumption
  <2> QED BY <1>1, <1>3, <2>1 DEF Control
<1> QED BY <1>10, <1>11, <1>12, <1>13 DEF JsonInv

-----------------------------------------------------------------------------
(***************************************************************************)
(* Every step, and what follows.                                           *)
(***************************************************************************)
LEMMA ParserInv == JsonInv /\ ParserStep => JsonInv'
<1> SUFFICES ASSUME JsonInv, ParserStep PROVE JsonInv'
  OBVIOUS
<1>1. CASE RejectValue \/ RejectMember \/ RejectEnd
  BY <1>1, FailInv DEF RejectValue, RejectMember, RejectEnd
<1> QED BY <1>1, ScalarInv, StringInv, EnterInv, NewItemInv, NameInv, ColonInv, CommaInv,
           CloseInv, AcceptInv, UnwindInv, ParseFailsInv DEF ParserStep

\* A step that changes nothing.
LEMMA StutterInv == JsonInv /\ UNCHANGED vars => JsonInv'
<1> SUFFICES ASSUME JsonInv, UNCHANGED vars PROVE JsonInv'
  OBVIOUS
<1>1. /\ heap' = heap /\ blocks' = blocks /\ held' = held /\ calls' = calls
      /\ mode' = mode /\ text' = text /\ pos' = pos /\ depth' = depth /\ stack' = stack
      /\ root' = root /\ outcome' = outcome /\ oom' = oom
  BY DEF vars, parser
<1>2. TypeOK' /\ Owned'
  BY <1>1 DEF JsonInv, TypeOK, Owned
<1>3. Control'
  BY <1>1 DEF JsonInv, Control, Target, Top
<1>4. PICK P : Shape(P)
  BY DEF JsonInv
<1>5. Trees' = Trees /\ Heads' = Heads /\ Roots' = Roots
  BY <1>1, RootsAre, RootsAreNext DEF Trees, Heads
<1>6. Shape(P)'
  BY <1>1, <1>4, <1>5 DEF Shape, Frame
<1> QED BY <1>2, <1>3, <1>6 DEF JsonInv

\* Whatever the caller does and whenever memory runs out, the heap is a forest
\* of what the caller holds and of what the parser is at, and the parser knows
\* the parent of every list it has begun.
THEOREM AlwaysAForest == Spec => []JsonInv
<1>1. JsonInv /\ [Next]_vars => JsonInv'
  <2> SUFFICES ASSUME JsonInv, [Next]_vars PROVE JsonInv'
    OBVIOUS
  <2>1. CASE Next
    BY <2>1, ParseInv, ParserInv, EditStep DEF Next
  <2>2. CASE UNCHANGED vars
    BY <2>2, StutterInv
  <2> QED BY <2>1, <2>2
<1> QED BY <1>1, InitInv, PTL DEF Spec

\* Every variable keeps its type: the items are within Ids, the parser within
\* the text and CJSON_NESTING_LIMIT, and what is held is allocated.
THEOREM TypeCorrect == Spec => []TypeOK
<1>1. JsonInv => TypeOK
  BY DEF JsonInv
<1> QED BY <1>1, AlwaysAForest, PTL

\* Every item is in exactly one list or hand and every string block in one
\* item, so that nothing leaks and nothing is freed twice, also when
\* cJSON_ParseWithLengthOpts fails half-way through a nested list.
THEOREM NoLeak == Spec => []NothingLeaks
<1>1. JsonInv => NothingLeaks
  <2> SUFFICES ASSUME JsonInv PROVE NothingLeaks
    OBVIOUS
  <2>1. PICK P : Forest(heap, Roots, P)
    BY DEF JsonInv, Shape
  <2>2. Reached(heap, Roots) = DOMAIN heap
    BY <2>1 DEF Forest, Rooted
  <2>3. \A i \in DOMAIN heap :
          LET places == {<<"child", j>> : j \in {k \in DOMAIN heap : heap[k].child = i}}
                   \cup {<<"next", j>> : j \in {k \in DOMAIN heap : heap[k].next = i}}
                   \cup {<<"root", i>> : j \in Roots \cap {i}}
          IN Cardinality(places) = 1
    BY <2>1, OnePlace
  <2> QED BY <2>2, <2>3 DEF NothingLeaks, JsonInv, Owned
<1> QED BY <1>1, AlwaysAForest, PTL

\* No list that is still being read hangs below an item that has children.
LEMMA RootsHaveNoParent ==
    ASSUME NEW P, Shape(P), NEW p \in DOMAIN heap, heap[p].child # NULL
    PROVE  \A r \in Roots : P[r] # p
<1>1. NULL \notin DOMAIN heap
  BY DEF Shape, Forest, IsHeap, Ids, NULL
<1>2. \A r \in Trees : P[r] # p
  BY <1>1 DEF Shape
<1>3. \A r \in Heads : P[r] # p
  <2>1. ASSUME NEW k \in 1 .. Len(stack), stack[k].head # NULL PROVE P[stack[k].head] # p
    <3>1. Frame(P, k) BY DEF Shape
    <3> QED BY <2>1, <3>1 DEF Frame
  <2> QED BY <2>1 DEF Heads
<1> QED BY <1>2, <1>3, RootsAre

\* In every list of children next leads from the first to the last, prev back,
\* and prev of the first to the last, where add_item_to_array appends: after
\* any sequence of insertions, detachments, replacements and parses.
THEOREM ListsStayLinked == Spec => []WellLinked
<1>1. JsonInv => WellLinked
  <2> SUFFICES ASSUME JsonInv, NEW p \in DOMAIN heap, heap[p].child # NULL
               PROVE  LET list == Members(heap, p)
                      IN /\ list # <<>>
                         /\ heap[Last(list)].next = NULL
                         /\ \A k \in 1 .. Len(list) :
                               heap[list[k]].prev = list[IF k = 1 THEN Len(list) ELSE k - 1]
    BY DEF WellLinked
  <2>1. PICK P : Shape(P)
    BY DEF JsonInv
  <2>2. Forest(heap, Roots, P) /\ \A r \in Roots : P[r] # p
    BY <2>1, RootsHaveNoParent DEF Shape
  <2> DEFINE list == Members(heap, p)
  <2>3. list # <<>> /\ heap[list[Len(list)]].next = NULL
    BY <2>2, MembersFacts
  <2>4. \A k \in 1 .. Len(list) :
            heap[list[k]].prev = list[IF k = 1 THEN Len(list) ELSE k - 1]
    BY <2>2, PrevLeadsBack
  <2> HIDE DEF list
  <2> QED BY <2>3, <2>4 DEF Last, list
<1> QED BY <1>1, AlwaysAForest, PTL

\* cJSON_GetObjectItem finds the first member that has the name, and NULL only
\* if none has: its walk along next neither stops early nor leaves the object.
THEOREM GetObjectItemFindsTheFirst == Spec => []FindsTheFirst
<1>1. JsonInv => FindsTheFirst
  <2> SUFFICES ASSUME JsonInv, mode = "idle",
                      NEW o \in Containers("object"), NEW name \in Strings
               PROVE  LET members == Members(heap, o)
                          same == {k \in 1 .. Len(members) :
                                      SameKey(name, heap[members[k]].string)}
                      IN get_object_item(heap, o, name) =
                             IF same = {} THEN NULL ELSE members[Min(same)]
    BY DEF FindsTheFirst
  <2>1. o \in DOMAIN heap
    BY DEF Containers
  <2>2. PICK P : Grove(heap, held, P)
    BY Idle
  <2> QED BY <2>1, <2>2, FindsFirst
<1> QED BY <1>1, AlwaysAForest, PTL
=============================================================================
