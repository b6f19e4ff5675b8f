----------------------------- MODULE JsonPrinting -----------------------------
(***************************************************************************)
(* What cJSON_Parse has read prints as the text it was read from: a proof  *)
(* for documents of any size.  The argument: every item that is complete   *)
(* stands for a part of the text, and the parts of the children of an item *)
(* lie one behind the other, with nothing between them but the delimiters  *)
(* that print_array and print_object write.                                *)
(***************************************************************************)
EXTENDS JsonGrammar

-----------------------------------------------------------------------------
(***************************************************************************)
(* Parts of a sequence.                                                    *)
(***************************************************************************)
\* Tokens a to b - 1.
Part(t, a, b) == SubSeq(t, a, b - 1)

\* Two parts that meet are one.
LEMMA PartsJoin ==
    ASSUME NEW S, NEW t \in Seq(S), NEW a \in Nat, NEW b \in Nat, NEW c \in Nat,
           1 <= a, a <= b, b <= c, c <= Len(t) + 1
    PROVE  /\ Part(t, a, b) \o Part(t, b, c) = Part(t, a, c)
           /\ Part(t, a, b) \in Seq(S)
<1>1. Len(t) \in Nat
  OBVIOUS
<1>2. a \in 1 .. Len(t) + 1 /\ b - 1 \in a - 1 .. Len(t) /\ c - 1 \in b - 1 .. Len(t)
  BY <1>1
<1>3. (b - 1) + 1 = b
  OBVIOUS
<1>4. SubSeq(t, a, b - 1) \o SubSeq(t, (b - 1) + 1, c - 1) = SubSeq(t, a, c - 1)
  BY <1>2, ConcatAdjacentSubSeq
<1>5. SubSeq(t, a, b - 1) \in Seq(S)
  <2>1. a \in Int /\ b - 1 \in Int /\ \A i \in a .. b - 1 : t[i] \in S
    <3>1. \A i \in a .. b - 1 : i \in 1 .. Len(t) BY <1>1
    <3> QED BY <3>1
  <2> QED BY <2>1, SubSeqProperties
<1> QED BY <1>3, <1>4, <1>5 DEF Part

\* A part of one token, and one of none.
LEMMA ShortParts ==
    ASSUME NEW S, NEW t \in Seq(S), NEW a \in Nat, 1 <= a
    PROVE  /\ Part(t, a, a) = <<>>
           /\ a <= Len(t) => Part(t, a, a + 1) = <<t[a]>>
<1>1. Part(t, a, a) = <<>>
  <2>1. a \in Int /\ a - 1 \in Int /\ a - 1 < a OBVIOUS
  <2> QED BY <2>1, SubSeqEmpty DEF Part
<1>2. ASSUME a <= Len(t) PROVE Part(t, a, a + 1) = <<t[a]>>
  <2>1. (a + 1) - 1 = a OBVIOUS
  <2>2. t[a] \in S BY <1>2
  <2>3. \A i \in a .. a : t[i] \in S BY <2>2
  <2>4. /\ SubSeq(t, a, a) \in Seq(S)
        /\ Len(SubSeq(t, a, a)) = (IF a <= a THEN a - a + 1 ELSE 0)
        /\ \A i \in 1 .. a - a + 1 : SubSeq(t, a, a)[i] = t[a + i - 1]
    BY <2>3, SubSeqProperties
  <2>5. Len(SubSeq(t, a, a)) = 1 /\ SubSeq(t, a, a)[1] = t[a]
    BY <2>4
  <2>6. <<t[a]>> \in Seq(S) /\ Len(<<t[a]>>) = 1 /\ <<t[a]>>[1] = t[a]
    BY <2>2
  <2>7. \A i \in 1 .. 1 : SubSeq(t, a, a)[i] = <<t[a]>>[i]
    BY <2>5
  <2>8. SubSeq(t, a, a) = <<t[a]>>
    BY <2>4, <2>5, <2>6, <2>7, SeqEqual
  <2> QED BY <2>1, <2>8 DEF Part
<1> QED BY <1>1, <1>2

\* Two sequences of one token.
LEMMA PairOf == \A x, y : <<x>> \o <<y>> = <<x, y>>
<1> SUFFICES ASSUME NEW x, NEW y PROVE <<x>> \o <<y>> = <<x, y>>
  OBVIOUS
<1> DEFINE S == {x, y}
<1>1. <<x>> \in Seq(S) /\ <<y>> \in Seq(S) /\ <<x, y>> \in Seq(S)
  OBVIOUS
<1>2. Len(<<x>>) = 1 /\ Len(<<y>>) = 1 /\ Len(<<x, y>>) = 2
      /\ <<x>>[1] = x /\ <<y>>[1] = y /\ <<x, y>>[1] = x /\ <<x, y>>[2] = y
  OBVIOUS
<1> HIDE DEF S
<1>3. /\ <<x>> \o <<y>> \in Seq(S)
      /\ Len(<<x>> \o <<y>>) = Len(<<x>>) + Len(<<y>>)
      /\ \A i \in 1 .. Len(<<x>>) + Len(<<y>>) :
            (<<x>> \o <<y>>)[i] = IF i <= Len(<<x>>) THEN <<x>>[i] ELSE <<y>>[i - Len(<<x>>)]
  BY <1>1, ConcatProperties
<1>4. Len(<<x>> \o <<y>>) = 2 /\ \A i \in 1 .. 2 : (<<x>> \o <<y>>)[i] = <<x, y>>[i]
  BY <1>2, <1>3
<1> QED BY <1>1, <1>2, <1>3, <1>4, SeqEqual

\* FlattenSeq is the recursive function it is defined by.
LEMMA FlattenIs ==
    ASSUME NEW seqs, NEW n \in Nat, n # 0, Len(seqs) = n
    PROVE  \A G : G[1] = seqs[1] /\ (\A i \in 2 .. n : G[i] = G[i - 1] \o seqs[i])
                     => FlattenSeq(seqs) = G[n]
<1> SUFFICES ASSUME NEW G, G[1] = seqs[1], \A i \in 2 .. n : G[i] = G[i - 1] \o seqs[i]
             PROVE  FlattenSeq(seqs) = G[n]
  OBVIOUS
<1> DEFINE f[i \in 1 .. n] == IF i = 1 THEN seqs[i] ELSE f[i - 1] \o seqs[i]
           T == {i \in 1 .. n : f[i] # G[i]}
<1>1. f = [i \in 1 .. n |-> IF i = 1 THEN seqs[i] ELSE f[i - 1] \o seqs[i]]
  <2> DEFINE g == [i \in 1 .. n |-> G[i]]
  <2>1. ASSUME NEW i \in 1 .. n, i # 1 PROVE i \in 2 .. n /\ i - 1 \in 1 .. n
    BY <2>1
  <2>2. \A i \in 1 .. n : G[i] = (IF i = 1 THEN seqs[i] ELSE g[i - 1] \o seqs[i])
    BY <2>1
  <2>3. g = [i \in 1 .. n |-> IF i = 1 THEN seqs[i] ELSE g[i - 1] \o seqs[i]]
    BY <2>2
  <2> HIDE DEF g
  <2> QED BY <2>3
<1>2. FlattenSeq(seqs) = f[n]
  BY DEF FlattenSeq
<1> HIDE DEF f
<1>3. T = {}
  <2> SUFFICES ASSUME T # {} PROVE FALSE
    OBVIOUS
  <2>1. T \subseteq Nat
    OBVIOUS
  <2>2. PICK m \in T : \A i \in T : m <= i
    <3> HIDE DEF T
    <3> QED BY <2>1, LeastNatural
  <2>3. m \in 1 .. n /\ f[m] # G[m]
    OBVIOUS
  <2>4. m # 1
    BY <1>1, <2>3
  <2>5. m - 1 \in 1 .. n /\ m - 1 \notin T
    <3> HIDE DEF T
    <3>1. m - 1 \in 1 .. n /\ ~(m <= m - 1) BY <2>3, <2>4
    <3> QED BY <2>2, <3>1
  <2>6. f[m - 1] = G[m - 1]
    BY <2>5
  <2>7. f[m] = f[m - 1] \o seqs[m]
    BY <1>1, <2>3, <2>4
  <2>8. G[m] = G[m - 1] \o seqs[m]
    <3>1. m \in 2 .. n BY <2>3, <2>4
    <3> QED BY <3>1
  <2> QED BY <2>3, <2>6, <2>7, <2>8
<1>4. n \in 1 .. n
  OBVIOUS
<1> QED BY <1>2, <1>3, <1>4

\* The n elements of seqs are the parts of t between the positions in e.
AreParts(t, n, e, seqs) ==
    /\ \A k \in 1 .. n + 1 : e[k] \in Nat /\ 1 <= e[k] /\ e[k] <= Len(t) + 1
    /\ \A k \in 1 .. n : e[k] <= e[k + 1] /\ seqs[k] = Part(t, e[k], e[k + 1])

\* Parts of a sequence that lie one behind the other make one part.
LEMMA PartsFlatten ==
    ASSUME NEW S, NEW t \in Seq(S), NEW n \in Nat, n # 0, NEW e, NEW seqs,
           Len(seqs) = n, AreParts(t, n, e, seqs)
    PROVE  /\ FlattenSeq(seqs) = Part(t, e[1], e[n + 1])
           /\ e[1] <= e[n + 1]
<1> DEFINE T == {k \in 1 .. n + 1 : ~(e[1] <= e[k])}
           G == [i \in 1 .. n |-> Part(t, e[1], e[i + 1])]
<1>0. /\ Len(t) \in Nat /\ 1 \in 1 .. n + 1 /\ 1 \in 1 .. n /\ n + 1 \in 1 .. n + 1
      /\ \A k \in 1 .. n + 1 : e[k] \in Nat /\ 1 <= e[k] /\ e[k] <= Len(t) + 1
      /\ \A k \in 1 .. n : k \in 1 .. n + 1 /\ k + 1 \in 1 .. n + 1
      /\ \A k \in 1 .. n : e[k] <= e[k + 1] /\ seqs[k] = Part(t, e[k], e[k + 1])
  BY DEF AreParts
<1>1. T = {}
  <2> SUFFICES ASSUME T # {} PROVE FALSE
    OBVIOUS
  <2>1. T \subseteq Nat
    OBVIOUS
  <2>2. PICK m \in T : \A i \in T : m <= i
    <3> HIDE DEF T
    <3> QED BY <2>1, LeastNatural
  <2>3. m \in 1 .. n + 1 /\ ~(e[1] <= e[m])
    OBVIOUS
  <2>4. m # 1
    BY <1>0, <2>3
  <2>5. m - 1 \in 1 .. n /\ (m - 1) + 1 = m /\ m - 1 \notin T
    <3> HIDE DEF T
    <3>1. m - 1 \in 1 .. n /\ (m - 1) + 1 = m /\ ~(m <= m - 1) BY <2>3, <2>4
    <3> QED BY <2>2, <3>1
  <2>6. e[1] <= e[m - 1]
    BY <1>0, <2>5
  <2>7. e[m - 1] <= e[m]
    BY <1>0, <2>5
  <2>8. e[1] \in Nat /\ e[m - 1] \in Nat /\ e[m] \in Nat
    BY <1>0, <2>3, <2>5
  <2> QED BY <2>3, <2>6, <2>7, <2>8
<1>2. \A k \in 1 .. n + 1 : e[1] <= e[k]
  BY <1>1
<1> HIDE DEF T
<1>3. G[1] = seqs[1] /\ \A i \in 2 .. n : G[i] = G[i - 1] \o seqs[i]
  <2>1. ASSUME NEW i \in 2 .. n PROVE G[i] = G[i - 1] \o seqs[i]
    <3>1. i - 1 \in 1 .. n /\ (i - 1) + 1 = i /\ i \in 1 .. n
      OBVIOUS
    <3>2. /\ G[i - 1] = Part(t, e[1], e[i]) /\ seqs[i] = Part(t, e[i], e[i + 1])
          /\ G[i] = Part(t, e[1], e[i + 1])
      BY <1>0, <3>1
    <3>3. /\ e[1] \in Nat /\ e[i] \in Nat /\ e[i + 1] \in Nat
          /\ 1 <= e[1] /\ e[1] <= e[i] /\ e[i] <= e[i + 1] /\ e[i + 1] <= Len(t) + 1
      BY <1>0, <1>2, <3>1
    <3>4. \A a, b, c \in Nat : 1 <= a /\ a <= b /\ b <= c /\ c <= Len(t) + 1 =>
              Part(t, a, b) \o Part(t, b, c) = Part(t, a, c)
      BY PartsJoin
    <3>5. Part(t, e[1], e[i]) \o Part(t, e[i], e[i + 1]) = Part(t, e[1], e[i + 1])
      BY <3>3, <3>4
    <3> HIDE DEF G
    <3> QED BY <3>2, <3>5
  <2> QED BY <1>0, <2>1
<1>4. G[n] = Part(t, e[1], e[n + 1])
  OBVIOUS
<1> HIDE DEF G
<1>5. FlattenSeq(seqs) = G[n]
  <2>1. \A g : g[1] = seqs[1] /\ (\A i \in 2 .. n : g[i] = g[i - 1] \o seqs[i])
            => FlattenSeq(seqs) = g[n]
    BY FlattenIs, Zenon
  <2> QED BY <1>3, <2>1
<1> QED BY <1>0, <1>2, <1>4, <1>5

-----------------------------------------------------------------------------
(***************************************************************************)
(* Printing.                                                               *)
(***************************************************************************)
\* The text of every item, of the levels below it that are looked at.
PrintRun(h, F) ==
    /\ F[0] = [i \in DOMAIN h |-> <<>>]
    /\ \A n \in 1 .. MaxItems : F[n] = print_items(h, F[n - 1])

\* print_value calls itself for the children of an item.
LEMMA PrintRuns ==
    ASSUME NEW h
    PROVE  \E F : PrintRun(h, F) /\ \A i : print_value(h, i) = F[MaxItems][i]
<1> DEFINE none == [i \in DOMAIN h |-> <<>>]
           Runs(k) == \E F : F = [n \in 0 .. k |->
                                     IF n = 0 THEN none ELSE print_items(h, F[n - 1])]
           T == {k \in Nat : ~Runs(k)}
           Text[n \in 0 .. MaxItems] == IF n = 0 THEN none ELSE print_items(h, Text[n - 1])
<1>1. T = {}
  <2> SUFFICES ASSUME T # {} PROVE FALSE
    OBVIOUS
  <2> HIDE DEF none, Text
  <2>1. PICK m \in T : \A n \in T : m <= n
    <3>1. T \subseteq Nat OBVIOUS
    <3> HIDE DEF T
    <3> QED BY <3>1, LeastNatural
  <2>2. m # 0
    <3> DEFINE F == [n \in 0 .. 0 |-> none]
    <3>1. F = [n \in 0 .. 0 |-> IF n = 0 THEN none ELSE print_items(h, F[n - 1])]
      OBVIOUS
    <3> HIDE DEF F
    <3>2. Runs(0) BY <3>1
    <3> QED BY <2>1, <3>2
  <2>3. m \in Nat /\ m - 1 \in Nat /\ Runs(m - 1)
    <3> HIDE DEF Runs
    <3>1. m \in Nat /\ m - 1 \in Nat BY <2>1, <2>2
    <3>2. m - 1 \notin T
      <4> HIDE DEF T
      <4>1. ~(m <= m - 1) BY <3>1
      <4> QED BY <2>1, <4>1
    <3> QED BY <3>1, <3>2
  <2>4. PICK F : F = [n \in 0 .. m - 1 |-> IF n = 0 THEN none ELSE print_items(h, F[n - 1])]
    BY <2>3
  <2> DEFINE G == [n \in 0 .. m |-> IF n = m THEN print_items(h, F[m - 1]) ELSE F[n]]
  <2>5. \A n \in 0 .. m : G[n] = (IF n = 0 THEN none ELSE print_items(h, G[n - 1]))
    <3> SUFFICES ASSUME NEW n \in 0 .. m
                 PROVE  G[n] = (IF n = 0 THEN none ELSE print_items(h, G[n - 1]))
      OBVIOUS
    <3>1. CASE n = 0
      <4>1. 0 \in 0 .. m - 1 /\ 0 # m BY <2>2, <2>3
      <4> QED BY <2>4, <3>1, <4>1
    <3>2. CASE n # 0
      <4>1. n - 1 \in 0 .. m /\ n - 1 # m BY <2>3, <3>2
      <4>2. G[n - 1] = F[n - 1] BY <4>1
      <4>3. CASE n = m BY <3>2, <4>2, <4>3
      <4>4. CASE n # m
        <5>1. n \in 0 .. m - 1 BY <2>3, <4>4
        <5>2. F[n] = print_items(h, F[n - 1]) BY <2>4, <3>2, <5>1
        <5> QED BY <3>2, <4>2, <4>4, <5>2
      <4> QED BY <4>3, <4>4
    <3> QED BY <3>1, <3>2
  <2>6. G = [n \in 0 .. m |-> IF n = 0 THEN none ELSE print_items(h, G[n - 1])]
    BY <2>5
  <2> HIDE DEF G
  <2>7. Runs(m) BY <2>6
  <2> QED BY <2>1, <2>7
<1>2. MaxItems \in Nat
  BY JsonAssumption
<1>3. PICK F : F = [n \in 0 .. MaxItems |-> IF n = 0 THEN none ELSE print_items(h, F[n - 1])]
  <2>1. Runs(MaxItems) BY <1>1, <1>2
  <2> QED BY <2>1
<1> HIDE DEF T, Runs
<1>4. Text = [n \in 0 .. MaxItems |-> IF n = 0 THEN none ELSE print_items(h, Text[n - 1])]
  <2> HIDE DEF none
  <2> QED BY <1>3
<1>5. \A i : print_value(h, i) = Text[MaxItems][i]
  BY DEF print_value
<1> HIDE DEF Text
<1>6. PrintRun(h, Text)
  <2> HIDE DEF none
  <2>1. Text[0] = none BY <1>2, <1>4
  <2>2. ASSUME NEW n \in 1 .. MaxItems PROVE Text[n] = print_items(h, Text[n - 1])
    <3>1. n \in 0 .. MaxItems /\ n # 0 BY <1>2
    <3> QED BY <1>4, <3>1
  <2> QED BY <2>1, <2>2 DEF PrintRun, none
<1> QED BY <1>5, <1>6

\* Items that have been read to their end, which is B; 0 is no position.
Done(B) == {i \in Ids : B[i] # 0}

\* In the list whose bracket is at a, the value of j, which begins at v, stands
\* behind the delimiter at d, in an object with its key between them.
Behind(h, t, a, j, v, d) ==
    IF IsArray(t, a) THEN v = d + 1
    ELSE v = d + 3 /\ t[d + 1] = h[j].string /\ h[j].string # "none" /\ t[d + 2] = ":"

\* The brackets of a list of each type.
Brackets(t, a, b, type) ==
    <<t[a], t[b]>> = (IF type = "array" THEN <<"[", "]">> ELSE <<"{", "}">>)

\* What cJSON_Print writes of an item: brackets, or one token.
IsContainer(h, i) == h[i].type \in {"array", "object"}
SpellsToken(h, t, i, a) == t[a] = (IF h[i].type = "string" THEN h[i].valuestring ELSE h[i].type)

\* Item i is what stands in the text from A[i] to B[i].
IsPart(h, t, A, B, K, i) ==
    /\ A[i] # 0 /\ A[i] < B[i] /\ B[i] <= Len(t) + 1
    /\ ~IsContainer(h, i) => B[i] = A[i] + 1 /\ SpellsToken(h, t, i, A[i])
    /\ IsContainer(h, i) =>
          /\ Brackets(t, A[i], B[i] - 1, h[i].type)
          /\ h[i].child = NULL => B[i] = A[i] + 2
          /\ h[i].child # NULL => /\ h[i].child \in Done(B) /\ K[h[i].child] = i
                                  /\ Behind(h, t, A[i], h[i].child, A[h[i].child], A[i])

\* What follows item j in the list of K[j]: a comma and the next item, or the end.
Follows(h, t, A, B, K, j) ==
    LET next == h[j].next
    IN  /\ next # NULL => /\ IsComma(t, B[j]) /\ K[next] = K[j] /\ K[j] # NULL
                          /\ A[next] # 0 => Behind(h, t, A[K[j]], next, A[next], B[j])
        /\ K[j] \in Done(B) /\ next = NULL => B[K[j]] = B[j] + 1
        /\ K[j] \in Done(B) /\ next # NULL => next \in Done(B)

\* A is where the items begin that the parser has come to, K whose list they
\* are in.
Positions(h, A, B, K) ==
    /\ A \in [Ids -> Nat] /\ B \in [Ids -> Nat] /\ K \in [Ids -> Ptrs]
    /\ \A i \in Ids : A[i] # 0 => i \in DOMAIN h /\ (K[i] # NULL => A[K[i]] # 0 /\ A[K[i]] < A[i])
\* ... of which those that are complete fit together.
Parts(h, t, A, B, K) ==
    /\ Positions(h, A, B, K)
    /\ \A i \in Done(B) : IsPart(h, t, A, B, K, i) /\ Follows(h, t, A, B, K, i)

\* A key with its colon.
Key(h, j) == <<IF h[j].string = "none" THEN "" ELSE h[j].string, ":">>

\* An element that stands behind the delimiter at d, its value from v to b, and
\* what is printed of it: a key, a value and, before them, a comma.
Stands(h, t, a, j, v, d, b) ==
    /\ v \in Nat /\ d \in Nat /\ b \in Nat /\ 1 <= d /\ v < b /\ b <= Len(t) + 1
    /\ Behind(h, t, a, j, v, d)
\* ... as tokens of the text.
Printed(h, t, a, j, v, d, b) ==
    /\ d < v
    /\ IsArray(t, a) => <<>> \o Part(t, v, b) = Part(t, d + 1, b)
    /\ ~IsArray(t, a) => Key(h, j) \o Part(t, v, b) = Part(t, d + 1, b)
    /\ IsComma(t, d) => <<",">> \o Part(t, d + 1, b) = Part(t, d, b)

\* print_array and print_object print an element as it stands in the text.
LEMMA PrintsElement ==
    ASSUME NEW t, IsText(t), NEW h, NEW a, NEW j, NEW v, NEW d, NEW b,
           Stands(h, t, a, j, v, d, b)
    PROVE  Printed(h, t, a, j, v, d, b)
<1>7. /\ v \in Nat /\ d \in Nat /\ b \in Nat /\ 1 <= d /\ v < b /\ b <= Len(t) + 1
       /\ Behind(h, t, a, j, v, d)
  BY DEF Stands
<1>0. t \in Seq(Tokens) /\ Len(t) \in Nat
  BY DEF IsText
<1> DEFINE Join(x, y, z) == 1 <= x /\ x <= y /\ y <= z /\ z <= Len(t) + 1 =>
                                Part(t, x, y) \o Part(t, y, z) = Part(t, x, z)
<1>6. \A x, y, z \in Nat : Join(x, y, z)
  BY <1>0, PartsJoin
<1>1. v = d + 1 \/ v = d + 3
  BY <1>7 DEF Behind
<1>2. d < v /\ d + 1 <= v /\ d + 1 <= b
  BY <1>1, <1>7
<1>3. ASSUME IsArray(t, a) PROVE <<>> \o Part(t, v, b) = Part(t, d + 1, b)
  <2>1. v = d + 1 BY <1>3, <1>7 DEF Behind
  <2>2. Part(t, d + 1, b) \in Seq(Tokens)
    <3>1. d + 1 \in Nat /\ b \in Nat /\ 1 <= d + 1 /\ d + 1 <= b /\ b <= b /\ b <= Len(t) + 1
      BY <1>2, <1>7
    <3>2. Part(t, d + 1, b) \in Seq(Tokens)
      BY <1>0, <3>1, PartsJoin
    <3> QED BY <3>2
  <2>3. <<>> \o Part(t, d + 1, b) = Part(t, d + 1, b)
    BY <2>2, ConcatEmptySeq
  <2> QED BY <1>3, <2>1, <2>3
<1>4. ASSUME ~IsArray(t, a) PROVE Key(h, j) \o Part(t, v, b) = Part(t, d + 1, b)
  <2>1. v = d + 3 /\ t[d + 1] = h[j].string /\ h[j].string # "none" /\ t[d + 2] = ":"
    BY <1>4, <1>7 DEF Behind
  <2>2. PICK x, y, z \in Nat : x = d + 1 /\ y = d + 2 /\ z = d + 3
    <3>1. d + 1 \in Nat /\ d + 2 \in Nat /\ d + 3 \in Nat BY <1>7
    <3> QED BY <3>1
  <2>3. /\ 1 <= x /\ 1 <= y /\ x <= y /\ y <= z /\ x <= z /\ z <= b
        /\ z <= Len(t) + 1 /\ x <= Len(t) /\ y <= Len(t) /\ y = x + 1 /\ z = y + 1
    <3>1. d + 3 < b BY <1>7, <2>1
    <3> QED BY <1>0, <1>7, <2>2, <3>1
  <2>4. Part(t, x, y) = <<t[x]>> /\ Part(t, y, z) = <<t[y]>>
    BY <1>0, <2>3, ShortParts
  <2>5. Part(t, x, z) = <<t[x]>> \o <<t[y]>>
    <3>1. Part(t, x, y) \o Part(t, y, z) = Part(t, x, z)
      <4> HIDE DEF Join
      <4>1. Join(x, y, z) BY <1>6
      <4> QED BY ONLY <2>3, <4>1 DEF Join
    <3> QED BY <2>4, <3>1
  <2>6. Part(t, x, z) = Key(h, j)
    <3>1. <<t[x]>> \o <<t[y]>> = <<t[x], t[y]>> BY PairOf
    <3> QED BY <2>1, <2>2, <2>5, <3>1 DEF Key
  <2>7. Part(t, x, z) \o Part(t, z, b) = Part(t, x, b)
    <3>1. b \in Nat /\ b <= Len(t) + 1 BY <1>7
    <3> HIDE DEF Join
    <3>2. Join(x, z, b) BY <1>6, <3>1
    <3> QED BY ONLY <2>3, <3>1, <3>2 DEF Join
  <2>8. v = z BY <2>1, <2>2
  <2> QED BY <1>4, <2>2, <2>6, <2>7, <2>8
<1>5. ASSUME IsComma(t, d) PROVE <<",">> \o Part(t, d + 1, b) = Part(t, d, b)
  <2>1. d + 1 \in Nat /\ d <= d + 1 /\ d + 1 <= b /\ d <= Len(t)
    BY <1>0, <1>2, <1>7
  <2>2. Part(t, d, d + 1) = <<",">>
    <3>1. Part(t, d, d + 1) = <<t[d]>> BY <1>0, <1>7, <2>1, ShortParts
    <3> QED BY <1>5, <3>1 DEF IsComma
  <2>3. Part(t, d, d + 1) \o Part(t, d + 1, b) = Part(t, d, b)
    <3>1. d \in Nat /\ 1 <= d /\ b \in Nat /\ b <= Len(t) + 1 BY <1>7
    <3>2. PICK e \in Nat : e = d + 1 BY <2>1
    <3> HIDE DEF Join
    <3>3. Join(d, e, b) BY <1>6, <3>1
    <3>4. Part(t, d, e) \o Part(t, e, b) = Part(t, d, b)
      BY ONLY <2>1, <3>1, <3>2, <3>3 DEF Join
    <3> QED BY <3>2, <3>4
  <2> QED BY <2>2, <2>3
<1> QED BY <1>2, <1>3, <1>4, <1>5 DEF Printed

\* Where element k of a list stands behind: the bracket of item i or a comma.
Delimiter(A, B, i, list, k) == IF k = 1 THEN A[i] ELSE B[list[k - 1]]

\* They stand in the order of the list, each behind the end of the one before it.
InOrder(h, t, A, B, i, list) ==
    /\ Len(list) \in Nat /\ Len(list) # 0
    /\ \A k \in 1 .. Len(list) :
          /\ list[k] \in Done(B) /\ A[i] < A[list[k]]
          /\ Behind(h, t, A[i], list[k], A[list[k]], Delimiter(A, B, i, list, k))
          /\ k # 1 => IsComma(t, Delimiter(A, B, i, list, k))
    /\ B[i] = B[list[Len(list)]] + 1

\* A heap of which no list that hangs below an item is still being read.
Whole(h) ==
    \E R, P : Forest(h, R, P)
                 /\ \A r \in R, p \in DOMAIN h : h[p].child # NULL => P[r] # p

\* The children of an item that is complete are complete, and stand one behind
\* the other.
LEMMA ChildrenDone ==
    ASSUME NEW t, NEW h, NEW A, NEW B, NEW K, Whole(h), Parts(h, t, A, B, K),
           NEW i \in Done(B), IsContainer(h, i), h[i].child # NULL
    PROVE  InOrder(h, t, A, B, i, Members(h, i))
<1>0. PICK R, P : Forest(h, R, P) /\ \A r \in R, p \in DOMAIN h : h[p].child # NULL => P[r] # p
  BY DEF Whole
<1> PICK list : list = Members(h, i)
  OBVIOUS
<1> DEFINE n == Len(list)
           Holds(k) == list[k] \in Done(B) /\ K[list[k]] = i
           T == {k \in 1 .. n : ~Holds(k)}
<1>1. /\ A \in [Ids -> Nat] /\ B \in [Ids -> Nat]
      /\ \A j \in Ids : A[j] # 0 => j \in DOMAIN h /\ (K[j] # NULL => A[K[j]] < A[j])
      /\ \A j \in Done(B) : IsPart(h, t, A, B, K, j) /\ Follows(h, t, A, B, K, j)
  BY DEF Parts, Positions
<1>2. /\ i \in Ids /\ i \in DOMAIN h /\ i # NULL
  BY <1>1 DEF Done, IsPart, Ids, NULL
<1>3. /\ list \in Seq(DOMAIN h) /\ list # <<>> /\ list[1] = h[i].child
      /\ \A k \in 1 .. Len(list) - 1 : h[list[k]].next = list[k + 1]
      /\ h[list[Len(list)]].next = NULL
  <2>1. \A r \in R : P[r] # i BY <1>0, <1>2
  <2> QED BY <1>0, <1>2, <2>1, MembersFacts
<1>4. n \in Nat /\ n # 0 /\ 1 \in 1 .. n /\ n \in 1 .. n /\ \A k \in 1 .. n : list[k] \in DOMAIN h
  BY <1>3
<1>5. NULL \notin DOMAIN h
  BY <1>0 DEF Forest, IsHeap, Ids, NULL
<1>6. \A k \in 1 .. n : k # 1 => /\ k - 1 \in 1 .. n /\ k - 1 \in 1 .. n - 1 /\ (k - 1) + 1 = k
                                 /\ k - 1 \in Nat /\ ~(k <= k - 1)
  BY <1>4
<1> HIDE DEF n
<1>7. \A k \in 1 .. n : k # 1 => h[list[k - 1]].next = list[k] /\ list[k] # NULL
  BY <1>3, <1>4, <1>5, <1>6 DEF n
<1>8. Holds(1) /\ Behind(h, t, A[i], list[1], A[list[1]], A[i])
  BY <1>1, <1>3 DEF IsPart
<1>9. \A k \in 1 .. n : k # 1 /\ Holds(k - 1) => Holds(k)
  <2> SUFFICES ASSUME NEW k \in 1 .. n, k # 1, Holds(k - 1) PROVE Holds(k)
    OBVIOUS
  <2>1. h[list[k - 1]].next = list[k] /\ list[k] # NULL BY <1>7
  <2>2. Follows(h, t, A, B, K, list[k - 1]) BY <1>1
  <2> QED BY <2>1, <2>2 DEF Follows
<1>10. \A k \in 1 .. n : Holds(k)
  <2> HIDE DEF Holds
  <2> SUFFICES ASSUME T # {} PROVE FALSE
    OBVIOUS
  <2>1. T \subseteq Nat
    OBVIOUS
  <2>2. PICK m \in T : \A k \in T : m <= k
    <3> HIDE DEF T
    <3> QED BY <2>1, LeastNatural
  <2>3. m \in 1 .. n /\ ~Holds(m)
    OBVIOUS
  <2>4. m # 1
    BY <1>8, <2>3
  <2>5. m - 1 \notin T
    <3> HIDE DEF T
    <3> QED BY <1>6, <2>2, <2>3, <2>4
  <2> QED BY <1>6, <1>9, <2>3, <2>4, <2>5
<1>11. ASSUME NEW k \in 1 .. n
       PROVE  /\ list[k] \in Done(B) /\ A[i] < A[list[k]]
              /\ Behind(h, t, A[i], list[k], A[list[k]], Delimiter(A, B, i, list, k))
              /\ k # 1 => IsComma(t, Delimiter(A, B, i, list, k))
  <2>1. list[k] \in Done(B) /\ K[list[k]] = i BY <1>10
  <2>2. A[list[k]] # 0 BY <1>1, <2>1 DEF IsPart
  <2>3. list[k] \in Ids BY <2>1 DEF Done
  <2>4. A[i] < A[list[k]] BY <1>1, <1>2, <2>1, <2>2, <2>3
  <2>5. CASE k = 1
    <3>1. Delimiter(A, B, i, list, k) = A[i] BY <2>5 DEF Delimiter
    <3> QED BY <1>4, <1>8, <2>1, <2>4, <2>5, <3>1
  <2>6. CASE k # 1
    <3>1. Delimiter(A, B, i, list, k) = B[list[k - 1]] BY <2>6 DEF Delimiter
    <3>2. Follows(h, t, A, B, K, list[k - 1]) /\ K[list[k - 1]] = i BY <1>1, <1>6, <1>10, <2>6
    <3>3. h[list[k - 1]].next = list[k] /\ list[k] # NULL BY <1>7, <2>6
    <3>4. /\ IsComma(t, B[list[k - 1]])
          /\ Behind(h, t, A[i], list[k], A[list[k]], B[list[k - 1]])
      BY <2>2, <3>2, <3>3 DEF Follows
    <3> QED BY <1>4, <2>1, <2>4, <3>1, <3>4
  <2> QED BY <2>5, <2>6
<1>12. B[i] = B[list[n]] + 1
  <2>1. Follows(h, t, A, B, K, list[n]) /\ K[list[n]] = i BY <1>1, <1>4, <1>10
  <2>2. h[list[n]].next = NULL BY <1>3 DEF n
  <2> QED BY <2>1, <2>2 DEF Follows
<1> QED BY <1>4, <1>11, <1>12 DEF n, InOrder

\* What print_array and print_object write between the brackets.
Pieces(h, i, below) ==
    LET one(j) == (IF h[i].type = "object" THEN Key(h, j) ELSE <<>>) \o below[j]
    IN [k \in 1 .. Len(Members(h, i)) |->
           (IF k = 1 THEN <<>> ELSE <<",">>) \o one(Members(h, i)[k])]

\* The bracket of a list tells the type of its item.
LEMMA BracketsFacts ==
    ASSUME NEW t, NEW a, NEW b, NEW type \in {"array", "object"}, Brackets(t, a, b, type)
    PROVE  /\ IsArray(t, a) <=> type = "array"
           /\ type = "array" => t[a] = "[" /\ t[b] = "]"
           /\ type = "object" => t[a] = "{" /\ t[b] = "}"
  BY DEF Brackets, IsArray

\* The items that begin after item i print as their parts of the text.
PrintsAfter(t, A, B, i, below) ==
    \A j \in Done(B) : A[i] < A[j] => below[j] = Part(t, A[j], B[j])

\* The elements of a list, each with the delimiter before it.
LEMMA PrintsList ==
    ASSUME NEW t, IsText(t), NEW h, NEW A, NEW B, NEW K, Whole(h), Parts(h, t, A, B, K),
           NEW i \in Done(B), IsContainer(h, i), h[i].child # NULL,
           NEW below, PrintsAfter(t, A, B, i, below)
    PROVE  /\ FlattenSeq(Pieces(h, i, below)) = Part(t, A[i] + 1, B[i] - 1)
           /\ A[i] + 1 <= B[i] - 1
<1> DEFINE list == Members(h, i)
           n == Len(list)
           D(k) == Delimiter(A, B, i, list, k)
           e == [k \in 1 .. n + 1 |-> IF k = 1 THEN A[i] + 1 ELSE B[list[k - 1]]]
           pieces == Pieces(h, i, below)
<1>1. /\ n \in Nat /\ n # 0 /\ B[i] = B[list[n]] + 1
      /\ \A k \in 1 .. n : /\ list[k] \in Done(B) /\ A[i] < A[list[k]]
                           /\ Behind(h, t, A[i], list[k], A[list[k]], D(k))
                           /\ k # 1 => IsComma(t, D(k))
  <2> HIDE DEF e, pieces
  <2>1. InOrder(h, t, A, B, i, list)
    BY ChildrenDone
  <2> QED BY <2>1 DEF InOrder
<1>2. /\ \A j \in Done(B) : /\ A[j] \in Nat /\ B[j] \in Nat /\ 1 <= A[j] /\ A[j] < B[j]
                            /\ B[j] <= Len(t) + 1
      /\ Len(t) \in Nat /\ t \in Seq(Tokens)
  <2>1. ASSUME NEW j \in Done(B)
        PROVE  A[j] \in Nat /\ B[j] \in Nat /\ A[j] # 0 /\ A[j] < B[j] /\ B[j] <= Len(t) + 1
    BY DEF Parts, Positions, IsPart, Done
  <2> QED BY <2>1 DEF IsText
<1>3. /\ 1 \in 1 .. n /\ n \in 1 .. n
      /\ \A k \in 1 .. n : k # 1 => k - 1 \in 1 .. n
      /\ \A k \in 1 .. n + 1 : k # 1 => k - 1 \in 1 .. n
  <2> HIDE DEF n
  <2> QED BY <1>1
<1>4. \A k \in 1 .. n : D(k) \in Nat /\ 1 <= D(k) /\ D(k) < Len(t) + 1
  <2> SUFFICES ASSUME NEW k \in 1 .. n PROVE D(k) \in Nat /\ 1 <= D(k) /\ D(k) < Len(t) + 1
    OBVIOUS
  <2> HIDE DEF e, pieces, list, n
  <2>0. Behind(h, t, A[i], list[k], A[list[k]], D(k)) /\ list[k] \in Done(B) BY <1>1
  <2>1. CASE k = 1
    <3>1. D(k) = A[i] BY <2>1 DEF Delimiter
    <3> QED BY <1>2, <3>1
  <2>2. CASE k # 1
    <3>1. D(k) = B[list[k - 1]] BY <2>2 DEF Delimiter
    <3>2. list[k - 1] \in Done(B) BY <1>1, <1>3, <2>2
    <3>3. D(k) \in Nat /\ 1 <= D(k)
      <4> HIDE DEF D
      <4> QED BY <1>2, <3>1, <3>2
    <3>4. D(k) < A[list[k]]
      <4> HIDE DEF D
      <4>1. A[list[k]] = D(k) + 1 \/ A[list[k]] = D(k) + 3 BY <2>0 DEF Behind
      <4> QED BY <3>3, <4>1
    <3> HIDE DEF D
    <3> QED BY <1>2, <2>0, <3>3, <3>4
  <2> QED BY <2>1, <2>2
<1>5. ASSUME NEW k \in 1 .. n
      PROVE  /\ D(k) < A[list[k]] /\ A[list[k]] < B[list[k]]
             /\ pieces[k] = Part(t, IF k = 1 THEN D(k) + 1 ELSE D(k), B[list[k]])
  <2>1. /\ list[k] \in Done(B) /\ A[i] < A[list[k]]
        /\ Behind(h, t, A[i], list[k], A[list[k]], D(k)) /\ (k # 1 => IsComma(t, D(k)))
    BY <1>1
  <2>2. below[list[k]] = Part(t, A[list[k]], B[list[k]])
    BY <2>1 DEF PrintsAfter
  <2>3. B[list[k]] \in Nat /\ A[list[k]] < B[list[k]] /\ B[list[k]] <= Len(t) + 1
    BY <1>2, <2>1
  <2>4. D(k) \in Nat /\ 1 <= D(k)
    BY <1>4
  <2>5. /\ D(k) < A[list[k]]
        /\ IsArray(t, A[i]) => <<>> \o below[list[k]] = Part(t, D(k) + 1, B[list[k]])
        /\ ~IsArray(t, A[i]) => Key(h, list[k]) \o below[list[k]] = Part(t, D(k) + 1, B[list[k]])
        /\ IsComma(t, D(k)) => <<",">> \o Part(t, D(k) + 1, B[list[k]])
                                   = Part(t, D(k), B[list[k]])
    <3> HIDE DEF e, pieces, list, n, D
    <3> PICK j, a, v, d, b : j = list[k] /\ a = A[i] /\ v = A[list[k]] /\ d = D(k) /\ b = B[list[k]]
      OBVIOUS
    <3>1. Stands(h, t, a, j, v, d, b)
      BY <1>2, <2>1, <2>3, <2>4 DEF Stands
    <3>2. Printed(h, t, a, j, v, d, b)
      BY <3>1, PrintsElement
    <3>3. Part(t, v, b) = below[list[k]]
      BY <2>2
    <3> QED BY <3>2, <3>3 DEF Printed
  <2>6. IsArray(t, A[i]) <=> h[i].type # "object"
    <3>1. IsPart(h, t, A, B, K, i) BY DEF Parts
    <3>2. Brackets(t, A[i], B[i] - 1, h[i].type) BY <3>1 DEF IsPart
    <3>3. h[i].type \in {"array", "object"} BY DEF IsContainer
    <3>4. IsArray(t, A[i]) <=> h[i].type = "array"
      <4> HIDE DEF e, pieces, list, n, D
      <4> PICK a, b, type : a = A[i] /\ b = B[i] - 1 /\ type = h[i].type
        OBVIOUS
      <4>1. Brackets(t, a, b, type) /\ type \in {"array", "object"} BY <3>2, <3>3
      <4>2. IsArray(t, a) <=> type = "array" BY <4>1 DEF Brackets, IsArray
      <4> QED BY <4>2
    <3> QED BY <3>3, <3>4
  <2>7. (IF h[i].type = "object" THEN Key(h, list[k]) ELSE <<>>) \o below[list[k]]
            = Part(t, D(k) + 1, B[list[k]])
    <3> HIDE DEF e, pieces, list, n, D
    <3>1. CASE h[i].type = "object" BY <2>5, <2>6, <3>1
    <3>2. CASE h[i].type # "object" BY <2>5, <2>6, <3>2
    <3> QED BY <3>1, <3>2
  <2>8. pieces[k] = (IF k = 1 THEN <<>> ELSE <<",">>) \o Part(t, D(k) + 1, B[list[k]])
    <3>1. pieces[k] = (IF k = 1 THEN <<>> ELSE <<",">>)
              \o ((IF h[i].type = "object" THEN Key(h, list[k]) ELSE <<>>) \o below[list[k]])
      BY DEF Pieces
    <3> HIDE DEF e, pieces, list, n, D
    <3> QED BY <2>7, <3>1
  <2>9. <<>> \o Part(t, D(k) + 1, B[list[k]]) = Part(t, D(k) + 1, B[list[k]])
    <3> HIDE DEF e, pieces, list, n, D
    <3>1. /\ D(k) + 1 \in Nat /\ B[list[k]] \in Nat /\ 1 <= D(k) + 1
          /\ D(k) + 1 <= B[list[k]] /\ B[list[k]] <= Len(t) + 1
      <4>1. A[list[k]] \in Nat BY <1>2, <2>1
      <4>2. D(k) < A[list[k]] /\ A[list[k]] < B[list[k]] /\ B[list[k]] \in Nat BY <2>3, <2>5
      <4>3. D(k) + 1 <= B[list[k]] /\ D(k) + 1 \in Nat /\ 1 <= D(k) + 1 BY <2>4, <4>1, <4>2
      <4> QED BY <2>3, <4>3
    <3>2. Part(t, D(k) + 1, B[list[k]]) \in Seq(Tokens)
      <4>1. \A x, y \in Nat : 1 <= x /\ x <= y /\ y <= y /\ y <= Len(t) + 1
                => Part(t, x, y) \in Seq(Tokens)
        BY <1>2, PartsJoin
      <4>2. B[list[k]] <= B[list[k]] BY <3>1
      <4> QED BY <3>1, <4>1, <4>2
    <3> QED BY <3>2, ConcatEmptySeq
  <2>10. CASE k = 1
    <3> HIDE DEF e, pieces, list, n, D
    <3> QED BY <2>3, <2>5, <2>8, <2>9, <2>10
  <2>11. CASE k # 1
    <3> HIDE DEF e, pieces, list, n, D
    <3> QED BY <2>1, <2>3, <2>5, <2>8, <2>11
  <2> QED BY <2>10, <2>11
<1>6. /\ \A k \in 1 .. n + 1 : e[k] \in Nat /\ 1 <= e[k] /\ e[k] <= Len(t) + 1
      /\ \A k \in 1 .. n : e[k] <= e[k + 1] /\ pieces[k] = Part(t, e[k], e[k + 1])
  <2>1. e[1] = A[i] + 1
    <3>1. 1 \in 1 .. n + 1 BY <1>1
    <3> QED BY <3>1
  <2>2. \A k \in 1 .. n + 1 : k # 1 => e[k] = B[list[k - 1]]
    OBVIOUS
  <2>3. \A k \in 1 .. n : e[k + 1] = B[list[k]]
    <3> SUFFICES ASSUME NEW k \in 1 .. n PROVE e[k + 1] = B[list[k]]
      OBVIOUS
    <3>1. k + 1 \in 1 .. n + 1 /\ k + 1 # 1 /\ (k + 1) - 1 = k
      <4> HIDE DEF n
      <4> QED BY <1>1
    <3> HIDE DEF e, list, n
    <3> QED BY <2>2, <3>1
  <2> HIDE DEF e, pieces, list, n
  <2>4. A[i] \in Nat /\ 1 <= A[i] /\ D(1) = A[i] /\ A[i] < Len(t) + 1
    BY <1>2, <1>3, <1>4 DEF Delimiter
  <2>5. ASSUME NEW k \in 1 .. n + 1 PROVE e[k] \in Nat /\ 1 <= e[k] /\ e[k] <= Len(t) + 1
    <3>1. CASE k = 1 BY <1>2, <2>1, <2>4, <3>1
    <3>2. CASE k # 1
      <4>1. list[k - 1] \in Done(B) BY <1>1, <1>3, <3>2
      <4>2. e[k] = B[list[k - 1]] BY <2>2, <3>2
      <4>3. A[list[k - 1]] \in Nat /\ B[list[k - 1]] \in Nat /\ A[list[k - 1]] < B[list[k - 1]]
            /\ B[list[k - 1]] <= Len(t) + 1
        BY <1>2, <4>1
      <4>4. 1 <= B[list[k - 1]] BY <4>3
      <4> QED BY <4>2, <4>3, <4>4
    <3> QED BY <3>1, <3>2
  <2>6. ASSUME NEW k \in 1 .. n
        PROVE  e[k] <= e[k + 1] /\ pieces[k] = Part(t, e[k], e[k + 1])
    <3>1. e[k] = (IF k = 1 THEN D(k) + 1 ELSE D(k))
      <4>1. CASE k = 1 BY <2>1, <2>4, <4>1
      <4>2. CASE k # 1
        <5>1. k \in 1 .. n + 1 BY <1>1
        <5> QED BY <2>2, <4>2, <5>1 DEF Delimiter
      <4> QED BY <4>1, <4>2
    <3>2. e[k + 1] = B[list[k]] BY <2>3
    <3>3. e[k] <= B[list[k]]
      <4>1. D(k) < A[list[k]] /\ A[list[k]] < B[list[k]] /\ D(k) \in Nat BY <1>4, <1>5
      <4>2. A[list[k]] \in Nat /\ B[list[k]] \in Nat BY <1>1, <1>2
      <4>3. D(k) + 1 <= B[list[k]] /\ D(k) <= B[list[k]] BY <4>1, <4>2
      <4> HIDE DEF D
      <4> QED BY <3>1, <4>3
    <3> HIDE DEF D
    <3> QED BY <1>5, <3>1, <3>2, <3>3
  <2> QED BY <2>5, <2>6
<1>7. Len(pieces) = n
  <2>1. pieces = [k \in 1 .. n |-> pieces[k]]
    BY DEF Pieces
  <2> HIDE DEF e, pieces, list, n
  <2>2. pieces \in Seq({pieces[k] : k \in 1 .. n})
    <3>1. PICK All : All = {pieces[k] : k \in 1 .. n} OBVIOUS
    <3>2. pieces \in [1 .. n -> All] BY <2>1, <3>1
    <3>3. n \in Nat BY <1>1
    <3>4. \A All2 : \A m \in Nat : \A f \in [1 .. m -> All2] : f \in Seq(All2)
      OBVIOUS
    <3>5. pieces \in Seq(All) BY ONLY <3>2, <3>3, <3>4
    <3> QED BY <3>1, <3>5
  <2> QED BY <1>1, <2>1, <2>2
<1>8. FlattenSeq(pieces) = Part(t, e[1], e[n + 1]) /\ e[1] <= e[n + 1]
  <2> HIDE DEF e, pieces, list, n
  <2>1. AreParts(t, n, e, pieces) BY <1>6 DEF AreParts
  <2> QED BY <1>1, <1>2, <1>7, <2>1, PartsFlatten
<1>9. e[1] = A[i] + 1 /\ e[n + 1] = B[i] - 1
  <2>1. 1 \in 1 .. n + 1 /\ n + 1 \in 1 .. n + 1 /\ n + 1 # 1 /\ (n + 1) - 1 = n
    <3> HIDE DEF n
    <3> QED BY <1>1
  <2>2. e[1] = A[i] + 1 /\ e[n + 1] = B[list[n]] BY <2>1
  <2>3. B[list[n]] \in Nat BY <1>1, <1>2, <1>3
  <2>4. B[i] - 1 = B[list[n]] BY <1>1, <2>3
  <2> QED BY <2>2, <2>4
<1> HIDE DEF e
<1> QED BY <1>8, <1>9

\* The two brackets and what is between them.
LEMMA BetweenBrackets ==
    ASSUME NEW t, IsText(t), NEW a \in Nat, NEW b \in Nat, 1 <= a, a + 1 <= b - 1,
           b <= Len(t) + 1
    PROVE  <<t[a]>> \o Part(t, a + 1, b - 1) \o <<t[b - 1]>> = Part(t, a, b)
<1>0. t \in Seq(Tokens) /\ Len(t) \in Nat
  BY DEF IsText
<1>1. PICK x, y \in Nat : /\ x = a + 1 /\ y = b - 1 /\ a <= x /\ x <= y /\ y <= b /\ a <= y
                          /\ 1 <= x /\ 1 <= y /\ y + 1 = b
                          /\ y <= Len(t) /\ a <= Len(t) /\ y <= Len(t) + 1
  <2>1. a + 1 \in Nat /\ b - 1 \in Nat OBVIOUS
  <2> QED BY <1>0, <2>1
<1>2. Part(t, a, x) = <<t[a]>> /\ Part(t, y, b) = <<t[y]>>
  BY <1>0, <1>1, ShortParts
<1> DEFINE Join(i, j, k) == 1 <= i /\ i <= j /\ j <= k /\ k <= Len(t) + 1 =>
                                Part(t, i, j) \o Part(t, j, k) = Part(t, i, k)
<1>3. \A i, j, k \in Nat : Join(i, j, k)
  BY <1>0, PartsJoin
<1>4. Part(t, a, x) \o Part(t, x, y) = Part(t, a, y)
  BY <1>1, <1>3
<1>5. Part(t, a, y) \o Part(t, y, b) = Part(t, a, b)
  BY <1>1, <1>3
<1> QED BY <1>1, <1>2, <1>4, <1>5

\* print_value writes an item as its part of the text if it does so with the
\* items that begin after it, its children among them.
LEMMA PrintsItem ==
    ASSUME NEW t, IsText(t), NEW h, NEW A, NEW B, NEW K, Whole(h), Parts(h, t, A, B, K),
           NEW i \in Done(B), NEW below, PrintsAfter(t, A, B, i, below)
    PROVE  print_items(h, below)[i] = Part(t, A[i], B[i])
<1>1. /\ A[i] \in Nat /\ B[i] \in Nat /\ 1 <= A[i] /\ A[i] < B[i] /\ B[i] <= Len(t) + 1
      /\ i \in DOMAIN h /\ IsPart(h, t, A, B, K, i)
  BY DEF Parts, Positions, IsPart, Done
<1>2. t \in Seq(Tokens) /\ Len(t) \in Nat
  BY DEF IsText
<1>3. /\ h[i].type = "string" => print_items(h, below)[i] = <<h[i].valuestring>>
      /\ h[i].type = "array" => print_items(h, below)[i]
             = <<"[">> \o FlattenSeq(Pieces(h, i, below)) \o <<"]">>
      /\ h[i].type = "object" => print_items(h, below)[i]
             = <<"{">> \o FlattenSeq(Pieces(h, i, below)) \o <<"}">>
      /\ h[i].type \notin {"string", "array", "object"} => print_items(h, below)[i] = <<h[i].type>>
  BY <1>1 DEF print_items, Pieces, Key
<1>4. CASE ~IsContainer(h, i)
  <2>1. B[i] = A[i] + 1 /\ SpellsToken(h, t, i, A[i]) BY <1>1, <1>4 DEF IsPart
  <2>2. A[i] <= Len(t) BY <1>1, <1>2, <2>1
  <2>3. Part(t, A[i], B[i]) = <<t[A[i]]>> BY <1>1, <1>2, <2>1, <2>2, ShortParts
  <2>4. print_items(h, below)[i] = <<t[A[i]]>> BY <1>3, <1>4, <2>1 DEF SpellsToken, IsContainer
  <2> QED BY <2>3, <2>4
<1>5. CASE IsContainer(h, i)
  <2>1. Brackets(t, A[i], B[i] - 1, h[i].type) BY <1>1, <1>5 DEF IsPart
  <2>2. print_items(h, below)[i]
            = <<t[A[i]]>> \o FlattenSeq(Pieces(h, i, below)) \o <<t[B[i] - 1]>>
    BY <1>3, <1>5, <2>1 DEF Brackets, IsContainer
  <2>3. FlattenSeq(Pieces(h, i, below)) = Part(t, A[i] + 1, B[i] - 1) /\ A[i] + 1 <= B[i] - 1
    <3>1. CASE h[i].child # NULL
      BY <1>5, <3>1, PrintsList
    <3>2. CASE h[i].child = NULL
      <4>1. B[i] = A[i] + 2 BY <1>1, <1>5, <3>2 DEF IsPart
      <4>2. Members(h, i) = <<>>
        <5>1. IsHeap(h) BY DEF Whole, Forest
        <5> QED BY <1>1, <3>2, <5>1, NoMembers
      <4>3. Pieces(h, i, below) = <<>>
        <5>1. Len(Members(h, i)) = 0 BY <4>2
        <5>2. 1 .. Len(Members(h, i)) = {} BY <5>1
        <5> DEFINE pieces == Pieces(h, i, below)
        <5>3. pieces = [k \in 1 .. 0 |-> pieces[k]] BY <5>1 DEF Pieces
        <5> HIDE DEF pieces
        <5>4. pieces \in [1 .. 0 -> {}] BY <5>3
        <5>5. pieces \in Seq({}) /\ Len(pieces) = 0 BY <5>4
        <5>6. pieces = <<>> BY <5>5, EmptySeq
        <5> QED BY <5>6 DEF pieces
      <4>4. FlattenSeq(Pieces(h, i, below)) = <<>> BY <4>3 DEF FlattenSeq
      <4>5. PICK x \in Nat : x = A[i] + 1 /\ x = B[i] - 1 /\ 1 <= x BY <1>1, <4>1
      <4>6. Part(t, x, x) = <<>> BY <1>2, <4>5, ShortParts
      <4>7. A[i] + 1 <= B[i] - 1 BY <4>5
      <4> QED BY <4>4, <4>5, <4>6, <4>7
    <3> QED BY <3>1, <3>2
  <2>4. <<t[A[i]]>> \o Part(t, A[i] + 1, B[i] - 1) \o <<t[B[i] - 1]>> = Part(t, A[i], B[i])
    BY <1>1, <2>3, BetweenBrackets
  <2> QED BY <2>2, <2>3, <2>4
<1> QED BY <1>4, <1>5

\* The items that are complete and begin at item i or after it.
From(A, B, i) == {j \in Done(B) : A[i] <= A[j]}

\* There are no more of them than items, and fewer from each of those after i.
LEMMA FromFacts ==
    ASSUME NEW A, NEW B, \A j \in Done(B) : A[j] \in Nat, NEW i \in Done(B)
    PROVE  /\ Cardinality(From(A, B, i)) \in Nat
           /\ Cardinality(From(A, B, i)) <= MaxItems
           /\ Cardinality(From(A, B, i)) # 0
           /\ \A j \in Done(B) : A[i] < A[j] =>
                 Cardinality(From(A, B, j)) < Cardinality(From(A, B, i))
<1>1. IsFiniteSet(Ids) /\ Cardinality(Ids) = MaxItems
  <2>1. MaxItems \in Nat BY JsonAssumption
  <2>2. MaxItems \in Int /\ 1 \in Int BY <2>1
  <2>3. IsFiniteSet(1 .. MaxItems)
        /\ Cardinality(1 .. MaxItems) = (IF 1 > MaxItems THEN 0 ELSE MaxItems - 1 + 1)
    BY <2>2, FS_Interval
  <2>4. (IF 1 > MaxItems THEN 0 ELSE MaxItems - 1 + 1) = MaxItems BY <2>1
  <2> QED BY <2>3, <2>4 DEF Ids
<1>2. \A j \in Done(B) : From(A, B, j) \subseteq Ids
  BY DEF From, Done
<1>3. \A j \in Done(B) : /\ IsFiniteSet(From(A, B, j)) /\ Cardinality(From(A, B, j)) <= MaxItems
                         /\ Cardinality(From(A, B, j)) \in Nat
  BY <1>1, <1>2, FS_Subset, FS_CardinalityType
<1>4. i \in From(A, B, i)
  BY DEF From
<1>5. Cardinality(From(A, B, i)) # 0
  BY <1>3, <1>4, FS_EmptySet
<1>6. ASSUME NEW j \in Done(B), A[i] < A[j]
      PROVE  Cardinality(From(A, B, j)) < Cardinality(From(A, B, i))
  <2>1. \A k \in Done(B) : A[j] <= A[k] => A[i] <= A[k] /\ k # i
    <3> SUFFICES ASSUME NEW k \in Done(B), A[j] <= A[k] PROVE A[i] <= A[k] /\ k # i
      OBVIOUS
    <3>1. A[i] \in Nat /\ A[j] \in Nat /\ A[k] \in Nat OBVIOUS
    <3>2. A[i] < A[k] BY <1>6, <3>1
    <3> QED BY <3>1, <3>2
  <2>2. From(A, B, j) \subseteq From(A, B, i) \ {i} BY <2>1 DEF From
  <2>3. /\ IsFiniteSet(From(A, B, i) \ {i})
        /\ Cardinality(From(A, B, i) \ {i}) = Cardinality(From(A, B, i)) - 1
    BY <1>3, <1>4, FS_RemoveElement
  <2>4. Cardinality(From(A, B, j)) <= Cardinality(From(A, B, i) \ {i})
    BY <2>2, <2>3, FS_Subset
  <2>5. Cardinality(From(A, B, j)) \in Nat /\ Cardinality(From(A, B, i)) \in Nat BY <1>3
  <2> QED BY <2>3, <2>4, <2>5
<1> QED BY <1>3, <1>5, <1>6

\* Every item that is complete prints as its part of the text.
LEMMA PrintsParts ==
    ASSUME NEW t, IsText(t), NEW h, NEW A, NEW B, NEW K, Whole(h), Parts(h, t, A, B, K),
           NEW i \in Done(B)
    PROVE  print_value(h, i) = Part(t, A[i], B[i])
<1> PICK F : PrintRun(h, F) /\ \A j : print_value(h, j) = F[MaxItems][j]
  BY PrintRuns
<1> DEFINE Size(j) == Cardinality(From(A, B, j))
           Holds(n) == \A j \in Done(B) : Size(j) <= n => F[n][j] = Part(t, A[j], B[j])
           T == {n \in 0 .. MaxItems : ~Holds(n)}
<1>1. MaxItems \in Nat
  BY JsonAssumption
<1>2. \A j \in Done(B) : A[j] \in Nat
  BY DEF Parts, Positions, Done
<1>3. \A j \in Done(B) : /\ Size(j) \in Nat /\ Size(j) <= MaxItems /\ Size(j) # 0
                         /\ \A k \in Done(B) : A[j] < A[k] => Size(k) < Size(j)
  BY <1>2, FromFacts
<1> HIDE DEF Size
<1>4. T = {}
  <2> SUFFICES ASSUME T # {} PROVE FALSE
    OBVIOUS
  <2>1. PICK m \in T : \A n \in T : m <= n
    <3>1. T \subseteq Nat BY <1>1
    <3> HIDE DEF T
    <3> QED BY <3>1, LeastNatural
  <2>2. m \in 0 .. MaxItems /\ ~Holds(m)
    OBVIOUS
  <2>3. m # 0
    <3>1. Holds(0) BY <1>3
    <3> QED BY <2>2, <3>1
  <2>4. m \in 1 .. MaxItems /\ Holds(m - 1)
    <3> HIDE DEF Holds
    <3>1. m \in 1 .. MaxItems /\ m - 1 \in 0 .. MaxItems /\ ~(m <= m - 1) BY <1>1, <2>2, <2>3
    <3>2. m - 1 \notin T
      <4> HIDE DEF T
      <4> QED BY <2>1, <3>1
    <3> QED BY <3>1, <3>2
  <2>5. PICK j \in Done(B) : Size(j) <= m /\ F[m][j] # Part(t, A[j], B[j])
    BY <2>2
  <2>6. PrintsAfter(t, A, B, j, F[m - 1])
    <3> SUFFICES ASSUME NEW k \in Done(B), A[j] < A[k]
                 PROVE  F[m - 1][k] = Part(t, A[k], B[k])
      BY DEF PrintsAfter
    <3>1. Size(k) < Size(j) /\ Size(k) \in Nat /\ Size(j) \in Nat BY <1>3
    <3>2. Size(k) <= m - 1 BY <2>4, <2>5, <3>1
    <3> QED BY <2>4, <3>2
  <2>7. F[m] = print_items(h, F[m - 1]) BY <2>4 DEF PrintRun
  <2>8. print_items(h, F[m - 1])[j] = Part(t, A[j], B[j])
    <3> HIDE DEF T, Holds
    <3> QED BY <2>6, PrintsItem
  <2> QED BY <2>5, <2>7, <2>8
<1>5. Holds(MaxItems)
  <2>1. MaxItems \in 0 .. MaxItems BY <1>1
  <2> HIDE DEF Holds
  <2> QED BY <1>4, <2>1
<1> QED BY <1>3, <1>5

-----------------------------------------------------------------------------
(***************************************************************************)
(* Reading.                                                                *)
(***************************************************************************)
\* Every item that is complete is in the list of an item that is complete, or
\* in one that is being read, or is the root.
Placed(st, r, A, B, K) ==
    /\ r \in Ids /\ A[r] = 1 /\ K[r] = NULL
    /\ \A j \in Done(B) : \/ K[j] = NULL /\ j = r
                          \/ K[j] \in Done(B)
                          \/ \E k \in 1 .. Len(st) : K[j] = st[k].item

\* The list that the call with the frame f reads: of its elements all but the
\* last are complete, and the first stands behind the bracket.
Listed(h, t, p, A, B, K, f) ==
    /\ f.item \in Ids \ Done(B) /\ A[f.item] # 0 /\ A[f.item] < p
    /\ Opens(t, A[f.item])
    /\ f.kind = (IF IsArray(t, A[f.item]) THEN "array" ELSE "object")
    /\ f.head = NULL => \A j \in Done(B) : K[j] # f.item
    /\ f.head # NULL =>
          /\ f.head \in Done(B) \cup {f.current}
          /\ K[f.head] = f.item /\ K[f.current] = f.item
          /\ A[f.head] # 0 => Behind(h, t, A[f.item], f.head, A[f.head], A[f.item])
          /\ \A j \in Done(B) : K[j] = f.item /\ j # f.current =>
                h[j].next # NULL /\ h[j].next \in Done(B) \cup {f.current}

\* The last element of the list stands behind the delimiter at d, and its value
\* has not begun.
Member(h, A, B, f, d) ==
    /\ d \in Nat /\ f.head # NULL /\ A[f.current] = 0
    /\ f.head = f.current => d = A[f.item]
    /\ \A j \in Done(B) : h[j].next = f.current => B[j] = d

\* What the parser has read before p, in each mode; f is the innermost frame and
\* tg the item that is read.
AtValue(p, tg, A, B) == A[tg] = p /\ tg \notin Done(B)
AtEnd(p, tg, A, B) == tg \in Done(B) /\ B[tg] = p
AtItem(t, p, f, A, B) ==
    \/ f.head = NULL /\ p = A[f.item] + 1
    \/ f.head # NULL /\ f.current \in Done(B) /\ p = B[f.current] + 1 /\ IsComma(t, B[f.current])
AtName(h, p, f, A, B) ==
    f.kind = "object" /\ \E d \in 1 .. p : p = d + 1 /\ Member(h, A, B, f, d)
AtColon(h, t, p, f, A, B) ==
    /\ f.kind = "object"
    /\ \E d \in 1 .. p :
          /\ p = d + 2 /\ Member(h, A, B, f, d)
          /\ t[d + 1] = h[f.current].string /\ h[f.current].string # "none"
AtClose(t, p, f, A) == f.head = NULL /\ p = A[f.item] + 1 /\ Bracketed(t, A[f.item], p)
Arrived(h, t, p, m, f, tg, A, B) ==
    /\ m = "value" => AtValue(p, tg, A, B)
    /\ m = "after" => AtEnd(p, tg, A, B)
    /\ m = "item"  => AtItem(t, p, f, A, B)
    /\ m = "name"  => AtName(h, p, f, A, B)
    /\ m = "colon" => AtColon(h, t, p, f, A, B)
    /\ m = "close" => AtClose(t, p, f, A)

\* The state of a call of cJSON_Parse: the positions of what it has read.
Lasting(h, t, p, st, r, A, B, K) ==
    /\ Parts(h, t, A, B, K) /\ Placed(st, r, A, B, K)
    /\ \A k \in 1 .. Len(st) : Listed(h, t, p, A, B, K, st[k])
\* ... and what its mode says of the last of them.
Recorded(h, t, p, m, st, r, A, B, K) ==
    /\ Lasting(h, t, p, st, r, A, B, K)
    /\ Arrived(h, t, p, m, st[Len(st)], IF st = <<>> THEN r ELSE st[Len(st)].current, A, B)

\* The invariant.
PrintInv ==
    /\ PrintsWhatItParsed
    /\ mode \notin {"idle", "fail"} =>
          \E A, B, K : Recorded(heap, text, pos, mode, stack, root, A, B, K)

\* All that is printed of item i is the same.
SameItem(h, g, i) ==
    /\ g[i].type = h[i].type /\ g[i].child = h[i].child /\ g[i].next = h[i].next
    /\ g[i].string = h[i].string /\ g[i].valuestring = h[i].valuestring

\* Item tg may have got a type, a text and children; all else is the same.
SameBut(h, g, tg) ==
    /\ DOMAIN g = DOMAIN h
    /\ \A i \in DOMAIN h \ {tg} : SameItem(h, g, i)
    /\ g[tg].next = h[tg].next /\ g[tg].string = h[tg].string

\* What the positions say of the heap: an item that is complete is allocated.
LEMMA PartsFacts ==
    ASSUME NEW h, IsHeap(h), NEW t, NEW A, NEW B, NEW K, Parts(h, t, A, B, K)
    PROVE  /\ A \in [Ids -> Nat] /\ B \in [Ids -> Nat] /\ K \in [Ids -> Ptrs]
           /\ \A i \in Ids : A[i] # 0 => i \in DOMAIN h
           /\ \A i \in Ids : A[i] # 0 /\ K[i] # NULL =>
                 A[K[i]] # 0 /\ A[K[i]] < A[i] /\ K[i] \in DOMAIN h
           /\ \A i \in Done(B) :
                 /\ i \in DOMAIN h /\ i \in Ids /\ A[i] # 0
                 /\ h[i].next \in Ptrs /\ h[i].child \in Ptrs
                 /\ IsPart(h, t, A, B, K, i) /\ Follows(h, t, A, B, K, i)
           /\ NULL \notin Done(B) /\ NULL \notin DOMAIN h
<1>1. /\ A \in [Ids -> Nat] /\ B \in [Ids -> Nat] /\ K \in [Ids -> Ptrs]
      /\ \A i \in Ids : A[i] # 0 => i \in DOMAIN h
      /\ \A i \in Ids : A[i] # 0 /\ K[i] # NULL => A[K[i]] # 0 /\ A[K[i]] < A[i]
  BY DEF Parts, Positions
<1>2. \A i \in Ids : A[i] # 0 /\ K[i] # NULL => K[i] \in DOMAIN h
  <2>1. \A i \in Ids : K[i] # NULL => K[i] \in Ids BY <1>1 DEF Ptrs
  <2> QED BY <1>1, <2>1
<1>3. \A i \in Done(B) : /\ i \in Ids /\ A[i] # 0
                         /\ IsPart(h, t, A, B, K, i) /\ Follows(h, t, A, B, K, i)
  BY DEF Parts, Done, IsPart
<1>4. \A i \in DOMAIN h : h[i].next \in Ptrs /\ h[i].child \in Ptrs
  BY DEF IsHeap, Item
<1>5. NULL \notin Ids /\ NULL \notin DOMAIN h
  BY DEF IsHeap, Ids, NULL
<1> QED BY <1>1, <1>2, <1>3, <1>4, <1>5 DEF Done

\* The list of item tg ends before the delimiter at q - 1.
EndsAt(h, B, K, tg, q) ==
    \A j \in Done(B) :
        K[j] = tg => /\ h[j].next = NULL => q = B[j] + 1
                     /\ h[j].next # NULL => h[j].next \in Done(B)

\* Item tg is read up to q; it is the last of its list so far, or in none.
Completes(h, g, t, A, B, K, B2, tg, q) ==
    /\ tg \in Ids \ Done(B) /\ q \in Nat /\ B2 = [B EXCEPT ![tg] = q]
    /\ SameBut(h, g, tg) /\ IsPart(g, t, A, B2, K, tg) /\ EndsAt(h, B, K, tg, q)
    /\ h[tg].next = NULL /\ K[tg] \notin Done(B) /\ K[tg] # tg

\* An item that is read to its end.
LEMMA PartComplete ==
    ASSUME NEW h, IsHeap(h), NEW g, NEW t, NEW A, NEW B, NEW K, Parts(h, t, A, B, K),
           NEW tg, NEW q, NEW B2, Completes(h, g, t, A, B, K, B2, tg, q)
    PROVE  Parts(g, t, A, B2, K) /\ Done(B2) = Done(B) \cup {tg}
<1>0. /\ tg \in Ids \ Done(B) /\ q \in Nat /\ B2 = [B EXCEPT ![tg] = q]
      /\ SameBut(h, g, tg) /\ IsPart(g, t, A, B2, K, tg) /\ EndsAt(h, B, K, tg, q)
      /\ h[tg].next = NULL /\ K[tg] \notin Done(B) /\ K[tg] # tg
  BY DEF Completes
<1>1. /\ A \in [Ids -> Nat] /\ B \in [Ids -> Nat] /\ K \in [Ids -> Ptrs]
      /\ \A i \in Ids : A[i] # 0 => i \in DOMAIN h
      /\ \A i \in Ids : A[i] # 0 /\ K[i] # NULL =>
            A[K[i]] # 0 /\ A[K[i]] < A[i] /\ K[i] \in DOMAIN h
      /\ \A i \in Done(B) :
            /\ i \in DOMAIN h /\ i \in Ids /\ A[i] # 0
            /\ h[i].next \in Ptrs /\ h[i].child \in Ptrs
            /\ IsPart(h, t, A, B, K, i) /\ Follows(h, t, A, B, K, i)
  BY PartsFacts
<1>2. q # 0 /\ A[tg] # 0
  <2>1. B2[tg] = q BY <1>0, <1>1
  <2>2. A[tg] \in Nat BY <1>0, <1>1
  <2> QED BY <1>0, <2>1, <2>2 DEF IsPart
<1>3. B2 \in [Ids -> Nat] /\ B2[tg] = q /\ \A i \in Ids : i # tg => B2[i] = B[i]
  BY <1>0, <1>1
<1>4. Done(B2) = Done(B) \cup {tg}
  BY <1>0, <1>2, <1>3 DEF Done
<1>5. \A j \in Done(B) : B2[j] = B[j] /\ j # tg
  BY <1>0, <1>1, <1>3
<1>6. ASSUME NEW i \in Done(B) PROVE IsPart(g, t, A, B2, K, i)
  <2>1. IsPart(h, t, A, B, K, i) /\ SameItem(h, g, i) /\ B2[i] = B[i]
    BY <1>0, <1>1, <1>5 DEF SameBut
  <2>2. h[i].child \in Done(B) => g[h[i].child].string = h[h[i].child].string
    BY <1>0, <1>1, <1>5 DEF SameBut, SameItem
  <2> QED BY <1>0, <1>4, <2>1, <2>2 DEF IsPart, SameItem, IsContainer, SpellsToken, Behind
<1>7. ASSUME NEW i \in Done(B) PROVE Follows(g, t, A, B2, K, i)
  <2>1. Follows(h, t, A, B, K, i) /\ SameItem(h, g, i) /\ B2[i] = B[i]
    BY <1>0, <1>1, <1>5 DEF SameBut
  <2>2. /\ h[i].next # NULL => h[i].next \in Ids
        /\ h[i].next \in DOMAIN h => g[h[i].next].string = h[h[i].next].string
    BY <1>0, <1>1, <1>5 DEF SameBut, SameItem, Ptrs
  <2>3. ASSUME h[i].next # NULL, A[h[i].next] # 0
        PROVE  Behind(g, t, A[K[i]], h[i].next, A[h[i].next], B[i])
    <3>1. h[i].next \in DOMAIN h BY <1>0, <1>1, <2>2, <2>3
    <3> QED BY <1>0, <2>1, <2>2, <2>3, <3>1 DEF Follows, Behind
  <2>4. K[i] \in Done(B) => B2[K[i]] = B[K[i]]
    BY <1>0, <1>5
  <2>5. K[i] = tg => /\ h[i].next = NULL => q = B[i] + 1
                     /\ h[i].next # NULL => h[i].next \in Done(B)
    BY <1>0 DEF EndsAt
  <2>6. g[i].next = h[i].next BY <1>0, <2>1 DEF SameItem
  <2> QED BY <1>0, <1>3, <1>4, <2>1, <2>3, <2>4, <2>5, <2>6 DEF Follows
<1>8. Follows(g, t, A, B2, K, tg)
  <2>1. g[tg].next = NULL BY <1>0 DEF SameBut
  <2>2. K[tg] \notin Done(B2) BY <1>0, <1>4
  <2> QED BY <1>0, <2>1, <2>2 DEF Follows
<1>9. Positions(g, A, B2, K)
  BY <1>0, <1>1, <1>3 DEF SameBut, Positions
<1> QED BY <1>0, <1>4, <1>6, <1>7, <1>8, <1>9 DEF Parts

\* The list of frame f when an item has been read to its end: its last one, or
\* one of another list.
LEMMA ListedComplete ==
    ASSUME NEW h, IsHeap(h), NEW g, NEW t, NEW A, NEW B, NEW K, Parts(h, t, A, B, K),
           NEW tg \in Ids \ Done(B), NEW q \in Nat, NEW B2, B2 = [B EXCEPT ![tg] = q],
           SameBut(h, g, tg), Done(B2) = Done(B) \cup {tg},
           NEW p \in Nat, NEW p2 \in Nat, p <= p2,
           NEW f \in Frames, Listed(h, t, p, A, B, K, f), f.item # tg,
           K[tg] = f.item => f.head # NULL /\ tg = f.current
    PROVE  Listed(g, t, p2, A, B2, K, f)
<1>1. /\ A \in [Ids -> Nat]
      /\ \A i \in Ids : A[i] # 0 => i \in DOMAIN h
      /\ \A i \in Done(B) : i \in DOMAIN h /\ i \in Ids
  BY PartsFacts
<1>2. /\ f.item \in Ids \ Done(B) /\ A[f.item] # 0 /\ A[f.item] < p
      /\ Opens(t, A[f.item])
      /\ f.kind = (IF IsArray(t, A[f.item]) THEN "array" ELSE "object")
      /\ f.head = NULL => \A j \in Done(B) : K[j] # f.item
  BY DEF Listed
<1>3. f.item \in Ids \ Done(B2) /\ A[f.item] < p2
  <2>1. A[f.item] \in Nat BY <1>1, <1>2
  <2>2. \A x \in Nat : x < p => x < p2 OBVIOUS
  <2>3. A[f.item] < p2 BY <1>2, <2>1, <2>2
  <2>4. f.item \notin Done(B2) BY <1>2
  <2> QED BY <1>2, <2>3, <2>4
<1>4. f.head = NULL => \A j \in Done(B2) : K[j] # f.item
  BY <1>2
<1>5. ASSUME f.head # NULL
      PROVE  /\ f.head \in Done(B2) \cup {f.current}
             /\ K[f.head] = f.item /\ K[f.current] = f.item
             /\ A[f.head] # 0 => Behind(g, t, A[f.item], f.head, A[f.head], A[f.item])
             /\ \A j \in Done(B2) : K[j] = f.item /\ j # f.current =>
                   g[j].next # NULL /\ g[j].next \in Done(B2) \cup {f.current}
  <2>1. /\ f.head \in Done(B) \cup {f.current}
        /\ K[f.head] = f.item /\ K[f.current] = f.item
        /\ A[f.head] # 0 => Behind(h, t, A[f.item], f.head, A[f.head], A[f.item])
        /\ \A j \in Done(B) : K[j] = f.item /\ j # f.current =>
              h[j].next # NULL /\ h[j].next \in Done(B) \cup {f.current}
    BY <1>5 DEF Listed
  <2>2. f.head \in Ids BY <1>5 DEF Frames, Ptrs
  <2>3. ASSUME A[f.head] # 0
        PROVE  Behind(g, t, A[f.item], f.head, A[f.head], A[f.item])
    <3>1. f.head \in DOMAIN h BY <1>1, <2>2, <2>3
    <3>2. g[f.head].string = h[f.head].string BY <3>1 DEF SameBut, SameItem
    <3> QED BY <2>1, <2>3, <3>2 DEF Behind
  <2>4. ASSUME NEW j \in Done(B2), K[j] = f.item, j # f.current
        PROVE  g[j].next # NULL /\ g[j].next \in Done(B2) \cup {f.current}
    <3>1. j \in Done(B) /\ j # tg BY <2>4
    <3>2. g[j].next = h[j].next BY <1>1, <3>1 DEF SameBut, SameItem
    <3> QED BY <2>1, <2>4, <3>1, <3>2
  <2> QED BY <2>1, <2>3, <2>4
<1> QED BY <1>2, <1>3, <1>4, <1>5 DEF Listed

\* The heap, as the parser keeps it: each frame fills in the item that the one
\* below it reads, and has a list whose last item is the current one.
Framed(h, st, r) ==
    /\ IsHeap(h) /\ r \in DOMAIN h /\ h[r].next = NULL
    /\ \A i \in DOMAIN h : h[i].next \in DOMAIN h \cup {NULL}
    /\ Len(st) \in Nat
    /\ \A k \in 1 .. Len(st) :
          /\ st[k] \in Frames
          /\ st[k].item \in DOMAIN h /\ h[st[k].item].child = NULL
          /\ st[k].item = (IF k = 1 THEN r ELSE st[k - 1].current)
          /\ \A j \in 1 .. Len(st) : j # k => st[j].item # st[k].item
          /\ st[k].head = NULL <=> st[k].current = NULL
          /\ st[k].head # NULL => /\ st[k].head \in DOMAIN h /\ st[k].current \in DOMAIN h
                                  /\ h[st[k].current].next = NULL

\* The item that is read when n lists are open, and whose list it is in.
InProgress(st, r, n) == IF n = 0 THEN r ELSE st[n].current

\* It is the last of that list, which is none that is complete.
LEMMA ReadingIn ==
    ASSUME NEW h, NEW st, NEW r, Framed(h, st, r), NEW t, NEW p, NEW A, NEW B, NEW K,
           Lasting(h, t, p, st, r, A, B, K), NEW n \in 0 .. Len(st),
           NEW tg \in Ids \ Done(B), tg = InProgress(st, r, n)
    PROVE  /\ h[tg].next = NULL /\ K[tg] = (IF n = 0 THEN NULL ELSE st[n].item)
           /\ K[tg] \notin Done(B)
           /\ \A k \in 1 .. Len(st) : K[tg] = st[k].item => k = n /\ st[k].head # NULL
<1>1. NULL \notin Ids /\ NULL \notin DOMAIN h /\ DOMAIN h \subseteq Ids
  BY DEF Framed, IsHeap, Ids, NULL
<1>2. CASE n = 0
  <2>1. tg = r BY <1>2 DEF InProgress
  <2>2. K[tg] = NULL BY <2>1 DEF Lasting, Placed
  <2>3. \A k \in 1 .. Len(st) : st[k].item # NULL BY <1>1 DEF Framed
  <2>4. h[r].next = NULL BY DEF Framed
  <2> QED BY <1>1, <1>2, <2>1, <2>2, <2>3, <2>4 DEF Done
<1>3. CASE n # 0
  <2>1. n \in 1 .. Len(st) /\ tg = st[n].current BY <1>3 DEF InProgress
  <2>2. st[n].head # NULL /\ h[tg].next = NULL
    BY <1>1, <2>1 DEF Framed
  <2>3. K[tg] = st[n].item /\ st[n].item \notin Done(B)
    BY <2>1, <2>2 DEF Lasting, Listed
  <2>4. \A k \in 1 .. Len(st) : st[n].item = st[k].item => k = n
    BY <2>1 DEF Framed
  <2> QED BY <1>3, <2>2, <2>3, <2>4
<1> QED BY <1>2, <1>3

\* The n frames that are left are those that do not fill in item tg.
LeftOver(st, st2, n, tg) ==
    /\ Len(st2) = n
    /\ \A k \in 1 .. n : st2[k] = st[k] /\ st[k].item # tg
    /\ \A k \in 1 .. Len(st) : k <= n \/ st[k].item = tg

\* What is true of the stack and the items that are complete, when one more is:
\* the item that was read with n lists open, which may be the item of list n + 1.
LEMMA LastingComplete ==
    ASSUME NEW h, NEW st, NEW r, Framed(h, st, r), NEW g, NEW t, NEW p \in Nat,
           NEW q \in Nat, q = p + 1, NEW A, NEW B, NEW K, Lasting(h, t, p, st, r, A, B, K),
           NEW n \in 0 .. Len(st), NEW tg \in Ids \ Done(B), tg = InProgress(st, r, n),
           NEW st2, LeftOver(st, st2, n, tg), NEW B2, B2 = [B EXCEPT ![tg] = q],
           SameBut(h, g, tg), IsPart(g, t, A, B2, K, tg),
           EndsAt(h, B, K, tg, q)
    PROVE  Lasting(g, t, q, st2, r, A, B2, K) /\ tg \in Done(B2) /\ B2[tg] = q
<1>1. /\ h[tg].next = NULL /\ K[tg] = (IF n = 0 THEN NULL ELSE st[n].item)
      /\ K[tg] \notin Done(B)
      /\ \A k \in 1 .. Len(st) : K[tg] = st[k].item => k = n /\ st[k].head # NULL
  BY ReadingIn
<1>2. IsHeap(h) /\ Parts(h, t, A, B, K) /\ p <= q
  BY DEF Framed, Lasting
<1>3. n \in Nat /\ Len(st) \in Nat /\ \A k \in 1 .. n : k \in 1 .. Len(st)
  <2>1. Len(st) \in Nat BY DEF Framed
  <2> QED BY <2>1
<1>4. n # 0 => n \in 1 .. n
  BY <1>3
<1>10. /\ Len(st2) = n
       /\ \A k \in 1 .. n : st2[k] = st[k] /\ st[k].item # tg
       /\ \A k \in 1 .. Len(st) : k <= n \/ st[k].item = tg
  BY DEF LeftOver
<1>5. h[tg].next = NULL /\ K[tg] \notin Done(B) /\ K[tg] # tg
  <2>1. NULL \notin Ids BY DEF Ids, NULL
  <2> QED BY <1>1, <1>4, <1>10, <2>1
<1>6. Parts(g, t, A, B2, K) /\ Done(B2) = Done(B) \cup {tg}
  <2>1. Completes(h, g, t, A, B, K, B2, tg, q) BY <1>5 DEF Completes
  <2>2. Parts(g, t, A, B2, K) BY <1>2, <2>1, PartComplete
  <2>3. \A x : x \in Done(B2) <=> x \in Done(B) \cup {tg} BY <1>2, <2>1, PartComplete
  <2> QED BY <2>2, <2>3
<1>7. ASSUME NEW k \in 1 .. n PROVE Listed(g, t, q, A, B2, K, st2[k])
  <2>1. /\ st[k] \in Frames /\ Listed(h, t, p, A, B, K, st[k])
        /\ st2[k] = st[k] /\ st[k].item # tg
    BY <1>3, <1>10 DEF Framed, Lasting
  <2>2. K[tg] = st[k].item => st[k].head # NULL /\ tg = st[k].current
    <3>1. n # 0 BY <1>3
    <3> QED BY <1>1, <1>3, <3>1 DEF InProgress
  <2>3. PICK f : f = st[k]
    OBVIOUS
  <2>5. f \in Frames /\ Listed(h, t, p, A, B, K, f) /\ f.item # tg
        /\ (K[tg] = f.item => f.head # NULL /\ tg = f.current)
    BY <2>1, <2>2, <2>3
  <2>6. Listed(g, t, q, A, B2, K, f)
    BY <1>2, <1>6, <2>5, ListedComplete
  <2> QED BY <2>1, <2>3, <2>6
<1>8. Placed(st2, r, A, B2, K)
  <2>1. Placed(st, r, A, B, K) BY DEF Lasting
  <2>2. ASSUME NEW k \in 1 .. Len(st)
        PROVE  st[k].item \in Done(B2) \/ \E m \in 1 .. Len(st2) : st[k].item = st2[m].item
    <3>1. CASE k <= n
      <4>1. k \in 1 .. n BY <1>3, <3>1
      <4> QED BY <1>10, <4>1
    <3> QED BY <1>6, <1>10, <3>1
  <2>3. ASSUME NEW j \in Done(B2)
        PROVE  \/ K[j] = NULL /\ j = r
               \/ K[j] \in Done(B2)
               \/ \E m \in 1 .. Len(st2) : K[j] = st2[m].item
    <3>1. CASE j \in Done(B)
      <4>1. \/ K[j] = NULL /\ j = r
            \/ K[j] \in Done(B)
            \/ \E k \in 1 .. Len(st) : K[j] = st[k].item
        BY <2>1, <3>1 DEF Placed
      <4>2. Done(B) \subseteq Done(B2) BY <1>6
      <4>3. CASE \E k \in 1 .. Len(st) : K[j] = st[k].item BY <2>2, <4>3
      <4> QED BY <4>1, <4>2, <4>3
    <3>2. CASE j = tg
      <4>1. CASE n = 0 BY <1>1, <3>2, <4>1 DEF InProgress
      <4>2. CASE n # 0 BY <1>1, <1>4, <1>10, <3>2, <4>2
      <4> QED BY <4>1, <4>2
    <3> QED BY <1>6, <3>1, <3>2
  <2> QED BY <2>1, <2>3 DEF Placed
<1>9. tg \in Done(B2) /\ B2[tg] = q
  <2>1. B \in [Ids -> Nat] BY <1>2, PartsFacts
  <2> QED BY <1>6, <2>1
<1> QED BY <1>6, <1>7, <1>8, <1>9, <1>10 DEF Lasting

-----------------------------------------------------------------------------
(***************************************************************************)
(* The steps of the parser.                                                *)
(***************************************************************************)
\* The heap and the stack of the parser that runs.
LEMMA ParserFramed ==
    ASSUME JsonInv, mode \notin {"idle", "fail"}
    PROVE  Framed(heap, stack, root)
<1>1. PICK P : Shape(P)
  BY DEF JsonInv
<1>2. stack \in Seq(Frames) /\ Len(stack) \in Nat /\ \A k \in 1 .. Len(stack) : stack[k] \in Frames
  BY StackType DEF JsonInv
<1>3. IsHeap(heap) /\ NULL \notin DOMAIN heap /\ Roots \subseteq DOMAIN heap
  BY <1>1 DEF Shape, Forest, Rooted, IsHeap, Ids, NULL
<1>4. root \in DOMAIN heap /\ heap[root].next = NULL
  <2>1. root # NULL BY DEF JsonInv, Control
  <2>2. root \in Trees BY <2>1 DEF Trees
  <2>3. root \in Roots BY <2>2, RootsAre
  <2> QED BY <1>1, <1>3, <2>2, <2>3 DEF Shape
<1>5. \A i \in DOMAIN heap : heap[i].next \in DOMAIN heap \cup {NULL}
  BY <1>1 DEF Shape, Forest, Linked
<1>6. \A k \in 1 .. Len(stack) : Frame(P, k)
  BY <1>1 DEF Shape
<1>7. ASSUME NEW k \in 1 .. Len(stack)
      PROVE  /\ stack[k].item \in DOMAIN heap /\ heap[stack[k].item].child = NULL
             /\ stack[k].item = (IF k = 1 THEN root ELSE stack[k - 1].current)
             /\ \A j \in 1 .. Len(stack) : j # k => stack[j].item # stack[k].item
             /\ stack[k].head = NULL <=> stack[k].current = NULL
             /\ stack[k].head # NULL => /\ stack[k].head \in DOMAIN heap
                                        /\ stack[k].current \in DOMAIN heap
                                        /\ heap[stack[k].current].next = NULL
  <2>1. Frame(P, k) BY <1>6
  <2> QED BY <2>1 DEF Frame
<1> QED BY <1>2, <1>3, <1>4, <1>5, <1>7 DEF Framed

\* The item that is read is where the frames say.
LEMMA TargetIs ==
    ASSUME JsonInv
    PROVE  /\ Len(stack) \in Nat /\ Len(stack) \in 0 .. Len(stack)
           /\ Target = InProgress(stack, root, Len(stack))
           /\ (IF stack = <<>> THEN root ELSE stack[Len(stack)].current) = Target
           /\ stack # <<>> => Len(stack) \in 1 .. Len(stack) /\ Top = stack[Len(stack)]
<1>1. Len(stack) \in Nat
  BY StackType DEF JsonInv
<1>2. stack = <<>> <=> Len(stack) = 0
  BY <1>1, StackType DEF JsonInv
<1> QED BY <1>1, <1>2 DEF Target, Top, InProgress

\* Where the parser is when it runs.
LEMMA ParserIsAt ==
    ASSUME JsonInv, PrintInv, mode \notin {"idle", "fail"}
    PROVE  \E A, B, K : /\ Lasting(heap, text, pos, stack, root, A, B, K)
                        /\ Arrived(heap, text, pos, mode, Top, Target, A, B)
<1>1. PICK A, B, K : Recorded(heap, text, pos, mode, stack, root, A, B, K)
  BY DEF PrintInv
<1>2. (IF stack = <<>> THEN root ELSE stack[Len(stack)].current) = Target
  BY TargetIs
<1>3. Arrived(heap, text, pos, mode, Top, Target, A, B)
  BY <1>1, <1>2 DEF Recorded, Top
<1> QED BY <1>1, <1>3 DEF Recorded

\* A step of the parser that goes on.
LEMMA StillRecorded ==
    ASSUME NEW A, NEW B, NEW K, mode' \notin {"idle", "fail"},
           outcome' = "none", Lasting(heap', text', pos', stack', root', A, B, K),
           Arrived(heap', text', pos', mode', Top', Target', A, B)
    PROVE  PrintInv'
<1>1. (IF stack' = <<>> THEN root' ELSE stack'[Len(stack')].current) = Target'
  BY DEF Target, Top
<1>2. Top' = stack'[Len(stack')]
  BY DEF Top
<1>3. Recorded(heap', text', pos', mode', stack', root', A, B, K)
  BY <1>1, <1>2 DEF Recorded
<1>4. PrintsWhatItParsed'
  BY DEF PrintsWhatItParsed
<1> QED BY <1>3, <1>4 DEF PrintInv

\* A step after which the parser does not run, or has failed.
LEMMA NothingRead ==
    ASSUME mode' \in {"idle", "fail"}, outcome' # "item"
    PROVE  PrintInv'
  BY DEF PrintInv, PrintsWhatItParsed

\* While the parser runs nothing has been returned yet.
LEMMA NoOutcome ==
    ASSUME GrammarInv, mode # "idle"
    PROVE  outcome = "none"
  BY DEF GrammarInv

\* Item i is a number, a literal or a string, of the token tok.
AtomRead(h, i, tok) ==
    \/ h[i].type \in Scalars /\ tok = h[i].type
    \/ h[i].type = "string" /\ tok = h[i].valuestring

\* A number, a literal or a string is read, and printed, as one token.
LEMMA AtomPart ==
    ASSUME NEW t, NEW p \in Nat, p <= Len(t), Len(t) \in Nat, p # 0, NEW g, NEW A, NEW B2,
           NEW K, NEW tg, A[tg] = p, B2[tg] = p + 1, AtomRead(g, tg, t[p])
    PROVE  IsPart(g, t, A, B2, K, tg)
<1>1. p < p + 1 /\ p + 1 <= Len(t) + 1
  OBVIOUS
<1>2. ~IsContainer(g, tg) /\ SpellsToken(g, t, tg, p)
  BY DEF IsContainer, SpellsToken, Scalars, AtomRead
<1> QED BY <1>1, <1>2 DEF IsPart

\* The item that a token is read into.
LEMMA AtomHeap ==
    ASSUME NEW h, IsHeap(h), NEW tg \in DOMAIN h, NEW tok, NEW g,
           \/ tok \in Scalars /\ g = [h EXCEPT ![tg].type = tok]
           \/ g = [h EXCEPT ![tg].type = "string", ![tg].valuestring = tok]
    PROVE  SameBut(h, g, tg) /\ AtomRead(g, tg, tok)
<1>1. h[tg] \in Item
  BY DEF IsHeap
<1>2. DOMAIN g = DOMAIN h /\ \A i \in DOMAIN h \ {tg} : g[i] = h[i]
  OBVIOUS
<1>3. CASE tok \in Scalars /\ g = [h EXCEPT ![tg].type = tok]
  <2>1. g[tg] = [h[tg] EXCEPT !.type = tok] BY <1>3
  <2>2. g[tg].type = tok /\ g[tg].next = h[tg].next /\ g[tg].string = h[tg].string
    BY <1>1, <2>1 DEF Item
  <2> QED BY <1>2, <1>3, <2>2 DEF SameBut, SameItem, AtomRead
<1>4. CASE g = [h EXCEPT ![tg].type = "string", ![tg].valuestring = tok]
  <2>1. g[tg] = [h[tg] EXCEPT !.type = "string", !.valuestring = tok] BY <1>4
  <2>2. /\ g[tg].type = "string" /\ g[tg].valuestring = tok
        /\ g[tg].next = h[tg].next /\ g[tg].string = h[tg].string
    BY <1>1, <2>1 DEF Item
  <2> QED BY <1>2, <2>2 DEF SameBut, SameItem, AtomRead
<1> QED BY <1>3, <1>4

\* parse_number, parse_string and the literals.
LEMMA AtomPrints ==
    ASSUME JsonInv, GrammarInv, PrintInv, parse_scalar \/ parse_string
    PROVE  PrintInv'
<1>1. /\ mode = "value" /\ outcome' = outcome /\ outcome = "none"
      /\ text' = text /\ root' = root /\ stack' = stack
      /\ mode' \in {"after", "fail"}
  BY NoOutcome DEF parse_scalar, parse_string, OutOfMemory
<1>2. CASE mode' = "fail"
  BY <1>1, <1>2, NothingRead
<1>3. CASE mode' = "after"
  <2>1. /\ pos' = pos + 1
        /\ \/ /\ Token \in Scalars
              /\ heap' = [heap EXCEPT ![Target].type = Token]
           \/ /\ Token \in Strings
              /\ heap' = [heap EXCEPT ![Target].type = "string", ![Target].valuestring = Token]
    BY <1>3 DEF parse_scalar, parse_string, OutOfMemory
  <2>2. PICK A, B, K : /\ Lasting(heap, text, pos, stack, root, A, B, K)
                       /\ Arrived(heap, text, pos, "value", Top, Target, A, B)
    BY <1>1, ParserIsAt
  <2>3. A[Target] = pos /\ Target \notin Done(B)
    BY <2>2 DEF Arrived, AtValue
  <2>4. Token # "end" /\ pos \in 1 .. Len(text) /\ Token = text[pos] /\ Len(text) \in Nat
        /\ pos \in Nat
    BY <2>1, TextFacts, TokensDiffer DEF Scalars
  <2>5. Framed(heap, stack, root) /\ IsHeap(heap)
    BY <1>1, ParserFramed DEF Framed
  <2>6. PICK P : Shape(P)
    BY DEF JsonInv
  <2>7. Target \in DOMAIN heap /\ \A k \in 1 .. Len(stack) : stack[k].item # Target
    BY <1>1, <2>6, TargetFacts DEF JsonInv
  <2>8. Target \in Ids \ Done(B)
    BY <2>3, <2>5, <2>7 DEF IsHeap
  <2>9. PICK q \in Nat : q = pos + 1
    BY <2>4
  <2> DEFINE B2 == [B EXCEPT ![Target] = q]
  <2>10. B2[Target] = q
    <3>1. B \in [Ids -> Nat] BY <2>2, <2>5, PartsFacts DEF Lasting
    <3> QED BY <2>8, <3>1
  <2>11. SameBut(heap, heap', Target) /\ AtomRead(heap', Target, text[pos])
    <3>1. PICK h, tg, tok, g : h = heap /\ tg = Target /\ tok = Token /\ g = heap'
      OBVIOUS
    <3>2. IsHeap(h) /\ tg \in DOMAIN h BY <2>5, <2>7, <3>1
    <3>3. \/ tok \in Scalars /\ g = [h EXCEPT ![tg].type = tok]
          \/ g = [h EXCEPT ![tg].type = "string", ![tg].valuestring = tok]
      BY <2>1, <3>1
    <3>4. SameBut(h, g, tg)
      BY <3>2, <3>3, AtomHeap
    <3>5. AtomRead(g, tg, tok)
      BY <3>2, <3>3, AtomHeap
    <3> QED BY <2>4, <3>1, <3>4, <3>5
  <2>12. PICK g : g = heap'
    OBVIOUS
  <2> HIDE DEF B2
  <2>13. IsPart(g, text, A, B2, K, Target)
    <3>1. pos <= Len(text) /\ pos # 0 BY <2>4
    <3>2. B2[Target] = pos + 1 BY <2>9, <2>10
    <3>3. AtomRead(g, Target, text[pos])
      BY <2>11, <2>12
    <3> QED BY <2>3, <2>4, <3>1, <3>2, <3>3, AtomPart
  <2>14. EndsAt(heap, B, K, Target, q)
    <3>1. NULL \notin Ids BY DEF Ids, NULL
    <3>2. \A j \in Done(B) : K[j] # Target
      BY <2>2, <2>7, <2>8, <3>1 DEF Lasting, Placed
    <3> QED BY <3>2 DEF EndsAt
  <2>15. LeftOver(stack, stack, Len(stack), Target)
    BY <2>7, TargetIs DEF LeftOver
  <2>16. Lasting(g, text, q, stack, root, A, B2, K) /\ Target \in Done(B2) /\ B2[Target] = q
    <3>1. PICK tg, n, b : tg = Target /\ n = Len(stack) /\ b = B2
      OBVIOUS
    <3>2. /\ n \in 0 .. Len(stack) /\ tg \in Ids \ Done(B) /\ tg = InProgress(stack, root, n)
          /\ b = [B EXCEPT ![tg] = q]
      BY <2>8, <3>1, TargetIs DEF B2
    <3>3. /\ LeftOver(stack, stack, n, tg) /\ SameBut(heap, g, tg)
          /\ IsPart(g, text, A, b, K, tg) /\ EndsAt(heap, B, K, tg, q)
      BY <2>11, <2>12, <2>13, <2>14, <2>15, <3>1
    <3>4. Lasting(g, text, q, stack, root, A, b, K)
      BY <2>2, <2>4, <2>5, <2>9, <3>2, <3>3, LastingComplete
    <3>5. Target \in Done(B2)
      BY <2>4, <2>8, <2>9, <2>10 DEF Done
    <3> QED BY <2>10, <3>1, <3>4, <3>5
  <2>17. Target' = Target
    BY <1>1 DEF Target, Top
  <2>18. Arrived(heap', text', pos', mode', Top', Target', A, B2)
    BY <1>3, <2>1, <2>9, <2>16, <2>17 DEF Arrived, AtEnd
  <2>19. Lasting(heap', text', pos', stack', root', A, B2, K)
    BY <1>1, <2>1, <2>9, <2>12, <2>16
  <2> QED BY <1>1, <1>3, <2>18, <2>19, StillRecorded
<1> QED BY <1>1, <1>2, <1>3

\* The heap when a list is complete.
LEMMA CloseHeap ==
    ASSUME NEW h, IsHeap(h), NEW f \in Frames, f.item \in DOMAIN h, NEW g, g = CloseList(h, f)
    PROVE  SameBut(h, g, f.item) /\ g[f.item].type = f.kind /\ g[f.item].child = f.head
<1>1. \A i \in DOMAIN h : h[i] \in Item
  BY DEF IsHeap
<1>2. DOMAIN g = DOMAIN h
  BY DEF CloseList
<1>3. \A i \in DOMAIN h :
          g[i] = (IF i = f.item THEN [h[i] EXCEPT !.type = f.kind, !.child = f.head]
                  ELSE IF i = f.head THEN [h[i] EXCEPT !.prev = f.current] ELSE h[i])
  BY DEF CloseList
<1>4. \A i \in DOMAIN h \ {f.item} : SameItem(h, g, i)
  BY <1>1, <1>3 DEF SameItem, Item
<1>5. /\ g[f.item].type = f.kind /\ g[f.item].child = f.head
      /\ g[f.item].next = h[f.item].next /\ g[f.item].string = h[f.item].string
  <2>1. g[f.item] = [h[f.item] EXCEPT !.type = f.kind, !.child = f.head] BY <1>3
  <2>2. h[f.item] \in Item BY <1>1
  <2> QED BY <2>1, <2>2 DEF Item
<1> QED BY <1>2, <1>4, <1>5 DEF SameBut

\* The list of frame f is complete when the bracket at p closes it.
ClosesList(h, t, p, A, B, f) ==
    /\ Bracketed(t, A[f.item], p) /\ p \in 1 .. Len(t)
    /\ f.head = NULL => p = A[f.item] + 1
    /\ f.head # NULL => f.current \in Done(B) /\ B[f.current] = p

\* Its item stands for the text between the brackets.
LEMMA ClosePart ==
    ASSUME NEW h, IsHeap(h), NEW f \in Frames, f.item \in DOMAIN h, NEW g, g = CloseList(h, f),
           NEW t, NEW p \in Nat, Len(t) \in Nat, NEW A, NEW B, NEW K, Parts(h, t, A, B, K),
           Listed(h, t, p, A, B, K, f), ClosesList(h, t, p, A, B, f),
           NEW q \in Nat, q = p + 1, NEW B2, B2 = [B EXCEPT ![f.item] = q]
    PROVE  IsPart(g, t, A, B2, K, f.item)
<1> PICK i : i = f.item
  OBVIOUS
<1>1. /\ A \in [Ids -> Nat] /\ B \in [Ids -> Nat]
      /\ \A j \in Ids : A[j] # 0 => j \in DOMAIN h
      /\ \A j \in Done(B) : A[j] # 0 /\ j \in Ids
  BY PartsFacts
<1>2. SameBut(h, g, i) /\ g[i].type = f.kind /\ g[i].child = f.head
  BY CloseHeap
<1>3. /\ i \in Ids \ Done(B) /\ A[i] # 0 /\ A[i] < p /\ Opens(t, A[i])
      /\ f.kind = (IF IsArray(t, A[i]) THEN "array" ELSE "object")
  BY DEF Listed
<1>4. B2[i] = q /\ \A j \in Ids : j # i => B2[j] = B[j]
  BY <1>1, <1>3
<1>5. Done(B) \subseteq Done(B2)
  BY <1>3, <1>4 DEF Done
<1>6. A[i] < B2[i] /\ B2[i] <= Len(t) + 1 /\ B2[i] - 1 = p
  <2>1. A[i] \in Nat BY <1>1, <1>3
  <2>2. p <= Len(t) BY DEF ClosesList
  <2> QED BY <1>3, <1>4, <2>1, <2>2
<1>7. IsContainer(g, i) /\ Brackets(t, A[i], B2[i] - 1, g[i].type)
  <2>1. f.kind \in {"array", "object"} BY DEF Frames
  <2>2. Bracketed(t, A[i], p) BY DEF ClosesList
  <2>3. Brackets(t, A[i], p, f.kind)
    BY <1>3, <2>2 DEF Bracketed, Brackets, IsArray
  <2> QED BY <1>2, <1>6, <2>1, <2>3 DEF IsContainer
<1>8. ASSUME f.head = NULL PROVE B2[i] = A[i] + 2
  <2>1. p = A[i] + 1 BY <1>8 DEF ClosesList
  <2>2. A[i] \in Nat BY <1>1, <1>3
  <2> QED BY <1>4, <2>1, <2>2
<1>9. ASSUME f.head # NULL
      PROVE  /\ f.head \in Done(B2) /\ K[f.head] = i
             /\ Behind(g, t, A[i], f.head, A[f.head], A[i])
  <2>1. /\ f.head \in Done(B) /\ K[f.head] = i
        /\ A[f.head] # 0 => Behind(h, t, A[i], f.head, A[f.head], A[i])
    BY <1>9 DEF Listed, ClosesList
  <2>2. f.head # i /\ f.head \in DOMAIN h /\ A[f.head] # 0
    BY <1>1, <1>3, <2>1
  <2>3. g[f.head].string = h[f.head].string
    BY <1>2, <2>2 DEF SameBut, SameItem
  <2> QED BY <1>5, <2>1, <2>2, <2>3 DEF Behind
<1> QED BY <1>2, <1>3, <1>6, <1>7, <1>8, <1>9 DEF IsPart

\* Nothing follows the last of its elements.
LEMMA CloseEnd ==
    ASSUME NEW h, NEW f \in Frames, NEW t, NEW p \in Nat, NEW A, NEW B, NEW K,
           Listed(h, t, p, A, B, K, f), ClosesList(h, t, p, A, B, f),
           f.head # NULL => h[f.current].next = NULL, NEW q \in Nat, q = p + 1
    PROVE  EndsAt(h, B, K, f.item, q)
<1> SUFFICES ASSUME NEW j \in Done(B), K[j] = f.item
             PROVE  /\ h[j].next = NULL => q = B[j] + 1
                    /\ h[j].next # NULL => h[j].next \in Done(B)
  BY DEF EndsAt
<1>1. f.head # NULL
  BY DEF Listed
<1>2. f.current \in Done(B) /\ B[f.current] = p
  BY <1>1 DEF ClosesList
<1>3. j # f.current => h[j].next # NULL /\ h[j].next \in Done(B) \cup {f.current}
  BY <1>1 DEF Listed
<1> QED BY <1>1, <1>2, <1>3

\* parse_array and parse_object succeed.
LEMMA ClosePrints ==
    ASSUME JsonInv, GrammarInv, PrintInv, Close
    PROVE  PrintInv'
<1>1. /\ mode = "close" \/ (mode = "after" /\ stack # <<>> /\ Token = Closer)
      /\ outcome' = outcome /\ text' = text /\ root' = root /\ pos' = pos + 1
      /\ mode' = "after" /\ stack' = Front(stack) /\ heap' = CloseList(heap, Top)
  BY DEF Close
<1>2. outcome = "none" /\ mode \notin {"idle", "fail"}
  BY <1>1, NoOutcome
<1>3. PICK A, B, K : /\ Lasting(heap, text, pos, stack, root, A, B, K)
                     /\ Arrived(heap, text, pos, mode, Top, Target, A, B)
  BY <1>2, ParserIsAt
<1>4. Framed(heap, stack, root) /\ IsHeap(heap)
  BY <1>2, ParserFramed DEF Framed
<1>5. /\ stack # <<>> /\ Len(stack) \in 1 .. Len(stack) /\ Top = stack[Len(stack)]
      /\ Len(stack) \in Nat
  BY <1>1, StackType DEF JsonInv, Control
<1>6. /\ Top \in Frames /\ Top.item \in DOMAIN heap
      /\ Top.item = (IF Len(stack) = 1 THEN root ELSE stack[Len(stack) - 1].current)
      /\ \A j \in 1 .. Len(stack) : j # Len(stack) => stack[j].item # Top.item
      /\ Top.head # NULL => heap[Top.current].next = NULL
  BY <1>4, <1>5 DEF Framed
<1>7. Listed(heap, text, pos, A, B, K, Top) /\ Parts(heap, text, A, B, K)
  BY <1>3, <1>5 DEF Lasting
<1>8. pos \in Nat /\ Len(text) \in Nat
  BY TextFacts
<1>9. ClosesList(heap, text, pos, A, B, Top)
  <2>1. CASE mode = "close"
    <3>1. pos <= Len(text) /\ pos # 0
      <4>1. pos \in 1 .. Len(text) + 1 BY TextFacts
      <4> QED BY <1>8, <2>1, <4>1 DEF JsonInv, Control
    <3>2. pos \in 1 .. Len(text) BY <1>8, <3>1
    <3>3. AtClose(text, pos, Top, A) BY <1>3, <2>1 DEF Arrived
    <3> QED BY <3>2, <3>3 DEF ClosesList, AtClose
  <2>2. CASE mode = "after" /\ Token = Closer
    <3>1. pos \in 1 .. Len(text) /\ Token = text[pos] BY <2>2, TextFacts DEF Closer
    <3>2. Bracketed(text, A[Top.item], pos)
      BY <1>7, <2>2, <3>1 DEF Listed, Opens, IsArray, Closer, Bracketed
    <3>3. AtEnd(pos, Target, A, B) BY <1>3, <2>2 DEF Arrived
    <3>4. Top.head # NULL BY <1>5, <2>2 DEF JsonInv, Control
    <3>5. Target = Top.current BY <1>5 DEF Target
    <3> QED BY <3>1, <3>2, <3>3, <3>4, <3>5 DEF ClosesList, AtEnd
  <2> QED BY <1>1, <2>1, <2>2
<1>10. PICK tg, n, f, g : tg = Top.item /\ n = Len(stack) - 1 /\ f = Top /\ g = heap'
  OBVIOUS
<1>11. PICK q \in Nat : q = pos + 1
  BY <1>8
<1>12. PICK B2 : B2 = [B EXCEPT ![tg] = q]
  OBVIOUS
<1>13. f \in Frames /\ f.item \in DOMAIN heap /\ g = CloseList(heap, f) /\ tg = f.item
       /\ Listed(heap, text, pos, A, B, K, f) /\ ClosesList(heap, text, pos, A, B, f)
       /\ (f.head # NULL => heap[f.current].next = NULL)
  BY <1>1, <1>6, <1>7, <1>9, <1>10
<1>14. IsPart(g, text, A, B2, K, tg)
  <2>1. B2 = [B EXCEPT ![f.item] = q] BY <1>12, <1>13
  <2>2. IsPart(g, text, A, B2, K, f.item)
    BY <1>4, <1>7, <1>8, <1>11, <1>13, <2>1, ClosePart
  <2> QED BY <1>13, <2>2
<1>15. EndsAt(heap, B, K, tg, q)
  <2>1. EndsAt(heap, B, K, f.item, q) BY <1>8, <1>11, <1>13, CloseEnd
  <2> QED BY <1>13, <2>1
<1>16. SameBut(heap, g, tg)
  <2>1. SameBut(heap, g, f.item) BY <1>4, <1>13, CloseHeap
  <2> QED BY <1>13, <2>1
<1>17. /\ n \in Nat /\ n + 1 = Len(stack) /\ n \in 0 .. Len(stack)
       /\ \A k \in 1 .. n : k \in 1 .. Len(stack) /\ k # Len(stack)
       /\ \A k \in 1 .. Len(stack) : k <= n \/ k = Len(stack)
       /\ n = 0 <=> Len(stack) = 1
       /\ n # 0 => n \in 1 .. n
  BY <1>5, <1>10
<1>18. /\ Len(stack') = n /\ \A k \in 1 .. n : stack'[k] = stack[k]
  BY <1>1, <1>5, <1>10, StackType DEF JsonInv
<1>19. tg = InProgress(stack, root, n)
  BY <1>6, <1>10, <1>17 DEF InProgress
<1>20. tg \in Ids \ Done(B)
  BY <1>7, <1>10 DEF Listed
<1>21. PICK st2 : st2 = stack'
  OBVIOUS
<1>22. LeftOver(stack, st2, n, tg)
  BY <1>5, <1>6, <1>10, <1>17, <1>18, <1>21 DEF LeftOver
<1>23. Lasting(g, text, q, st2, root, A, B2, K)
  BY <1>3, <1>4, <1>8, <1>11, <1>12, <1>14, <1>15, <1>16, <1>17, <1>19, <1>20, <1>22,
     LastingComplete
<1>24. tg \in Done(B2) /\ B2[tg] = q
  <2>1. B \in [Ids -> Nat] BY <1>4, <1>7, PartsFacts
  <2>2. B2[tg] = q BY <1>12, <1>20, <2>1
  <2>3. q # 0 BY <1>8, <1>11
  <2> QED BY <1>20, <2>2, <2>3 DEF Done
<1>25. Target' = tg
  <2>1. CASE n = 0
    <3>1. stack' = <<>> BY <1>1, <1>5, <1>10, <2>1, <1>18, StackType DEF JsonInv
    <3> QED BY <1>1, <1>19, <2>1, <3>1 DEF Target, InProgress
  <2>2. CASE n # 0
    <3>1. stack' # <<>> /\ Top' = stack[n] BY <1>17, <1>18, <2>2 DEF Top
    <3> QED BY <1>19, <2>2, <3>1 DEF Target, InProgress
  <2> QED BY <2>1, <2>2
<1>26. Arrived(heap', text', pos', mode', Top', Target', A, B2)
  BY <1>1, <1>11, <1>24, <1>25 DEF Arrived, AtEnd
<1>27. Lasting(heap', text', pos', stack', root', A, B2, K)
  BY <1>1, <1>10, <1>11, <1>21, <1>23
<1> QED BY <1>1, <1>2, <1>26, <1>27, StillRecorded

\* A list stays what it is when the parser reads on.
LEMMA ListedLater ==
    ASSUME NEW A \in [Ids -> Nat], NEW p \in Nat, NEW q \in Nat, p <= q,
           NEW h, NEW t, NEW B, NEW K, NEW f, Listed(h, t, p, A, B, K, f)
    PROVE  Listed(h, t, q, A, B, K, f)
<1>1. f.item \in Ids /\ A[f.item] < p
  BY DEF Listed
<1>2. A[f.item] \in Nat
  BY <1>1
<1>3. A[f.item] < q
  BY <1>1, <1>2
<1> QED BY <1>3 DEF Listed

\* The loops go on after a comma.
LEMMA CommaPrints ==
    ASSUME JsonInv, GrammarInv, PrintInv, Comma
    PROVE  PrintInv'
<1>1. /\ mode = "after" /\ stack # <<>> /\ Token = "," /\ outcome' = outcome
      /\ text' = text /\ stack' = stack /\ root' = root /\ heap' = heap
      /\ pos' = pos + 1 /\ mode' = "item"
  BY DEF Comma
<1>2. outcome = "none"
  BY <1>1, NoOutcome
<1>3. PICK A, B, K : /\ Lasting(heap, text, pos, stack, root, A, B, K)
                     /\ Arrived(heap, text, pos, "after", Top, Target, A, B)
  BY <1>1, ParserIsAt
<1>4. pos \in Nat /\ pos \in 1 .. Len(text) /\ IsComma(text, pos)
  BY <1>1, TextFacts DEF IsComma
<1>5. Target = Top.current /\ Top.head # NULL
  BY <1>1 DEF Target, JsonInv, Control
<1>6. AtItem(text, pos + 1, Top, A, B)
  BY <1>3, <1>4, <1>5 DEF Arrived, AtEnd, AtItem
<1>7. PICK q \in Nat : q = pos + 1
  BY <1>4
<1>8. Lasting(heap, text, q, stack, root, A, B, K)
  <2>1. A \in [Ids -> Nat] BY <1>3 DEF Lasting, Parts, Positions
  <2>2. pos <= q BY <1>4, <1>7
  <2>3. ASSUME NEW k \in 1 .. Len(stack) PROVE Listed(heap, text, q, A, B, K, stack[k])
    <3>1. PICK f : f = stack[k] OBVIOUS
    <3>2. Listed(heap, text, pos, A, B, K, f) BY <1>3, <3>1 DEF Lasting
    <3>3. Listed(heap, text, q, A, B, K, f) BY <1>4, <2>1, <2>2, <3>2, ListedLater
    <3> QED BY <3>1, <3>3
  <2> QED BY <1>3, <2>3 DEF Lasting
<1>9. Arrived(heap', text', pos', mode', Top', Target', A, B)
  <2>1. Top' = Top BY <1>1 DEF Top
  <2> QED BY <1>1, <1>6, <2>1 DEF Arrived
<1>10. Lasting(heap', text', pos', stack', root', A, B, K)
  BY <1>1, <1>7, <1>8
<1> QED BY <1>1, <1>2, <1>9, <1>10, StillRecorded

\* parse_array and parse_object start.
LEMMA EnterPrints ==
    ASSUME JsonInv, GrammarInv, PrintInv, Enter
    PROVE  PrintInv'
<1>1. /\ mode = "value" /\ Token \in {"[", "{"} /\ outcome' = outcome
      /\ text' = text /\ pos' = pos + 1 /\ heap' = heap /\ root' = root
      /\ stack' = Append(stack, [kind |-> KindOf[Token], item |-> Target,
                                 head |-> NULL, current |-> NULL])
      /\ mode' = (IF pos < Len(text) /\ text[pos + 1] = (IF Token = "[" THEN "]" ELSE "}")
                  THEN "close" ELSE "item")
  BY DEF Enter
<1>2. outcome = "none"
  BY <1>1, NoOutcome
<1>3. PICK A, B, K : /\ Lasting(heap, text, pos, stack, root, A, B, K)
                     /\ Arrived(heap, text, pos, "value", Top, Target, A, B)
  BY <1>1, ParserIsAt
<1>4. A[Target] = pos /\ Target \notin Done(B)
  BY <1>3 DEF Arrived, AtValue
<1>5. pos \in Nat /\ pos \in 1 .. Len(text) /\ Token = text[pos] /\ Opens(text, pos)
  BY <1>1, TextFacts DEF Opens
<1>6. PICK P : Shape(P)
  BY DEF JsonInv
<1>7. Target \in DOMAIN heap /\ \A k \in 1 .. Len(stack) : stack[k].item # Target
  BY <1>1, <1>6, TargetFacts DEF JsonInv
<1>8. Framed(heap, stack, root) /\ IsHeap(heap)
  BY <1>1, ParserFramed DEF Framed
<1>9. Target \in Ids \ Done(B) /\ Target # NULL
  BY <1>4, <1>7, <1>8 DEF IsHeap, Ids, NULL
<1>10. PICK f : f = [kind |-> KindOf[Token], item |-> Target, head |-> NULL, current |-> NULL]
  OBVIOUS
<1>11. /\ f.kind = KindOf[Token] /\ f.item = Target /\ f.head = NULL /\ f.current = NULL
  BY <1>10
<1>12. /\ Len(stack) \in Nat /\ Len(stack') = Len(stack) + 1 /\ stack'[Len(stack) + 1] = f
       /\ \A k \in 1 .. Len(stack) : stack'[k] = stack[k]
       /\ \A k \in 1 .. Len(stack) + 1 : k \in 1 .. Len(stack) \/ k = Len(stack) + 1
       /\ \A k \in 1 .. Len(stack) : k \in 1 .. Len(stack) + 1
  <2>1. stack \in Seq(Frames) /\ Len(stack) \in Nat BY StackType DEF JsonInv
  <2>2. stack' = Append(stack, f) BY <1>1, <1>10
  <2>3. /\ Len(stack') = Len(stack) + 1 /\ stack'[Len(stack) + 1] = f
        /\ \A k \in 1 .. Len(stack) : stack'[k] = stack[k]
    BY <2>1, <2>2, AppendFacts
  <2> QED BY <2>1, <2>3, OneMore
<1>13. PICK q \in Nat : q = pos + 1
  BY <1>5
<1>14. Listed(heap, text, q, A, B, K, f)
  <2>1. f.kind = (IF IsArray(text, pos) THEN "array" ELSE "object")
    BY <1>1, <1>5, <1>11 DEF KindOf, IsArray
  <2>2. \A j \in Done(B) : K[j] # Target
    BY <1>3, <1>7, <1>9 DEF Lasting, Placed
  <2>3. pos # 0 /\ pos < q BY <1>5, <1>13
  <2> QED BY <1>4, <1>5, <1>9, <1>11, <2>1, <2>2, <2>3 DEF Listed
<1>15. Lasting(heap, text, q, stack', root, A, B, K)
  <2>1. A \in [Ids -> Nat] BY <1>3 DEF Lasting, Parts, Positions
  <2>2. pos <= q BY <1>5, <1>13
  <2>3. ASSUME NEW k \in 1 .. Len(stack) PROVE Listed(heap, text, q, A, B, K, stack[k])
    <3>1. PICK e : e = stack[k] OBVIOUS
    <3>2. Listed(heap, text, pos, A, B, K, e) BY <1>3, <3>1 DEF Lasting
    <3>3. Listed(heap, text, q, A, B, K, e) BY <1>5, <2>1, <2>2, <3>2, ListedLater
    <3> QED BY <3>1, <3>3
  <2>4. Placed(stack', root, A, B, K)
    <3>1. \A k \in 1 .. Len(stack) : \E m \in 1 .. Len(stack') : stack[k].item = stack'[m].item
      BY <1>12
    <3>2. Placed(stack, root, A, B, K) BY <1>3 DEF Lasting
    <3>3. ASSUME NEW j \in Done(B)
          PROVE  \/ K[j] = NULL /\ j = root
                 \/ K[j] \in Done(B)
                 \/ \E k \in 1 .. Len(stack') : K[j] = stack'[k].item
      <4>1. \/ K[j] = NULL /\ j = root
            \/ K[j] \in Done(B)
            \/ \E k \in 1 .. Len(stack) : K[j] = stack[k].item
        BY <3>2 DEF Placed
      <4>2. CASE \E k \in 1 .. Len(stack) : K[j] = stack[k].item BY <3>1, <4>2
      <4> QED BY <4>1, <4>2
    <3> QED BY <3>2, <3>3 DEF Placed
  <2> QED BY <1>3, <1>12, <1>14, <2>3, <2>4 DEF Lasting
<1>16. Arrived(heap', text', pos', mode', Top', Target', A, B)
  <2>1. Top' = f BY <1>12 DEF Top
  <2>2. A[f.item] = pos /\ q = A[f.item] + 1 BY <1>4, <1>11, <1>13
  <2>3. CASE mode' = "item"
    <3>1. AtItem(text, q, f, A, B) BY <1>11, <2>2 DEF AtItem
    <3> QED BY <1>1, <1>13, <2>1, <2>3, <3>1 DEF Arrived
  <2>4. CASE mode' = "close"
    <3>1. text[pos + 1] = (IF Token = "[" THEN "]" ELSE "}") BY <1>1, <2>4
    <3>2. Bracketed(text, pos, q) BY <1>1, <1>5, <1>13, <3>1 DEF Bracketed
    <3>3. AtClose(text, q, f, A) BY <1>11, <2>2, <3>2 DEF AtClose
    <3> QED BY <1>1, <1>13, <2>1, <2>4, <3>3 DEF Arrived
  <2> QED BY <1>1, <2>3, <2>4
<1>17. Lasting(heap', text', pos', stack', root', A, B, K)
  BY <1>1, <1>13, <1>15
<1>18. mode' \notin {"idle", "fail"}
  BY <1>1
<1> QED BY <1>1, <1>2, <1>16, <1>17, <1>18, StillRecorded

\* Item cur has got a key.
Named(h, g, cur, key) ==
    /\ DOMAIN g = DOMAIN h /\ \A i \in DOMAIN h \ {cur} : g[i] = h[i]
    /\ g[cur].next = h[cur].next /\ g[cur].string = key

\* The key is that of an item whose value has not begun: it is not printed yet.
LEMMA PartsNamed ==
    ASSUME NEW h, IsHeap(h), NEW t, NEW A, NEW B, NEW K, Parts(h, t, A, B, K),
           NEW cur \in DOMAIN h, A[cur] = 0, NEW g, NEW key, Named(h, g, cur, key)
    PROVE  Parts(g, t, A, B, K)
<1>1. /\ A \in [Ids -> Nat] /\ B \in [Ids -> Nat] /\ K \in [Ids -> Ptrs]
      /\ \A i \in Ids : A[i] # 0 => i \in DOMAIN h
      /\ \A i \in Ids : A[i] # 0 /\ K[i] # NULL =>
            A[K[i]] # 0 /\ A[K[i]] < A[i] /\ K[i] \in DOMAIN h
      /\ \A i \in Done(B) :
            /\ i \in DOMAIN h /\ i \in Ids /\ A[i] # 0
            /\ h[i].next \in Ptrs /\ h[i].child \in Ptrs
            /\ IsPart(h, t, A, B, K, i) /\ Follows(h, t, A, B, K, i)
  BY PartsFacts
<1>2. DOMAIN g = DOMAIN h /\ \A i \in DOMAIN h \ {cur} : g[i] = h[i]
  BY DEF Named
<1>3. ASSUME NEW i \in Done(B) PROVE IsPart(g, t, A, B, K, i)
  <2>1. IsPart(h, t, A, B, K, i) /\ g[i] = h[i]
    BY <1>1, <1>2
  <2>2. h[i].child \in Done(B) => g[h[i].child] = h[h[i].child]
    BY <1>1, <1>2
  <2> QED BY <2>1, <2>2 DEF IsPart, IsContainer, SpellsToken, Behind
<1>4. ASSUME NEW i \in Done(B) PROVE Follows(g, t, A, B, K, i)
  <2>1. Follows(h, t, A, B, K, i) /\ g[i] = h[i]
    BY <1>1, <1>2
  <2>2. ASSUME h[i].next # NULL, A[h[i].next] # 0
        PROVE  Behind(g, t, A[K[i]], h[i].next, A[h[i].next], B[i])
    <3>1. h[i].next \in Ids BY <1>1, <2>2 DEF Ptrs
    <3>2. h[i].next \in DOMAIN h \ {cur} BY <1>1, <2>2, <3>1
    <3>3. g[h[i].next] = h[h[i].next] BY <1>2, <3>2
    <3> QED BY <2>1, <2>2, <3>3 DEF Follows, Behind
  <2> QED BY <2>1, <2>2 DEF Follows
<1>5. Positions(g, A, B, K)
  BY <1>1, <1>2 DEF Positions
<1> QED BY <1>3, <1>4, <1>5 DEF Parts

\* See PartsNamed: nor does it matter to the lists that are read.
LEMMA ListedNamed ==
    ASSUME NEW h, IsHeap(h), NEW t, NEW A, NEW B, NEW K, Parts(h, t, A, B, K),
           NEW cur \in DOMAIN h, A[cur] = 0, NEW g, NEW key, Named(h, g, cur, key),
           NEW p, NEW f \in Frames, Listed(h, t, p, A, B, K, f)
    PROVE  Listed(g, t, p, A, B, K, f)
<1>1. /\ \A i \in Ids : A[i] # 0 => i \in DOMAIN h
      /\ \A i \in Done(B) : i \in DOMAIN h /\ i \in Ids /\ A[i] # 0
  BY PartsFacts
<1>2. \A i \in DOMAIN h \ {cur} : g[i] = h[i]
  BY DEF Named
<1>3. \A j \in Done(B) : g[j] = h[j]
  BY <1>1, <1>2
<1>4. f.head # NULL => f.head \in Ids
  BY DEF Frames, Ptrs
<1>5. ASSUME f.head # NULL, A[f.head] # 0
      PROVE  Behind(g, t, A[f.item], f.head, A[f.head], A[f.item])
  <2>1. g[f.head] = h[f.head] BY <1>1, <1>2, <1>4, <1>5
  <2> QED BY <1>5, <2>1 DEF Listed, Behind
<1> QED BY <1>3, <1>5 DEF Listed

\* The frames of a stack, which fill in different items.
Distinct(st) ==
    \A k \in 1 .. Len(st) :
        st[k] \in Frames /\ \A j \in 1 .. Len(st) : j # k => st[j].item # st[k].item

\* The value of the last element of a list begins at q.
BeginsValue(h, t, A, B, A2, f, d, q) ==
    /\ Member(h, A, B, f, d) /\ Behind(h, t, A[f.item], f.current, q, d)
    /\ q \in Nat /\ f.current \in DOMAIN h /\ A2 = [A EXCEPT ![f.current] = q]

\* See BeginsValue: what follows of the items that are complete.
LEMMA PartsBegun ==
    ASSUME NEW h, IsHeap(h), NEW t, NEW A, NEW B, NEW K, Parts(h, t, A, B, K),
           NEW p \in Nat, NEW f, Listed(h, t, p, A, B, K, f), NEW d, NEW q, p <= q,
           NEW A2, BeginsValue(h, t, A, B, A2, f, d, q)
    PROVE  Parts(h, t, A2, B, K)
<1> PICK cur, i : cur = f.current /\ i = f.item
  OBVIOUS
<1>0. /\ Member(h, A, B, f, d) /\ Behind(h, t, A[i], cur, q, d)
      /\ q \in Nat /\ cur \in DOMAIN h /\ A2 = [A EXCEPT ![cur] = q] /\ cur \in Ids
  BY DEF BeginsValue, IsHeap
<1>1. /\ A \in [Ids -> Nat] /\ B \in [Ids -> Nat] /\ K \in [Ids -> Ptrs]
      /\ \A j \in Ids : A[j] # 0 => j \in DOMAIN h
      /\ \A j \in Ids : A[j] # 0 /\ K[j] # NULL =>
            A[K[j]] # 0 /\ A[K[j]] < A[j] /\ K[j] \in DOMAIN h
      /\ \A j \in Done(B) :
            /\ j \in DOMAIN h /\ j \in Ids /\ A[j] # 0
            /\ h[j].next \in Ptrs /\ h[j].child \in Ptrs
            /\ IsPart(h, t, A, B, K, j) /\ Follows(h, t, A, B, K, j)
  BY PartsFacts
<1>2. /\ A[cur] = 0 /\ K[cur] = i /\ i \in Ids /\ A[i] # 0 /\ A[i] < q
      /\ \A j \in Done(B) : h[j].next = cur => B[j] = d
  <2>1. A[cur] = 0 /\ \A j \in Done(B) : h[j].next = cur => B[j] = d
    BY <1>0 DEF Member
  <2>2. K[cur] = i /\ i \in Ids /\ A[i] # 0 /\ A[i] < p
    BY <1>0 DEF Listed, Member
  <2>3. A[i] < q
    <3>1. A[i] \in Nat BY <1>1, <2>2
    <3> QED BY <1>0, <2>2, <3>1
  <2> QED BY <2>1, <2>2, <2>3
<1>3. /\ A2 \in [Ids -> Nat] /\ A2[cur] = q /\ i # cur
      /\ \A j \in Ids : j # cur => A2[j] = A[j]
  BY <1>0, <1>1, <1>2
<1>4. \A j \in Done(B) : j # cur /\ A2[j] = A[j]
  BY <1>1, <1>2, <1>3
<1>5. ASSUME NEW j \in Ids, A2[j] # 0
      PROVE  j \in DOMAIN h /\ (K[j] # NULL => A2[K[j]] # 0 /\ A2[K[j]] < A2[j])
  <2>1. CASE j = cur BY <1>0, <1>2, <1>3, <2>1
  <2>2. CASE j # cur
    <3>1. A[j] # 0 /\ A2[j] = A[j] BY <1>3, <1>5, <2>2
    <3>2. ASSUME K[j] # NULL PROVE A2[K[j]] = A[K[j]]
      <4>1. K[j] \in Ids /\ A[K[j]] # 0 BY <1>1, <3>1, <3>2 DEF Ptrs
      <4> QED BY <1>2, <1>3, <4>1
    <3> QED BY <1>1, <3>1, <3>2
  <2> QED BY <2>1, <2>2
<1>6. ASSUME NEW j \in Done(B) PROVE IsPart(h, t, A2, B, K, j)
  <2>1. IsPart(h, t, A, B, K, j) /\ A2[j] = A[j]
    BY <1>1, <1>4
  <2>2. h[j].child \in Done(B) => A2[h[j].child] = A[h[j].child]
    BY <1>4
  <2> QED BY <2>1, <2>2 DEF IsPart
<1>7. ASSUME NEW j \in Done(B) PROVE Follows(h, t, A2, B, K, j)
  <2>1. Follows(h, t, A, B, K, j)
    BY <1>1
  <2>2. ASSUME h[j].next # NULL, A2[h[j].next] # 0
        PROVE  Behind(h, t, A2[K[j]], h[j].next, A2[h[j].next], B[j])
    <3>1. h[j].next \in Ids /\ K[h[j].next] = K[j]
      BY <1>1, <2>1, <2>2 DEF Ptrs, Follows
    <3>2. CASE h[j].next = cur
      <4>1. K[j] = i /\ A2[i] = A[i] /\ B[j] = d BY <1>2, <1>3, <3>1, <3>2
      <4> QED BY <1>0, <1>3, <3>2, <4>1
    <3>3. CASE h[j].next # cur
      <4>1. A[h[j].next] # 0 /\ A2[h[j].next] = A[h[j].next] BY <1>3, <2>2, <3>1, <3>3
      <4>2. Behind(h, t, A[K[j]], h[j].next, A[h[j].next], B[j])
        BY <2>1, <2>2, <4>1 DEF Follows
      <4>3. K[j] # cur
        <5>1. K[j] # NULL => A[K[j]] # 0 BY <1>1
        <5>2. cur # NULL BY <1>0 DEF Ids, NULL
        <5> QED BY <1>2, <5>1, <5>2
      <4>4. A2[K[j]] = A[K[j]]
        <5>1. K[j] \in Ids BY <1>1, <2>1, <2>2 DEF Ptrs, Follows
        <5> QED BY <1>3, <4>3, <5>1
      <4> QED BY <4>1, <4>2, <4>4
    <3> QED BY <3>2, <3>3
  <2> QED BY <2>1, <2>2 DEF Follows
<1>8. Positions(h, A2, B, K)
  BY <1>1, <1>3, <1>5 DEF Positions
<1> QED BY <1>6, <1>7, <1>8 DEF Parts

\* See BeginsValue: what follows of the list of a frame f2, which may be f.
LEMMA ListedBegun ==
    ASSUME NEW h, IsHeap(h), NEW t, NEW A, NEW B, NEW K, Parts(h, t, A, B, K),
           NEW p \in Nat, NEW f, Listed(h, t, p, A, B, K, f), NEW d, NEW q, p <= q,
           NEW A2, BeginsValue(h, t, A, B, A2, f, d, q),
           NEW f2 \in Frames, Listed(h, t, p, A, B, K, f2),
           f2.item = f.item => f2 = f
    PROVE  Listed(h, t, q, A2, B, K, f2)
<1> PICK cur, i : cur = f.current /\ i = f.item
  OBVIOUS
<1>0. /\ Member(h, A, B, f, d) /\ Behind(h, t, A[i], cur, q, d)
      /\ q \in Nat /\ cur \in DOMAIN h /\ A2 = [A EXCEPT ![cur] = q] /\ cur \in Ids
  BY DEF BeginsValue, IsHeap
<1>1. A \in [Ids -> Nat]
  BY DEF Parts, Positions
<1>2. A2[cur] = q /\ \A j \in Ids : j # cur => A2[j] = A[j]
  BY <1>0, <1>1
<1>3. /\ f2.item \in Ids \ Done(B) /\ A[f2.item] # 0 /\ A[f2.item] < p
      /\ Opens(t, A[f2.item])
      /\ f2.kind = (IF IsArray(t, A[f2.item]) THEN "array" ELSE "object")
      /\ f2.head = NULL => \A j \in Done(B) : K[j] # f2.item
  BY DEF Listed
<1>4. A[cur] = 0 /\ K[cur] = i /\ (f.head = f.current => d = A[f.item])
  BY <1>0 DEF Member, Listed
<1>5. A2[f2.item] = A[f2.item] /\ A2[f2.item] < q
  <2>1. A2[f2.item] = A[f2.item] BY <1>2, <1>3, <1>4
  <2>2. A[f2.item] \in Nat BY <1>1, <1>3
  <2>3. A[f2.item] < q BY <1>0, <1>3, <2>2
  <2> QED BY <2>1, <2>3
<1>6. ASSUME f2.head # NULL
      PROVE  /\ f2.head \in Done(B) \cup {f2.current}
             /\ K[f2.head] = f2.item /\ K[f2.current] = f2.item
             /\ \A j \in Done(B) : K[j] = f2.item /\ j # f2.current =>
                   h[j].next # NULL /\ h[j].next \in Done(B) \cup {f2.current}
  BY <1>6 DEF Listed
<1>7. ASSUME f2.head # NULL, A2[f2.head] # 0
      PROVE  Behind(h, t, A2[f2.item], f2.head, A2[f2.head], A2[f2.item])
  <2>1. f2.head \in Ids BY <1>7 DEF Frames, Ptrs
  <2>2. CASE f2.head # cur
    <3>1. A2[f2.head] = A[f2.head] BY <1>2, <2>1, <2>2
    <3> QED BY <1>5, <1>7, <3>1 DEF Listed
  <2>3. CASE f2.head = cur
    <3>1. f2.item = i BY <1>4, <1>6, <1>7, <2>3
    <3>2. f2 = f BY <3>1
    <3>3. d = A[i] BY <1>4, <2>3, <3>2
    <3> QED BY <1>0, <1>2, <1>5, <2>3, <3>1, <3>3
  <2> QED BY <2>2, <2>3
<1> QED BY <1>3, <1>5, <1>6, <1>7 DEF Listed

\* See BeginsValue: the parser is at a value.
LEMMA BeginsThere ==
    ASSUME NEW h, IsHeap(h), NEW t, NEW A, NEW B, NEW K, Parts(h, t, A, B, K),
           NEW f, NEW d, NEW q, NEW A2, BeginsValue(h, t, A, B, A2, f, d, q),
           NEW i, i = f.current
    PROVE  AtValue(q, i, A2, B)
<1>1. A[i] = 0 /\ i \in Ids /\ A2 = [A EXCEPT ![i] = q] /\ A \in [Ids -> Nat]
  BY DEF BeginsValue, Member, IsHeap, Parts, Positions
<1>2. A2[i] = q
  BY <1>1
<1>3. \A j \in Done(B) : A[j] # 0
  BY DEF Parts, IsPart
<1> QED BY <1>1, <1>2, <1>3 DEF AtValue

\* The value of the last element of the innermost list begins at q.
LEMMA LastingBegun ==
    ASSUME NEW h, IsHeap(h), NEW t, NEW p \in Nat, NEW st, NEW r, NEW A, NEW B, NEW K,
           Lasting(h, t, p, st, r, A, B, K), Distinct(st),
           NEW n \in 1 .. Len(st), NEW f, f = st[n], NEW d, NEW q, p <= q,
           NEW A2, BeginsValue(h, t, A, B, A2, f, d, q)
    PROVE  Lasting(h, t, q, st, r, A2, B, K)
<1>1. /\ Parts(h, t, A, B, K) /\ Placed(st, r, A, B, K) /\ Listed(h, t, p, A, B, K, f)
  BY DEF Lasting
<1>2. Parts(h, t, A2, B, K)
  BY <1>1, PartsBegun
<1>3. /\ A[f.current] = 0 /\ f.current \in Ids /\ A2 = [A EXCEPT ![f.current] = q]
      /\ A \in [Ids -> Nat]
  BY <1>1 DEF BeginsValue, Member, IsHeap, Parts, Positions
<1>4. r \in Ids /\ A[r] = 1 /\ r # f.current
  BY <1>1, <1>3 DEF Placed
<1>5. Placed(st, r, A2, B, K)
  <2>1. A2[r] = 1 BY <1>3, <1>4
  <2> QED BY <1>1, <2>1 DEF Placed
<1>6. ASSUME NEW k \in 1 .. Len(st) PROVE Listed(h, t, q, A2, B, K, st[k])
  <2>1. PICK f2 : f2 = st[k] OBVIOUS
  <2>2. f2 \in Frames /\ Listed(h, t, p, A, B, K, f2) BY <2>1 DEF Distinct, Lasting
  <2>3. f2.item = f.item => f2 = f BY <2>1 DEF Distinct
  <2>4. Listed(h, t, q, A2, B, K, f2) BY <1>1, <2>2, <2>3, ListedBegun
  <2> QED BY <2>1, <2>4
<1> QED BY <1>2, <1>5, <1>6 DEF Lasting

\* The frames of the parser fill in different items.
LEMMA FramesDiffer ==
    ASSUME NEW h, NEW st, NEW r, Framed(h, st, r)
    PROVE  Distinct(st)
  BY DEF Framed, Distinct

\* See PartsNamed, with the position of the parser behind the key.
LEMMA LastingNamed ==
    ASSUME NEW h, IsHeap(h), NEW t, NEW p \in Nat, NEW q \in Nat, p <= q, NEW st, Distinct(st),
           NEW r, NEW A, NEW B, NEW K, Lasting(h, t, p, st, r, A, B, K),
           NEW cur \in DOMAIN h, A[cur] = 0, NEW g, NEW key, Named(h, g, cur, key)
    PROVE  Lasting(g, t, q, st, r, A, B, K)
<1>1. Parts(h, t, A, B, K) /\ A \in [Ids -> Nat]
  BY DEF Lasting, Parts, Positions
<1>2. Parts(g, t, A, B, K)
  BY <1>1, PartsNamed
<1>3. ASSUME NEW k \in 1 .. Len(st) PROVE Listed(g, t, q, A, B, K, st[k])
  <2>1. PICK f : f = st[k] OBVIOUS
  <2>2. f \in Frames /\ Listed(h, t, p, A, B, K, f) BY <2>1 DEF Distinct, Lasting
  <2>3. Listed(g, t, p, A, B, K, f) BY <1>1, <2>2, ListedNamed
  <2>4. Listed(g, t, q, A, B, K, f) BY <1>1, <2>3, ListedLater
  <2> QED BY <2>1, <2>4
<1> QED BY <1>2, <1>3 DEF Lasting

\* The last element is the same when it has a key.
LEMMA MemberNamed ==
    ASSUME NEW h, IsHeap(h), NEW t, NEW A, NEW B, NEW K, Parts(h, t, A, B, K), NEW f, NEW d,
           Member(h, A, B, f, d), NEW g, NEW key, Named(h, g, f.current, key)
    PROVE  Member(g, A, B, f, d)
<1>1. \A i \in Done(B) : i \in DOMAIN h /\ A[i] # 0
  BY PartsFacts
<1>2. \A i \in Done(B) : g[i] = h[i]
  BY <1>1 DEF Named, Member
<1> QED BY <1>2 DEF Member

\* parse_object has read a key.
LEMMA NamePrints ==
    ASSUME JsonInv, GrammarInv, PrintInv, parse_name
    PROVE  PrintInv'
<1>1. /\ mode = "name" /\ Token \in Strings /\ outcome' = outcome /\ outcome = "none"
      /\ text' = text /\ root' = root /\ stack' = stack /\ mode' \in {"colon", "fail"}
  BY NoOutcome DEF parse_name, OutOfMemory
<1>2. CASE mode' = "fail"
  BY <1>1, <1>2, NothingRead
<1>3. CASE mode' = "colon"
  <2>1. /\ pos' = pos + 1
        /\ heap' = [heap EXCEPT ![Top.current].string = Token, ![Top.current].type = "string"]
    BY <1>3 DEF parse_name, OutOfMemory
  <2>2. PICK A, B, K : /\ Lasting(heap, text, pos, stack, root, A, B, K)
                       /\ Arrived(heap, text, pos, "name", Top, Target, A, B)
    BY <1>1, ParserIsAt
  <2>3. Top.kind = "object"
    BY <2>2 DEF Arrived, AtName
  <2>4. PICK d \in 1 .. pos : pos = d + 1 /\ Member(heap, A, B, Top, d)
    BY <2>2 DEF Arrived, AtName
  <2>5. pos \in Nat /\ pos \in 1 .. Len(text) /\ Token = text[pos] /\ Token # "none"
    <3>1. Token # "end" /\ Token # "none" BY <1>1, JsonAssumption
    <3> QED BY <3>1, TextFacts
  <2>6. Framed(heap, stack, root) /\ IsHeap(heap) /\ Distinct(stack)
    BY <1>1, ParserFramed, FramesDiffer DEF Framed
  <2>7. Top.current \in DOMAIN heap
    BY <1>1 DEF JsonInv, Control, Target
  <2>8. PICK f, g : f = Top /\ g = heap'
    OBVIOUS
  <2>9. Named(heap, g, f.current, Token)
    <3>1. PICK cur, tok : cur = f.current /\ tok = Token OBVIOUS
    <3>2. heap[cur] \in Item /\ cur \in DOMAIN heap BY <2>6, <2>7, <2>8, <3>1 DEF IsHeap
    <3>3. g = [heap EXCEPT ![cur].string = tok, ![cur].type = "string"]
      BY <2>1, <2>8, <3>1
    <3>4. DOMAIN g = DOMAIN heap /\ \A i \in DOMAIN heap \ {cur} : g[i] = heap[i]
      BY <3>3
    <3>5. g[cur] = [heap[cur] EXCEPT !.string = tok, !.type = "string"]
      BY <3>2, <3>3
    <3>6. g[cur].next = heap[cur].next /\ g[cur].string = tok
      BY <3>2, <3>5 DEF Item
    <3>7. Named(heap, g, cur, tok) BY <3>4, <3>6 DEF Named
    <3> QED BY <3>1, <3>7
  <2>10. PICK q \in Nat : q = pos + 1
    BY <2>5
  <2>11. Lasting(g, text, q, stack, root, A, B, K)
    <3>1. PICK cur, tok : cur = f.current /\ tok = Token OBVIOUS
    <3>2. cur \in DOMAIN heap /\ A[cur] = 0 /\ Named(heap, g, cur, tok)
      BY <2>4, <2>7, <2>8, <2>9, <3>1 DEF Member
    <3>3. pos <= q BY <2>5, <2>10
    <3> QED BY <2>2, <2>5, <2>6, <3>2, <3>3, LastingNamed
  <2>12. Member(g, A, B, f, d)
    <3>1. PICK tok : tok = Token OBVIOUS
    <3>2. Named(heap, g, f.current, tok) BY <2>9, <3>1
    <3>3. Parts(heap, text, A, B, K) BY <2>2 DEF Lasting
    <3>4. Member(heap, A, B, f, d) BY <2>4, <2>8
    <3> QED BY <2>6, <3>2, <3>3, <3>4, MemberNamed
  <2>13. AtColon(g, text, q, f, A, B)
    <3>1. d \in 1 .. q /\ q = d + 2 /\ d + 1 = pos BY <2>4, <2>5, <2>10
    <3>2. g[f.current].string = Token BY <2>9 DEF Named
    <3>3. text[d + 1] = g[f.current].string BY <2>5, <3>1, <3>2
    <3>4. g[f.current].string # "none" BY <2>5, <3>2
    <3> QED BY <2>3, <2>8, <2>12, <3>1, <3>3, <3>4 DEF AtColon
  <2>14. Top' = Top
    BY <1>1 DEF Top
  <2>15. Arrived(heap', text', pos', mode', Top', Target', A, B)
    BY <1>1, <1>3, <2>1, <2>8, <2>10, <2>13, <2>14 DEF Arrived
  <2>16. Lasting(heap', text', pos', stack', root', A, B, K)
    BY <1>1, <2>1, <2>8, <2>10, <2>11
  <2> QED BY <1>1, <1>3, <2>15, <2>16, StillRecorded
<1> QED BY <1>1, <1>2, <1>3

\* parse_object has read a colon, behind which the value begins.
LEMMA ColonPrints ==
    ASSUME JsonInv, GrammarInv, PrintInv, Colon
    PROVE  PrintInv'
<1>1. /\ mode = "colon" /\ Token = ":" /\ outcome' = outcome /\ outcome = "none"
      /\ text' = text /\ root' = root /\ stack' = stack /\ heap' = heap
      /\ pos' = pos + 1 /\ mode' = "value" /\ stack # <<>>
  BY NoOutcome DEF Colon, JsonInv, Control
<1>2. PICK A, B, K : /\ Lasting(heap, text, pos, stack, root, A, B, K)
                     /\ Arrived(heap, text, pos, "colon", Top, Target, A, B)
  BY <1>1, ParserIsAt
<1>3. PICK f, n : f = Top /\ n = Len(stack)
  OBVIOUS
<1>4. n \in 1 .. Len(stack) /\ f = stack[n] /\ Target = f.current
  BY <1>1, <1>3, TargetIs DEF Target
<1>5. AtColon(heap, text, pos, f, A, B)
  BY <1>2, <1>3 DEF Arrived
<1>6. f.kind = "object"
  BY <1>5 DEF AtColon
<1>7. PICK d \in 1 .. pos : /\ pos = d + 2 /\ Member(heap, A, B, f, d)
                            /\ text[d + 1] = heap[f.current].string
                            /\ heap[f.current].string # "none"
  BY <1>5 DEF AtColon
<1>8. pos \in Nat /\ text[pos] = ":"
  BY <1>1, TextFacts
<1>9. PICK q \in Nat : q = pos + 1
  BY <1>8
<1>10. q = d + 3 /\ pos <= q /\ d + 2 = pos
  BY <1>7, <1>8, <1>9
<1>11. Behind(heap, text, A[f.item], f.current, q, d)
  <2>1. Listed(heap, text, pos, A, B, K, f) BY <1>2, <1>4 DEF Lasting
  <2>2. ~IsArray(text, A[f.item]) BY <1>6, <2>1 DEF Listed
  <2>3. text[d + 2] = ":" BY <1>8, <1>10
  <2> QED BY <1>7, <1>10, <2>2, <2>3 DEF Behind
<1>12. PICK A2 : A2 = [A EXCEPT ![f.current] = q]
  OBVIOUS
<1>13. f.current \in DOMAIN heap
  BY <1>1, <1>4 DEF JsonInv, Control
<1>14. BeginsValue(heap, text, A, B, A2, f, d, q)
  BY <1>7, <1>9, <1>11, <1>12, <1>13 DEF BeginsValue
<1>15. Framed(heap, stack, root) /\ IsHeap(heap) /\ Distinct(stack)
  BY <1>1, ParserFramed, FramesDiffer DEF Framed
<1>16. Lasting(heap, text, q, stack, root, A2, B, K)
  BY <1>2, <1>4, <1>8, <1>10, <1>14, <1>15, LastingBegun
<1>17. AtValue(q, f.current, A2, B)
  <2>1. Parts(heap, text, A, B, K) BY <1>2 DEF Lasting
  <2>2. PICK i : i = f.current OBVIOUS
  <2>3. AtValue(q, i, A2, B) BY <1>14, <1>15, <2>1, <2>2, BeginsThere
  <2> QED BY <2>2, <2>3
<1>18. Target' = Target
  BY <1>1 DEF Target, Top
<1>19. Arrived(heap', text', pos', mode', Top', Target', A2, B)
  BY <1>1, <1>4, <1>9, <1>17, <1>18 DEF Arrived
<1>20. Lasting(heap', text', pos', stack', root', A2, B, K)
  BY <1>1, <1>9, <1>16
<1> QED BY <1>1, <1>19, <1>20, StillRecorded

\* Item new is allocated, as the last of the list of frame f.
ItemAppended(h, g, f, new) ==
    /\ new \in Ids /\ new \notin DOMAIN h /\ DOMAIN g = DOMAIN h \cup {new}
    /\ g[new].next = NULL
    /\ \A i \in DOMAIN h :
          /\ g[i].type = h[i].type /\ g[i].child = h[i].child
          /\ g[i].string = h[i].string /\ g[i].valuestring = h[i].valuestring
          /\ g[i].next = IF f.head # NULL /\ i = f.current THEN new ELSE h[i].next
\* next never leads to an item that has been freed.
Links(h) == \A i \in DOMAIN h : h[i].next \in DOMAIN h \cup {NULL}

\* A new item changes nothing of the items that are complete.
LEMMA PartsAppended ==
    ASSUME NEW h, IsHeap(h), Links(h), NEW t, NEW A, NEW B, NEW K, Parts(h, t, A, B, K),
           NEW p \in Nat, NEW f, Listed(h, t, p, A, B, K, f), AtItem(t, p, f, A, B),
           NEW g, NEW new, ItemAppended(h, g, f, new), NEW K2, K2 = [K EXCEPT ![new] = f.item]
    PROVE  Parts(g, t, A, B, K2)
<1>1. /\ A \in [Ids -> Nat] /\ B \in [Ids -> Nat] /\ K \in [Ids -> Ptrs]
      /\ \A j \in Ids : A[j] # 0 => j \in DOMAIN h
      /\ \A j \in Ids : A[j] # 0 /\ K[j] # NULL =>
            A[K[j]] # 0 /\ A[K[j]] < A[j] /\ K[j] \in DOMAIN h
      /\ \A j \in Done(B) :
            /\ j \in DOMAIN h /\ j \in Ids /\ A[j] # 0
            /\ h[j].next \in Ptrs /\ h[j].child \in Ptrs
            /\ IsPart(h, t, A, B, K, j) /\ Follows(h, t, A, B, K, j)
  BY PartsFacts
<1>2. /\ new \in Ids /\ new \notin DOMAIN h /\ DOMAIN g = DOMAIN h \cup {new}
      /\ \A i \in DOMAIN h :
            /\ g[i].type = h[i].type /\ g[i].child = h[i].child
            /\ g[i].string = h[i].string /\ g[i].valuestring = h[i].valuestring
            /\ g[i].next = IF f.head # NULL /\ i = f.current THEN new ELSE h[i].next
  BY DEF ItemAppended
<1>3. f.item \in Ids /\ f.item \notin Done(B) /\ f.item # NULL
  BY DEF Listed, Ids, NULL
<1>4. /\ K2 \in [Ids -> Ptrs] /\ K2[new] = f.item
      /\ \A j \in Ids : j # new => K2[j] = K[j]
  <2>1. f.item \in Ptrs BY <1>3 DEF Ptrs
  <2> QED BY <1>1, <1>2, <2>1
<1>5. A[new] = 0 /\ new # NULL /\ \A j \in DOMAIN h : j # new
  BY <1>1, <1>2 DEF Ids, NULL
<1>6. \A j \in Done(B) : K2[j] = K[j] /\ j \in DOMAIN h
  BY <1>1, <1>4, <1>5
<1>7. ASSUME NEW i \in Done(B) PROVE IsPart(g, t, A, B, K2, i)
  <2>1. /\ IsPart(h, t, A, B, K, i) /\ g[i].type = h[i].type /\ g[i].child = h[i].child
        /\ g[i].valuestring = h[i].valuestring
    BY <1>1, <1>2
  <2>2. h[i].child \in Done(B) => /\ g[h[i].child].string = h[h[i].child].string
                                  /\ K2[h[i].child] = K[h[i].child]
    BY <1>2, <1>6
  <2> QED BY <2>1, <2>2 DEF IsPart, IsContainer, SpellsToken, Behind
<1>8. ASSUME NEW j \in Done(B) PROVE Follows(g, t, A, B, K2, j)
  <2>1. Follows(h, t, A, B, K, j) /\ K2[j] = K[j] /\ j \in DOMAIN h
    BY <1>1, <1>6
  <2>2. CASE f.head # NULL /\ j = f.current
    <3>1. g[j].next = new BY <1>2, <2>1, <2>2
    <3>2. IsComma(t, B[j]) BY <2>2 DEF AtItem
    <3>3. K[j] = f.item BY <2>2 DEF Listed
    <3> QED BY <1>3, <1>4, <1>5, <2>1, <3>1, <3>2, <3>3 DEF Follows
  <2>3. CASE ~(f.head # NULL /\ j = f.current)
    <3>1. g[j].next = h[j].next BY <1>2, <2>1, <2>3
    <3>2. ASSUME h[j].next # NULL
          PROVE  /\ K2[h[j].next] = K[h[j].next] /\ h[j].next \in DOMAIN h
                 /\ g[h[j].next].string = h[h[j].next].string
      <4>1. h[j].next \in DOMAIN h BY <2>1, <3>2 DEF Links
      <4>2. h[j].next \in Ids /\ h[j].next # new BY <1>2, <4>1 DEF IsHeap
      <4> QED BY <1>2, <1>4, <4>1, <4>2
    <3>3. ASSUME h[j].next # NULL, A[h[j].next] # 0
          PROVE  Behind(g, t, A[K[j]], h[j].next, A[h[j].next], B[j])
      BY <2>1, <3>2, <3>3 DEF Follows, Behind
    <3> QED BY <2>1, <3>1, <3>2, <3>3 DEF Follows
  <2> QED BY <2>2, <2>3
<1>9. Positions(g, A, B, K2)
  <2>1. \A j \in Ids : A[j] # 0 => j \in DOMAIN g /\ K2[j] = K[j]
    BY <1>1, <1>2, <1>4, <1>5
  <2> QED BY <1>1, <1>4, <2>1 DEF Positions
<1> QED BY <1>7, <1>8, <1>9 DEF Parts

\* Frame f2 is another than f, with a list of its own.
OtherFrame(h, f, f2) ==
    /\ f2.item # f.item
    /\ f2.head # NULL => f2.head \in DOMAIN h /\ f2.current \in DOMAIN h

\* The parents once the new item is in the list of frame f.
Adopts(K, K2, f, new) == K2 = [K EXCEPT ![new] = f.item]

\* ... nor of the lists that are read further down.
LEMMA OthersAppended ==
    ASSUME NEW h, IsHeap(h), NEW t, NEW A, NEW B, NEW K, Parts(h, t, A, B, K),
           NEW p, NEW f, Listed(h, t, p, A, B, K, f),
           NEW g, NEW new, ItemAppended(h, g, f, new), NEW K2, Adopts(K, K2, f, new),
           NEW f2, Listed(h, t, p, A, B, K, f2), OtherFrame(h, f, f2)
    PROVE  Listed(g, t, p, A, B, K2, f2)
<1>0. /\ f2.item # f.item
      /\ f2.head # NULL => f2.head \in DOMAIN h /\ f2.current \in DOMAIN h
  BY DEF OtherFrame
<1>1. /\ K \in [Ids -> Ptrs] /\ \A j \in Done(B) : j \in DOMAIN h /\ j \in Ids
  BY PartsFacts
<1>2. /\ new \in Ids /\ new \notin DOMAIN h
      /\ \A i \in DOMAIN h :
            /\ g[i].string = h[i].string
            /\ g[i].next = IF f.head # NULL /\ i = f.current THEN new ELSE h[i].next
  BY DEF ItemAppended
<1>3. \A j \in DOMAIN h : K2[j] = K[j]
  <2>1. \A j \in DOMAIN h : j \in Ids /\ j # new BY <1>2 DEF IsHeap
  <2>2. K2 = [K EXCEPT ![new] = f.item] BY DEF Adopts
  <2> QED BY <1>1, <2>1, <2>2
<1>4. \A j \in Done(B) : K2[j] = K[j]
  BY <1>1, <1>3
<1>5. ASSUME f2.head # NULL
      PROVE  /\ K2[f2.head] = f2.item /\ K2[f2.current] = f2.item
             /\ A[f2.head] # 0 => Behind(g, t, A[f2.item], f2.head, A[f2.head], A[f2.item])
             /\ \A j \in Done(B) : K2[j] = f2.item /\ j # f2.current =>
                   g[j].next # NULL /\ g[j].next \in Done(B) \cup {f2.current}
  <2>1. /\ K[f2.head] = f2.item /\ K[f2.current] = f2.item
        /\ A[f2.head] # 0 => Behind(h, t, A[f2.item], f2.head, A[f2.head], A[f2.item])
        /\ \A j \in Done(B) : K[j] = f2.item /\ j # f2.current =>
              h[j].next # NULL /\ h[j].next \in Done(B) \cup {f2.current}
    BY <1>5 DEF Listed
  <2>2. K2[f2.head] = f2.item /\ K2[f2.current] = f2.item
    BY <1>0, <1>3, <1>5, <2>1
  <2>3. A[f2.head] # 0 => Behind(g, t, A[f2.item], f2.head, A[f2.head], A[f2.item])
    <3>1. g[f2.head].string = h[f2.head].string BY <1>0, <1>2, <1>5
    <3> QED BY <2>1, <3>1 DEF Behind
  <2>4. f.head # NULL => K[f.current] = f.item
    BY DEF Listed
  <2>5. ASSUME NEW j \in Done(B), K2[j] = f2.item, j # f2.current
        PROVE  g[j].next # NULL /\ g[j].next \in Done(B) \cup {f2.current}
    <3>1. K[j] = f2.item BY <1>4, <2>5
    <3>2. ~(f.head # NULL /\ j = f.current) BY <1>0, <2>4, <3>1
    <3>3. g[j].next = h[j].next BY <1>1, <1>2, <3>2
    <3> QED BY <2>1, <2>5, <3>1, <3>3
  <2> QED BY <2>2, <2>3, <2>5
<1> QED BY <1>4, <1>5 DEF Listed

\* Frame f2 is frame f with the new item.
Longer(f, f2, new) ==
    /\ f2.item = f.item /\ f2.kind = f.kind /\ f2.current = new
    /\ f2.head = IF f.head = NULL THEN new ELSE f.head
\* ... and takes its place, the n-th.
Lengthens(st, st2, n, f, f2) ==
    /\ n \in 1 .. Len(st) /\ f = st[n] /\ Len(st2) = Len(st)
    /\ \A k \in 1 .. Len(st) : st2[k] = IF k = n THEN f2 ELSE st[k]

\* The list that the new item is in.
LEMMA ListedAppended ==
    ASSUME NEW h, IsHeap(h), NEW t, NEW A, NEW B, NEW K, Parts(h, t, A, B, K),
           NEW p, NEW f, Listed(h, t, p, A, B, K, f), AtItem(t, p, f, A, B),
           NEW g, NEW new, ItemAppended(h, g, f, new), NEW K2, K2 = [K EXCEPT ![new] = f.item],
           NEW f2, Longer(f, f2, new), f.head # NULL => f.head \in DOMAIN h
    PROVE  Listed(g, t, p, A, B, K2, f2)
<1>1. /\ K \in [Ids -> Ptrs] /\ \A j \in Done(B) : j \in DOMAIN h /\ j \in Ids
      /\ \A j \in Ids : A[j] # 0 => j \in DOMAIN h
  BY PartsFacts
<1>2. /\ new \in Ids /\ new \notin DOMAIN h /\ new # NULL
      /\ \A i \in DOMAIN h :
            /\ g[i].string = h[i].string
            /\ g[i].next = IF f.head # NULL /\ i = f.current THEN new ELSE h[i].next
  BY DEF ItemAppended, Ids, NULL
<1>3. /\ K2[new] = f.item /\ \A j \in DOMAIN h : K2[j] = K[j] /\ j # new
  <2>1. \A j \in DOMAIN h : j \in Ids /\ j # new BY <1>2 DEF IsHeap
  <2> QED BY <1>1, <1>2, <2>1
<1>4. A[new] = 0
  BY <1>1, <1>2
<1>5. /\ f2.item = f.item /\ f2.kind = f.kind /\ f2.current = new
      /\ f2.head = IF f.head = NULL THEN new ELSE f.head
  BY DEF Longer
<1>6. f2.head # NULL /\ f2.head \in Done(B) \cup {new} /\ K2[f2.head] = f.item
  <2>1. CASE f.head = NULL BY <1>2, <1>3, <1>5, <2>1
  <2>2. CASE f.head # NULL
    <3>1. f.head \in Done(B) \cup {f.current} /\ K[f.head] = f.item BY <2>2 DEF Listed
    <3>2. f.current \in Done(B) BY <2>2 DEF AtItem
    <3> QED BY <1>3, <1>5, <2>2, <3>1, <3>2
  <2> QED BY <2>1, <2>2
<1>7. A[f2.head] # 0 => Behind(g, t, A[f.item], f2.head, A[f2.head], A[f.item])
  <2>1. CASE f.head = NULL BY <1>4, <1>5, <2>1
  <2>2. CASE f.head # NULL
    <3>1. A[f.head] # 0 => Behind(h, t, A[f.item], f.head, A[f.head], A[f.item])
      BY <2>2 DEF Listed
    <3>2. g[f.head].string = h[f.head].string /\ f2.head = f.head BY <1>2, <1>5, <2>2
    <3> QED BY <3>1, <3>2 DEF Behind
  <2> QED BY <2>1, <2>2
<1>8. ASSUME NEW j \in Done(B), K2[j] = f.item
      PROVE  g[j].next # NULL /\ g[j].next \in Done(B) \cup {new}
  <2>1. K[j] = f.item /\ j \in DOMAIN h BY <1>1, <1>3, <1>8
  <2>2. f.head # NULL BY <2>1 DEF Listed
  <2>3. CASE j = f.current
    <3>1. g[j].next = new BY <1>2, <2>1, <2>2, <2>3
    <3> QED BY <1>2, <3>1
  <2>4. CASE j # f.current
    <3>1. h[j].next # NULL /\ h[j].next \in Done(B) \cup {f.current}
      BY <2>1, <2>2, <2>4 DEF Listed
    <3>2. f.current \in Done(B) BY <2>2 DEF AtItem
    <3>3. g[j].next = h[j].next BY <1>2, <2>1, <2>4
    <3> QED BY <3>1, <3>2, <3>3
  <2> QED BY <2>3, <2>4
<1> QED BY <1>3, <1>5, <1>6, <1>7, <1>8 DEF Listed

\* It stands behind the bracket or the last comma.
LEMMA MemberAppended ==
    ASSUME NEW h, IsHeap(h), Links(h), NEW t, NEW A, NEW B, NEW K, Parts(h, t, A, B, K),
           NEW p \in Nat, NEW f, Listed(h, t, p, A, B, K, f), AtItem(t, p, f, A, B),
           NEW g, NEW new, ItemAppended(h, g, f, new),
           NEW f2, Longer(f, f2, new), f.head # NULL => f.head \in DOMAIN h
    PROVE  \E d \in 1 .. p : p = d + 1 /\ Member(g, A, B, f2, d)
<1>1. /\ A \in [Ids -> Nat] /\ B \in [Ids -> Nat]
      /\ \A j \in Done(B) : j \in DOMAIN h /\ j \in Ids
      /\ \A j \in Ids : A[j] # 0 => j \in DOMAIN h
  BY PartsFacts
<1>2. /\ new \in Ids /\ new \notin DOMAIN h /\ new # NULL
      /\ \A i \in DOMAIN h :
            g[i].next = IF f.head # NULL /\ i = f.current THEN new ELSE h[i].next
  BY DEF ItemAppended, Ids, NULL
<1>3. A[new] = 0
  BY <1>1, <1>2
<1>4. /\ f2.item = f.item /\ f2.current = new
      /\ f2.head = IF f.head = NULL THEN new ELSE f.head
  BY DEF Longer
<1>5. \A j \in Done(B) : g[j].next = new => f.head # NULL /\ j = f.current
  BY <1>1, <1>2 DEF Links
<1>6. CASE f.head = NULL
  <2>1. p = A[f.item] + 1 /\ A[f.item] \in Nat /\ A[f.item] # 0
    BY <1>1, <1>6 DEF AtItem, Listed
  <2>2. PICK d : d = A[f.item] OBVIOUS
  <2>3. d \in Nat /\ d # 0 /\ p = d + 1 BY <2>1, <2>2
  <2>4. d \in 1 .. p BY <2>3
  <2>5. Member(g, A, B, f2, d) BY <1>2, <1>3, <1>4, <1>5, <1>6, <2>2, <2>3 DEF Member
  <2> QED BY <2>3, <2>4, <2>5
<1>7. CASE f.head # NULL
  <2>1. p = B[f.current] + 1 /\ f.current \in Done(B)
    BY <1>7 DEF AtItem
  <2>2. B[f.current] \in Nat /\ B[f.current] # 0
    BY <1>1, <2>1 DEF Done
  <2>3. PICK d : d = B[f.current] OBVIOUS
  <2>4. d \in Nat /\ d # 0 /\ p = d + 1 BY <2>1, <2>2, <2>3
  <2>5. d \in 1 .. p BY <2>4
  <2>6. f2.head # NULL /\ f2.head # f2.current BY <1>2, <1>4, <1>7
  <2>7. Member(g, A, B, f2, d) BY <1>3, <1>4, <1>5, <2>3, <2>4, <2>6 DEF Member
  <2> QED BY <2>4, <2>5, <2>7
<1> QED BY <1>6, <1>7

\* What is left of the positions when the innermost list gets a new item.
LEMMA LastingAppended ==
    ASSUME NEW h, NEW st, NEW r, Framed(h, st, r), NEW t, NEW p \in Nat, NEW A, NEW B, NEW K,
           Lasting(h, t, p, st, r, A, B, K), NEW f, NEW g, NEW new, ItemAppended(h, g, f, new),
           AtItem(t, p, f, A, B), NEW K2, K2 = [K EXCEPT ![new] = f.item],
           NEW f2, Longer(f, f2, new), NEW n, NEW st2, Lengthens(st, st2, n, f, f2)
    PROVE  Lasting(g, t, p, st2, r, A, B, K2)
<1>0. /\ n \in 1 .. Len(st) /\ f = st[n] /\ Len(st2) = Len(st)
      /\ \A k \in 1 .. Len(st) : st2[k] = IF k = n THEN f2 ELSE st[k]
  BY DEF Lengthens
<1>1. /\ IsHeap(h) /\ Links(h) /\ Parts(h, t, A, B, K) /\ Placed(st, r, A, B, K)
      /\ Listed(h, t, p, A, B, K, f)
  BY <1>0 DEF Framed, Lasting, Links
<1>2. Parts(g, t, A, B, K2)
  BY <1>1, PartsAppended
<1>3. ASSUME NEW k \in 1 .. Len(st) PROVE Listed(g, t, p, A, B, K2, st2[k])
  <2>1. CASE k = n
    <3>1. f.head # NULL => f.head \in DOMAIN h BY <1>0 DEF Framed
    <3>2. Listed(g, t, p, A, B, K2, f2) BY <1>1, <3>1, ListedAppended
    <3> QED BY <1>0, <2>1, <3>2
  <2>2. CASE k # n
    <3>1. PICK e : e = st[k] OBVIOUS
    <3>2. Listed(h, t, p, A, B, K, e) BY <3>1 DEF Lasting
    <3>3. OtherFrame(h, f, e)
      BY <1>0, <2>2, <3>1 DEF Framed, OtherFrame
    <3>4. /\ IsHeap(h) /\ Parts(h, t, A, B, K) /\ Listed(h, t, p, A, B, K, f)
          /\ ItemAppended(h, g, f, new) /\ Adopts(K, K2, f, new)
      BY <1>1 DEF Adopts
    <3>5. Listed(g, t, p, A, B, K2, e)
      BY ONLY <3>2, <3>3, <3>4, OthersAppended
    <3> QED BY <1>0, <2>2, <3>1, <3>5
  <2> QED BY <2>1, <2>2
<1>4. Placed(st2, r, A, B, K2)
  <2>1. /\ K \in [Ids -> Ptrs] /\ \A j \in Done(B) : j \in DOMAIN h /\ j \in Ids
        /\ \A j \in Ids : A[j] # 0 => j \in DOMAIN h
    BY <1>1, PartsFacts
  <2>2. new \notin DOMAIN h BY DEF ItemAppended
  <2>3. r \in Ids /\ A[r] = 1 /\ K[r] = NULL BY <1>1 DEF Placed
  <2>4. r # new /\ K2[r] = K[r] BY <2>1, <2>2, <2>3
  <2>5. \A j \in Done(B) : K2[j] = K[j] BY <2>1, <2>2
  <2>6. ASSUME NEW k \in 1 .. Len(st) PROVE st2[k].item = st[k].item /\ k \in 1 .. Len(st2)
    BY <1>0 DEF Longer
  <2>7. ASSUME NEW j \in Done(B)
        PROVE  \/ K2[j] = NULL /\ j = r
               \/ K2[j] \in Done(B)
               \/ \E k \in 1 .. Len(st2) : K2[j] = st2[k].item
    <3>1. \/ K[j] = NULL /\ j = r
          \/ K[j] \in Done(B)
          \/ \E k \in 1 .. Len(st) : K[j] = st[k].item
      BY <1>1 DEF Placed
    <3>2. CASE \E k \in 1 .. Len(st) : K[j] = st[k].item
      <4>1. PICK k \in 1 .. Len(st) : K[j] = st[k].item BY <3>2
      <4>2. st2[k].item = st[k].item /\ k \in 1 .. Len(st2) BY <2>6
      <4> QED BY <2>5, <4>1, <4>2
    <3> QED BY <2>5, <3>1, <3>2
  <2> QED BY <2>3, <2>4, <2>7 DEF Placed
<1> QED BY <1>0, <1>2, <1>3, <1>4 DEF Lasting

\* The heap when a list has got a new item.
LEMMA AppendedHeap ==
    ASSUME JsonInv, NewItem, mode' # "fail"
    PROVE  /\ ItemAppended(heap, heap', Top, Fresh(heap))
           /\ Top.head # NULL => Top.current \in DOMAIN heap
<1>1. ~Full(heap) /\ mode = "item"
  BY DEF NewItem, OutOfMemory
<1>2. PICK new : new = Fresh(heap)
  OBVIOUS
<1>3. PICK with : with = New_Item(heap, [Plain("invalid") EXCEPT !.prev = Top.current])
  OBVIOUS
<1>4. heap' = (IF Top.head = NULL THEN with ELSE [with EXCEPT ![Top.current].next = new])
  BY <1>2, <1>3 DEF NewItem, OutOfMemory
<1>5. Framed(heap, stack, root) /\ IsHeap(heap)
  BY <1>1, ParserFramed DEF Framed
<1>6. new \in Ids /\ new \notin DOMAIN heap
  <2>1. \E i \in Ids : i \notin DOMAIN heap BY <1>1, <1>5 DEF Full, IsHeap
  <2> QED BY <1>2, <2>1 DEF Fresh
<1>7. /\ DOMAIN with = DOMAIN heap \cup {new} /\ with[new].next = NULL
      /\ \A i \in DOMAIN heap : with[i] = heap[i]
  <2>1. with[new] = [Plain("invalid") EXCEPT !.prev = Top.current]
    BY <1>2, <1>3, <1>6 DEF New_Item
  <2>2. with[new].next = NULL BY <2>1 DEF Plain
  <2> QED BY <1>2, <1>3, <2>2 DEF New_Item
<1>8. Len(stack) \in 1 .. Len(stack) /\ Top = stack[Len(stack)]
  BY <1>1, TargetIs DEF JsonInv, Control
<1>9. PICK cur : cur = Top.current
  OBVIOUS
<1>10. Top.head # NULL => cur \in DOMAIN heap
  BY <1>5, <1>8, <1>9 DEF Framed
<1>11. CASE Top.head = NULL
  BY <1>2, <1>4, <1>6, <1>7, <1>10, <1>9, <1>11 DEF ItemAppended
<1>12. CASE Top.head # NULL
  <2>1. heap' = [with EXCEPT ![cur].next = new] BY <1>4, <1>9, <1>12
  <2>2. cur \in DOMAIN with /\ with[cur] = heap[cur] /\ heap[cur] \in Item /\ cur # new
    BY <1>5, <1>6, <1>7, <1>10, <1>12 DEF IsHeap
  <2>3. DOMAIN heap' = DOMAIN heap \cup {new} BY <1>7, <2>1
  <2>4. \A i \in DOMAIN with : i # cur => heap'[i] = with[i] BY <2>1
  <2>5. heap'[cur] = [heap[cur] EXCEPT !.next = new] BY <2>1, <2>2
  <2>6. /\ heap'[cur].next = new /\ heap'[cur].type = heap[cur].type
        /\ heap'[cur].child = heap[cur].child /\ heap'[cur].string = heap[cur].string
        /\ heap'[cur].valuestring = heap[cur].valuestring
    BY <2>2, <2>5 DEF Item
  <2>7. heap'[new].next = NULL BY <1>7, <2>2, <2>4
  <2>8. \A i \in DOMAIN heap : i # cur => heap'[i] = heap[i] BY <1>7, <2>4
  <2>9. PICK g, f : g = heap' /\ f = Top OBVIOUS
  <2>10. ItemAppended(heap, g, f, new)
    BY <1>6, <1>9, <1>12, <2>3, <2>6, <2>7, <2>8, <2>9 DEF ItemAppended
  <2> QED BY <1>2, <1>9, <1>10, <2>9, <2>10
<1> QED BY <1>11, <1>12

\* The loops of parse_array and parse_object create an item.
LEMMA NewItemPrints ==
    ASSUME JsonInv, GrammarInv, PrintInv, NewItem
    PROVE  PrintInv'
<1>1. /\ mode = "item" /\ outcome' = outcome /\ outcome = "none"
      /\ text' = text /\ root' = root /\ pos' = pos /\ stack # <<>>
  BY NoOutcome DEF NewItem, OutOfMemory, JsonInv, Control
<1>2. CASE mode' = "fail"
  BY <1>1, <1>2, NothingRead
<1>3. CASE mode' # "fail"
  <2>1. /\ mode' = (IF Top.kind = "array" THEN "value" ELSE "name")
        /\ stack' = SetTop([Top EXCEPT !.head = IF @ = NULL THEN Fresh(heap) ELSE @,
                                       !.current = Fresh(heap)])
    BY <1>3 DEF NewItem, OutOfMemory
  <2>2. PICK A, B, K : /\ Lasting(heap, text, pos, stack, root, A, B, K)
                       /\ Arrived(heap, text, pos, "item", Top, Target, A, B)
    BY <1>1, ParserIsAt
  <2>3. PICK f, g, new, n : f = Top /\ g = heap' /\ new = Fresh(heap) /\ n = Len(stack)
    OBVIOUS
  <2>4. n \in 1 .. Len(stack) /\ f = stack[n]
    BY <1>1, <2>3, TargetIs
  <2>5. Framed(heap, stack, root) /\ IsHeap(heap) /\ Distinct(stack) /\ Links(heap)
    BY <1>1, ParserFramed, FramesDiffer DEF Framed, Links
  <2>6. f \in Frames /\ (f.head # NULL => f.head \in DOMAIN heap)
    BY <2>4, <2>5 DEF Framed
  <2>7. PICK f2 : f2 = [f EXCEPT !.head = IF @ = NULL THEN new ELSE @, !.current = new]
    OBVIOUS
  <2>8. Longer(f, f2, new)
    BY <2>6, <2>7 DEF Longer, Frames
  <2>9. ItemAppended(heap, g, f, new)
    <3>1. ItemAppended(heap, heap', Top, Fresh(heap)) BY <1>3, AppendedHeap
    <3> QED BY <2>3, <3>1
  <2>10. f2 \in Frames
    <3>1. new \in Ptrs BY <2>9 DEF ItemAppended, Ptrs
    <3> QED BY <2>6, <2>7, <3>1 DEF Frames
  <2>11. /\ Len(stack') = Len(stack)
         /\ \A k \in 1 .. Len(stack) : stack'[k] = IF k = n THEN f2 ELSE stack[k]
    <3>1. stack \in Seq(Frames) BY StackType DEF JsonInv
    <3>2. stack' = [stack EXCEPT ![n] = f2] BY <2>1, <2>3, <2>7 DEF SetTop
    <3> QED BY <2>4, <3>1, <3>2
  <2>12. AtItem(text, pos, f, A, B) /\ pos \in Nat
    BY <2>2, <2>3, TextFacts DEF Arrived
  <2>13. PICK K2 : K2 = [K EXCEPT ![new] = f.item]
    OBVIOUS
  <2>14. PICK st2 : st2 = stack'
    OBVIOUS
  <2>15. Len(st2) = Len(stack) /\ \A k \in 1 .. Len(stack) : st2[k] = IF k = n THEN f2 ELSE stack[k]
    BY <2>11, <2>14
  <2>16. Lasting(g, text, pos, st2, root, A, B, K2)
    <3>1. Lengthens(stack, st2, n, f, f2) BY <2>4, <2>15 DEF Lengthens
    <3> QED BY <2>2, <2>5, <2>8, <2>9, <2>12, <2>13, <3>1, LastingAppended
  <2>17. PICK d \in 1 .. pos : pos = d + 1 /\ Member(g, A, B, f2, d)
    <3>1. Parts(heap, text, A, B, K) /\ Listed(heap, text, pos, A, B, K, f)
      BY <2>2, <2>4 DEF Lasting
    <3> QED BY <2>5, <2>6, <2>8, <2>9, <2>12, <3>1, MemberAppended
  <2>18. Top' = f2 /\ Target' = new /\ f2.current = new
    <3>1. Top' = f2 BY <2>3, <2>4, <2>11 DEF Top
    <3>2. stack' # <<>>
      <4>1. Len(stack') # 0 BY <2>3, <2>4, <2>11
      <4> QED BY <4>1
    <3> QED BY <2>8, <3>1, <3>2 DEF Target, Longer
  <2>19. CASE f.kind = "array"
    <3>1. mode' = "value" BY <2>1, <2>3, <2>19
    <3>2. Listed(g, text, pos, A, B, K2, f2)
      BY <2>4, <2>15, <2>16 DEF Lasting
    <3>3. IsArray(text, A[f2.item])
      BY <2>8, <2>19, <3>2 DEF Listed, Longer
    <3>4. Behind(g, text, A[f2.item], f2.current, pos, d)
      BY <2>17, <3>3 DEF Behind
    <3>5. PICK A2 : A2 = [A EXCEPT ![f2.current] = pos]
      OBVIOUS
    <3>6. BeginsValue(g, text, A, B, A2, f2, d, pos)
      <4>1. f2.current \in DOMAIN g BY <2>9, <2>18 DEF ItemAppended
      <4> QED BY <2>12, <2>17, <3>4, <3>5, <4>1 DEF BeginsValue
    <3>7. IsHeap(g)
      <4>1. JsonInv' BY NewItemInv
      <4>2. PICK P : Shape(P)' BY <4>1 DEF JsonInv
      <4> QED BY <2>3, <4>2 DEF Shape, Forest
    <3>8. Distinct(st2)
      <4>1. \A k \in 1 .. Len(stack) : st2[k].item = stack[k].item /\ st2[k] \in Frames
        BY <2>4, <2>5, <2>8, <2>10, <2>15 DEF Longer, Distinct
      <4> QED BY <2>5, <2>15, <4>1 DEF Distinct
    <3>9. n \in 1 .. Len(st2) /\ f2 = st2[n] /\ pos <= pos
      BY <2>4, <2>12, <2>15
    <3>10. Lasting(g, text, pos, st2, root, A2, B, K2)
      BY <2>12, <2>16, <3>6, <3>7, <3>8, <3>9, LastingBegun
    <3>11. AtValue(pos, new, A2, B)
      <4>1. Parts(g, text, A, B, K2) BY <2>16 DEF Lasting
      <4> QED BY <2>18, <3>6, <3>7, <4>1, BeginsThere
    <3>12. Arrived(heap', text', pos', mode', Top', Target', A2, B)
      BY <1>1, <2>18, <3>1, <3>11 DEF Arrived
    <3>13. Lasting(heap', text', pos', stack', root', A2, B, K2)
      BY <1>1, <2>3, <2>14, <3>10
    <3> QED BY <1>1, <3>1, <3>12, <3>13, StillRecorded
  <2>20. CASE f.kind = "object"
    <3>1. mode' = "name" BY <2>1, <2>3, <2>20
    <3>2. AtName(g, pos, f2, A, B)
      BY <2>8, <2>17, <2>20 DEF AtName, Longer
    <3>3. Arrived(heap', text', pos', mode', Top', Target', A, B)
      BY <1>1, <2>3, <2>18, <3>1, <3>2 DEF Arrived
    <3>4. Lasting(heap', text', pos', stack', root', A, B, K2)
      BY <1>1, <2>3, <2>14, <2>16
    <3> QED BY <1>1, <3>1, <3>3, <3>4, StillRecorded
  <2> QED BY <2>6, <2>19, <2>20 DEF Frames
<1> QED BY <1>2, <1>3

\* cJSON_Parse starts: the value that it is to read begins at 1.
LEMMA ParsePrints ==
    ASSUME JsonInv, NEW t, Parse(t)
    PROVE  PrintInv'
<1>1. /\ outcome' = "none" /\ text' = t /\ pos' = 1 /\ stack' = <<>> /\ mode' \in {"value", "fail"}
  BY DEF Parse, JsonInv, Control
<1>2. CASE mode' = "fail"
  BY <1>1, <1>2, NothingRead
<1>3. CASE mode' = "value"
  <2>1. ~Full(heap) /\ heap' = New_Item(heap, Plain("invalid")) /\ root' = Fresh(heap)
    BY <1>3 DEF Parse
  <2>2. root' \in Ids /\ root' \in DOMAIN heap'
    <3>1. DOMAIN heap \subseteq Ids BY DEF JsonInv, TypeOK
    <3>2. \E i \in Ids : i \notin DOMAIN heap BY <2>1, <3>1 DEF Full
    <3> QED BY <2>1, <3>2 DEF Fresh, New_Item
  <2>3. PICK g, r : g = heap' /\ r = root'
    OBVIOUS
  <2>4. PICK A, B, K : /\ A = [i \in Ids |-> IF i = r THEN 1 ELSE 0]
                       /\ B = [i \in Ids |-> 0] /\ K = [i \in Ids |-> NULL]
    OBVIOUS
  <2>5. /\ \A i \in Ids : (A[i] # 0 <=> i = r) /\ B[i] = 0 /\ K[i] = NULL
        /\ A[r] = 1 /\ r \in Ids /\ r \in DOMAIN g
    BY <2>2, <2>3, <2>4
  <2>6. \A i : i \notin Done(B)
    BY <2>5 DEF Done
  <2>7. Positions(g, A, B, K)
    <3>1. A \in [Ids -> Nat] /\ B \in [Ids -> Nat] BY <2>4
    <3>2. K \in [Ids -> Ptrs]
      <4>1. NULL \in Ptrs BY DEF Ptrs
      <4> QED BY <2>4, <4>1
    <3> QED BY <2>5, <3>1, <3>2 DEF Positions
  <2>8. Parts(g, t, A, B, K) /\ Placed(<<>>, r, A, B, K)
    BY <2>5, <2>6, <2>7 DEF Parts, Placed
  <2>9. Lasting(g, t, 1, <<>>, r, A, B, K)
    BY <2>8 DEF Lasting
  <2>10. AtValue(1, r, A, B)
    BY <2>5, <2>6 DEF AtValue
  <2>11. Target' = r
    BY <1>1, <2>3 DEF Target
  <2>12. Arrived(heap', text', pos', mode', Top', Target', A, B)
    BY <1>1, <1>3, <2>10, <2>11 DEF Arrived
  <2>13. Lasting(heap', text', pos', stack', root', A, B, K)
    BY <1>1, <2>3, <2>9
  <2> QED BY <1>1, <1>3, <2>12, <2>13, StillRecorded
<1> QED BY <1>1, <1>2, <1>3

\* The parser, or a caller of it, gives up.
LEMMA FailurePrints ==
    ASSUME GrammarInv, RejectValue \/ RejectMember \/ RejectEnd \/ Unwind \/ ParseFails
    PROVE  PrintInv'
<1>1. CASE RejectValue \/ RejectMember \/ RejectEnd
  <2>1. mode # "idle" /\ mode' = "fail" /\ outcome' = outcome
    BY <1>1 DEF RejectValue, RejectMember, RejectEnd, Reject
  <2>2. outcome = "none" BY <2>1, NoOutcome
  <2> QED BY <2>1, <2>2, NothingRead
<1>2. CASE Unwind
  <2>1. mode = "fail" /\ mode' = "fail" /\ outcome' = outcome
    BY <1>2 DEF Unwind
  <2>2. outcome = "none" BY <2>1, NoOutcome
  <2> QED BY <2>1, <2>2, NothingRead
<1>3. CASE ParseFails
  <2>1. mode' = "idle" /\ outcome' = "null" BY <1>3 DEF ParseFails
  <2> QED BY <2>1, NothingRead
<1> QED BY <1>1, <1>2, <1>3

\* No list is being read when the value is complete.
LEMMA WholeAtLast ==
    ASSUME JsonInv
    PROVE  Whole(heap)
<1>1. PICK P : Shape(P)
  BY DEF JsonInv
<1>2. Forest(heap, Roots, P)
  BY <1>1 DEF Shape
<1>3. \A p \in DOMAIN heap : heap[p].child # NULL => \A r \in Roots : P[r] # p
  BY <1>1, RootsHaveNoParent
<1> QED BY <1>2, <1>3 DEF Whole

\* cJSON_Parse returns the item: it prints as what has been read.
LEMMA AcceptPrints ==
    ASSUME JsonInv, PrintInv, Accept
    PROVE  PrintInv'
<1>1. /\ mode = "after" /\ stack = <<>> /\ mode' = "idle"
      /\ heap' = heap /\ root' = root /\ text' = text /\ pos' = pos
  BY DEF Accept
<1>2. PICK A, B, K : /\ Lasting(heap, text, pos, stack, root, A, B, K)
                     /\ Arrived(heap, text, pos, "after", Top, Target, A, B)
  BY <1>1, ParserIsAt
<1>3. root \in Done(B) /\ B[root] = pos
  BY <1>1, <1>2 DEF Arrived, AtEnd, Target
<1>4. A[root] = 1 /\ Parts(heap, text, A, B, K)
  BY <1>2 DEF Lasting, Placed
<1>5. Whole(heap) /\ IsText(text)
  BY WholeAtLast, TextFacts
<1>6. print_value(heap, root) = Part(text, A[root], B[root])
  BY <1>3, <1>4, <1>5, PrintsParts
<1>7. print_value(heap, root) = SubSeq(text, 1, pos - 1)
  BY <1>3, <1>4, <1>6 DEF Part
<1>8. PrintsWhatItParsed'
  BY <1>1, <1>7 DEF PrintsWhatItParsed
<1> QED BY <1>1, <1>8 DEF PrintInv

\* The other calls do not parse.
LEMMA EditPrints ==
    ASSUME Edit
    PROVE  PrintInv'
<1>1. Call
  BY EditCalls
<1>2. mode' = "idle" /\ outcome' = "none"
  BY <1>1 DEF Call
<1> QED BY <1>2, NothingRead

\* Nothing happens.
LEMMA StutterPrints ==
    ASSUME PrintInv, UNCHANGED vars
    PROVE  PrintInv'
  BY DEF PrintInv, PrintsWhatItParsed, vars, parser

\* No call has been made.
LEMMA InitPrints == Init => PrintInv
  BY DEF Init, PrintInv, PrintsWhatItParsed

\* Every step.
LEMMA StepPrints ==
    ASSUME JsonInv, GrammarInv, PrintInv, [Next]_vars
    PROVE  PrintInv'
<1>1. CASE \E t \in Texts : Parse(t)
  BY <1>1, ParsePrints
<1>2. CASE ParserStep
  BY <1>2, AtomPrints, EnterPrints, NewItemPrints, NamePrints, ColonPrints, CommaPrints,
     ClosePrints, AcceptPrints, FailurePrints DEF ParserStep
<1>3. CASE Edit
  BY <1>3, EditPrints
<1>4. CASE UNCHANGED vars
  BY <1>4, StutterPrints
<1> QED BY <1>1, <1>2, <1>3, <1>4 DEF Next

-----------------------------------------------------------------------------
\* What cJSON_Parse returns, cJSON_PrintUnformatted prints, token by token, as
\* the text that was read: print_array and print_object put back every key,
\* comma, colon and bracket that parse_array and parse_object took away, in the
\* order in which the items were linked.
THEOREM PrintingInvertsParsing == Spec => []PrintsWhatItParsed
<1>1. PrintInv => PrintsWhatItParsed
  BY DEF PrintInv
<1>2. JsonInv /\ GrammarInv /\ [Next]_vars => GrammarInv'
  BY StepGrammar
<1>3. JsonInv /\ GrammarInv /\ PrintInv /\ [Next]_vars => PrintInv'
  BY StepPrints
<1> QED BY <1>1, <1>2, <1>3, InitGrammar, InitPrints, AlwaysAForest, PTL DEF Spec
=============================================================================
