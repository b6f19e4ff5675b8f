----------------------------- MODULE JsonGrammar -----------------------------
(***************************************************************************)
(* cJSON_Parse accepts exactly the grammar: a proof for texts of any       *)
(* length and any nesting limit.  The argument: a value is determined by   *)
(* where it begins, so that the parser, which reads forwards and never goes *)
(* back, meets the delimiters of the only value there can be.              *)
(***************************************************************************)
EXTENDS JsonProofs

Tokens == Types \cup Strings \cup {"{", "}", "[", "]", ",", ":"}
IsText(t) == t \in Seq(Tokens)

\* A set of spans in which no two begin at one place, and none at a delimiter.
Determined(t, W) ==
    /\ W \subseteq Spans(t)
    /\ \A r, s \in W : r[1] = s[1] => r = s
    /\ \A s \in W : t[s[1]] \in Scalars \cup Strings \cup {"[", "{"}

-----------------------------------------------------------------------------
(***************************************************************************)
(* The grammar.                                                            *)
(***************************************************************************)
\* A string is no other token, and no delimiter is another.
LEMMA TokensDiffer ==
    \A x \in Strings : x \notin Scalars \cup {"{", "}", "[", "]", ",", ":", "end"}
  BY JsonAssumption DEF Scalars, Types

\* A span is a pair of positions, the second one past the end at most.
LEMMA SpansFacts ==
    ASSUME NEW t, IsText(t)
    PROVE  /\ Len(t) \in Nat
           /\ \A i, j : <<i, j>> \in Spans(t) <=>
                  i \in 1 .. Len(t) /\ j \in 1 .. Len(t) + 1 /\ i < j
           /\ \A s \in Spans(t) : s = <<s[1], s[2]>>
<1>1. Len(t) \in Nat
  BY DEF IsText
<1>2. \A i, j : <<i, j>> \in Spans(t) <=>
                  i \in 1 .. Len(t) /\ j \in 1 .. Len(t) + 1 /\ i < j
  BY DEF Spans
<1>3. \A s \in Spans(t) : s = <<s[1], s[2]>>
  BY DEF Spans
<1> QED BY <1>1, <1>2, <1>3

\* The values of one token: parse_number, parse_string and the literals.
LEMMA AtomsFacts ==
    ASSUME NEW t
    PROVE  /\ Atoms(t) \subseteq Spans(t)
           /\ \A i, j : <<i, j>> \in Atoms(t) <=>
                  <<i, j>> \in Spans(t) /\ j = i + 1 /\ t[i] \in Scalars \cup Strings
  BY DEF Atoms

\* Tokens of the text, named so that the arithmetic on positions is free of them.
IsComma(t, k) == t[k] = ","
Opens(t, k) == t[k] \in {"[", "{"}
Bracketed(t, i, k) == <<t[i], t[k]>> \in {<<"[", "]">>, <<"{", "}">>}

\* The spans that are a list of the values in `inner`.
Lists(t, inner) == {s \in Spans(t) : IsList(t, inner, s[1], s[2])}

\* What it is to be in Lists.
LEMMA ListsFacts ==
    ASSUME NEW t, NEW inner
    PROVE  /\ Lists(t, inner) \subseteq Spans(t)
           /\ \A i, j : <<i, j>> \in Lists(t, inner) <=>
                <<i, j>> \in Spans(t) /\ IsList(t, inner, i, j)
  BY DEF Lists

\* The levels of Values, one after the other.
LEMMA ValuesFacts ==
    ASSUME NEW t, IsText(t)
    PROVE  /\ Values(t)[0] = Atoms(t)
           /\ \A d \in 1 .. NestingLimit :
                 Values(t)[d] = Atoms(t) \cup Lists(t, Values(t)[d - 1])
           /\ \A d \in 0 .. NestingLimit : Values(t)[d] \subseteq Spans(t)
<1> DEFINE V[d \in 0 .. NestingLimit] ==
               IF d = 0 THEN Atoms(t)
               ELSE LET inner == V[d - 1]
                    IN Atoms(t) \cup {s \in Spans(t) : IsList(t, inner, s[1], s[2])}
           S == SUBSET Spans(t)
           Deeper(inner) == Atoms(t) \cup Lists(t, inner)
           step == [inner \in S |-> Deeper(inner)]
<1>1. NestingLimit \in Nat
  BY CallsAssumption
<1>2. V = [d \in 0 .. NestingLimit |->
              IF d = 0 THEN Atoms(t)
              ELSE LET inner == V[d - 1]
                   IN Atoms(t) \cup {s \in Spans(t) : IsList(t, inner, s[1], s[2])}]
  <2>1. Atoms(t) \in S /\ \A inner \in S : Deeper(inner) \in S
    BY AtomsFacts, ListsFacts
  <2>2. PICK F \in [0 .. NestingLimit -> S] :
           F[0] = Atoms(t) /\ \A d \in 1 .. NestingLimit : F[d] = step[F[d - 1]]
    <3> HIDE DEF Deeper, S
    <3>1. step \in [S -> S] BY <2>1
    <3> HIDE DEF step
    <3>2. HasRun(S, Atoms(t), step, NestingLimit)
      BY <1>1, <2>1, <3>1, Iterates
    <3> QED BY <3>2 DEF HasRun
  <2>3. ASSUME NEW d \in 0 .. NestingLimit, d # 0
        PROVE  F[d] = Deeper(F[d - 1])
    <3> HIDE DEF Deeper, S
    <3>1. d - 1 \in 0 .. NestingLimit /\ d \in 1 .. NestingLimit BY <1>1, <2>3
    <3>2. F[d - 1] \in S BY <2>2, <3>1
    <3>3. step[F[d - 1]] = Deeper(F[d - 1]) BY <3>2
    <3> QED BY <2>2, <3>1, <3>3
  <2>4. F = [d \in 0 .. NestingLimit |-> IF d = 0 THEN Atoms(t) ELSE Deeper(F[d - 1])]
    <3> HIDE DEF Deeper, step
    <3> QED BY <2>2, <2>3
  <2>5. F = [d \in 0 .. NestingLimit |->
                IF d = 0 THEN Atoms(t)
                ELSE LET inner == F[d - 1]
                     IN Atoms(t) \cup {s \in Spans(t) : IsList(t, inner, s[1], s[2])}]
    BY <2>4 DEF Lists
  <2> QED BY <2>5
<1>3. Values(t) = V
  BY DEF Values
<1> HIDE DEF V
<1>4. V[0] = Atoms(t)
  BY <1>1, <1>2
<1>5. \A d \in 1 .. NestingLimit : V[d] = Atoms(t) \cup Lists(t, V[d - 1])
  <2> SUFFICES ASSUME NEW d \in 1 .. NestingLimit
               PROVE  V[d] = Atoms(t) \cup Lists(t, V[d - 1])
    OBVIOUS
  <2>1. d \in 0 .. NestingLimit /\ d # 0 BY <1>1
  <2> QED BY <1>2, <2>1 DEF Lists
<1>6. \A d \in 0 .. NestingLimit : V[d] \subseteq Spans(t)
  <2> SUFFICES ASSUME NEW d \in 0 .. NestingLimit PROVE V[d] \subseteq Spans(t)
    OBVIOUS
  <2>1. d = 0 \/ d \in 1 .. NestingLimit BY <1>1
  <2> QED BY <1>4, <1>5, <2>1, AtomsFacts, ListsFacts
<1> QED BY <1>3, <1>4, <1>5, <1>6

-----------------------------------------------------------------------------
(***************************************************************************)
(* Delimiters.                                                             *)
(***************************************************************************)
\* After every delimiter but the last comes a next one.
LEMMA NextDelimiter ==
    ASSUME NEW C, C \subseteq Nat, NEW last \in C, NEW a \in Nat, a < last
    PROVE  \E b \in C : a < b /\ \A c \in C : c <= a \/ c >= b
<1> DEFINE T == {x \in C : a < x}
<1>1. T \subseteq Nat /\ T # {}
  OBVIOUS
<1> HIDE DEF T
<1>2. PICK b \in T : \A c \in T : b <= c
  BY <1>1, LeastNatural
<1>3. b \in C /\ a < b
  BY <1>2 DEF T
<1>4. ASSUME NEW c \in C PROVE c <= a \/ c >= b
  <2>1. c \in Nat /\ b \in Nat BY <1>3
  <2>2. CASE a < c
    <3>1. c \in T BY <2>2 DEF T
    <3> QED BY <1>2, <2>1, <3>1
  <2> QED BY <2>1, <2>2
<1> QED BY <1>3, <1>4

\* Before every delimiter but the first comes another.
LEMMA PreviousDelimiter ==
    ASSUME NEW C, C \subseteq Nat, NEW first \in C, NEW b \in Nat, first < b
    PROVE  \E a \in C : a < b /\ \A c \in C : c <= a \/ c >= b
<1> DEFINE T == {n \in Nat : \E x \in C : x < b /\ n = b - x}
<1>1. b - first \in T
  BY DEF T
<1>2. T \subseteq Nat /\ T # {}
  BY <1>1 DEF T
<1> HIDE DEF T
<1>3. PICK n \in T : \A k \in T : n <= k
  BY <1>2, LeastNatural
<1>4. PICK a \in C : a < b /\ n = b - a
  BY <1>3 DEF T
<1>5. ASSUME NEW c \in C PROVE c <= a \/ c >= b
  <2>1. c \in Nat /\ a \in Nat BY <1>4
  <2>2. CASE c < b
    <3>1. b - c \in T BY <2>1, <2>2 DEF T
    <3>2. b - a <= b - c BY <1>3, <1>4, <3>1
    <3> QED BY <2>1, <3>2
  <2> QED BY <2>1, <2>2
<1> QED BY <1>4, <1>5

\* Behind every delimiter but the last stands an element, up to another one.
LEMMA ElementAfter ==
    ASSUME NEW t, NEW inner, NEW i \in Nat, NEW last \in Nat, i < last,
           NEW C, C \subseteq i + 1 .. last - 1, AreSeparated(t, inner, i, C, {last}),
           NEW a \in {i} \cup C
    PROVE  \E b \in C \cup {last} : a < b /\ IsElement(t, inner, t[i], a, b)
<1>1. C \cup {last} \subseteq Nat /\ a \in Nat /\ a < last
  OBVIOUS
<1>2. PICK b \in C \cup {last} : a < b /\ \A c \in C \cup {last} : c <= a \/ c >= b
  <2> DEFINE B == C \cup {last}
  <2>1. B \subseteq Nat /\ last \in B BY <1>1
  <2> HIDE DEF B
  <2>2. \E b \in B : a < b /\ \A c \in B : c <= a \/ c >= b
    BY <1>1, <2>1, NextDelimiter
  <2> QED BY <2>2 DEF B
<1>3. IsElement(t, inner, t[i], a, b)
  BY <1>2 DEF AreSeparated
<1> QED BY <1>2, <1>3

\* From one delimiter there is one element only.
LEMMA OneElement ==
    ASSUME NEW t, NEW inner, Determined(t, inner), NEW bracket, NEW a, NEW b, NEW c,
           IsElement(t, inner, bracket, a, b), IsElement(t, inner, bracket, a, c)
    PROVE  b = c
<1>1. \A i, j, k : <<i, j>> \in inner /\ <<i, k>> \in inner => j = k
  BY DEF Determined
<1> QED BY <1>1 DEF IsElement

\* Commas between a bracket at i and a delimiter `last` are between them.
LEMMA CommasFacts ==
    ASSUME NEW t, NEW i \in Nat, NEW last \in Nat
    PROVE  /\ Commas(t, i + 1, last - 1) \subseteq i + 1 .. last - 1
           /\ \A c \in Commas(t, i + 1, last - 1) : c \in Nat /\ i < c /\ c < last /\ t[c] = ","
<1>1. \A c \in Commas(t, i + 1, last - 1) : c \in i + 1 .. last - 1 /\ t[c] = ","
  BY DEF Commas
<1>2. \A c \in i + 1 .. last - 1 : c \in Nat /\ i < c /\ c < last
  OBVIOUS
<1> QED BY <1>1, <1>2

\* Two ways to separate what begins at one bracket have the same end.
LEMMA SameDelimiters ==
    ASSUME NEW t, NEW inner, Determined(t, inner), NEW i \in Nat,
           NEW m \in Nat, i < m, ~IsComma(t, m), NEW C, C \subseteq Commas(t, i + 1, m - 1),
           NEW p \in Nat, i < p, ~IsComma(t, p), NEW D, D \subseteq Commas(t, i + 1, p - 1),
           AreSeparated(t, inner, i, C, {m}), AreSeparated(t, inner, i, D, {p})
    PROVE  m = p
<1> DEFINE T == (C \cup {m}) \ (D \cup {p})
<1>0. /\ \A c \in C : c \in Nat /\ i < c /\ IsComma(t, c)
      /\ \A c \in D : c \in Nat /\ i < c /\ IsComma(t, c)
      /\ C \subseteq i + 1 .. m - 1 /\ D \subseteq i + 1 .. p - 1
  <2> HIDE DEF T
  <2> QED BY CommasFacts DEF IsComma
<1>1. T = {}
  <2> SUFFICES ASSUME T # {} PROVE FALSE
    OBVIOUS
  <2>1. T \subseteq Nat
    BY <1>0
  <2>2. PICK x \in T : \A y \in T : x <= y
    <3> HIDE DEF T
    <3> QED BY <2>1, LeastNatural
  <2>3. x \in Nat /\ x \in C \cup {m} /\ i < x
    BY <1>0, <2>2
  <2>4. PICK a \in {i} \cup C : a < x /\ \A c \in {i} \cup C : c <= a \/ c >= x
    <3> DEFINE A == {i} \cup C
    <3>1. A \subseteq Nat /\ i \in A BY <1>0
    <3> HIDE DEF A
    <3>2. \E a \in A : a < x /\ \A c \in A : c <= a \/ c >= x
      BY <2>3, <3>1, PreviousDelimiter
    <3> QED BY <3>2 DEF A
  <2>5. a \in {i} \cup D
    <3>1. CASE a \in C
      <4>1. a \notin T
        <5> HIDE DEF T
        <5>1. a \in Nat /\ a < x BY <1>0, <2>4, <3>1
        <5>2. ASSUME a \in T PROVE FALSE
          <6>1. x <= a BY <2>2, <5>2
          <6> QED BY <2>3, <5>1, <6>1
        <5> QED BY <5>2
      <4>2. IsComma(t, a) BY <1>0, <3>1
      <4> QED BY <3>1, <4>1, <4>2
    <3> QED BY <2>4, <3>1
  <2>6. PICK q \in D \cup {p} : a < q /\ IsElement(t, inner, t[i], a, q)
    <3> HIDE DEF T
    <3> QED BY <1>0, <2>5, ElementAfter
  <2>7. IsElement(t, inner, t[i], a, x)
    BY <2>3, <2>4 DEF AreSeparated
  <2>8. x = q BY <2>6, <2>7, OneElement
  <2> QED BY <2>2, <2>6, <2>8
<1>2. m \in D \cup {p}
  BY <1>1
<1>3. m \notin D
  BY <1>0
<1> QED BY <1>2, <1>3

\* A list is determined by its beginning if its elements are.
LEMMA OneList ==
    ASSUME NEW t, IsText(t), NEW inner, Determined(t, inner), NEW i, NEW j, NEW k,
           <<i, j>> \in Lists(t, inner), <<i, k>> \in Lists(t, inner)
    PROVE  j = k
<1>1. /\ i \in Nat /\ j \in Nat /\ k \in Nat /\ i \in 1 .. Len(t) /\ Len(t) \in Nat
      /\ IsList(t, inner, i, j) /\ IsList(t, inner, i, k)
  BY SpansFacts, ListsFacts
<1>2. /\ j >= i + 2 /\ k >= i + 2 /\ t[j - 1] = t[k - 1]
      /\ <<t[i], t[j - 1]>> \in {<<"[", "]">>, <<"{", "}">>}
  BY <1>1 DEF IsList
<1>3. ASSUME NEW last \in Nat, i < last, t[i + 1] = t[j - 1],
             NEW C \in SUBSET Commas(t, i + 1, last - 1),
             AreSeparated(t, inner, i, C, {last})
      PROVE  FALSE
  <2>1. C \subseteq i + 1 .. last - 1
    BY <1>1, <1>3, CommasFacts
  <2>2. PICK b \in C \cup {last} : IsElement(t, inner, t[i], i, b)
    BY <1>1, <1>3, <2>1, ElementAfter
  <2>3. t[i + 1] \in Scalars \cup Strings \cup {"[", "{"}
    <3>1. \A a, c : <<a, c>> \in inner => t[a] \in Scalars \cup Strings \cup {"[", "{"}
      BY DEF Determined
    <3> QED BY <2>2, <3>1 DEF IsElement
  <2>4. t[i + 1] \in {"]", "}"} BY <1>2, <1>3
  <2> QED BY <2>3, <2>4, TokensDiffer DEF Scalars
<1>4. \/ j = i + 2
      \/ \E C \in SUBSET Commas(t, i + 1, (j - 1) - 1) :
            AreSeparated(t, inner, i, C, {j - 1})
  <2>1. (j - 1) - 1 = j - 2 BY <1>1
  <2> QED BY <1>1, <2>1 DEF IsList
<1>5. \/ k = i + 2
      \/ \E C \in SUBSET Commas(t, i + 1, (k - 1) - 1) :
            AreSeparated(t, inner, i, C, {k - 1})
  <2>1. (k - 1) - 1 = k - 2 BY <1>1
  <2> QED BY <1>1, <2>1 DEF IsList
<1>6. j - 1 \in Nat /\ i < j - 1 /\ k - 1 \in Nat /\ i < k - 1
  <2>1. i \in Nat /\ j \in Nat /\ k \in Nat BY <1>1
  <2>2. j >= i + 2 /\ k >= i + 2 BY <1>2
  <2> QED BY <2>1, <2>2
<1>7. CASE j = i + 2 /\ k = i + 2
  BY <1>7
<1>8. CASE j = i + 2 /\ k # i + 2
  <2>1. t[i + 1] = t[j - 1]
    <3>1. j - 1 = i + 1 BY <1>1, <1>8
    <3> QED BY <3>1
  <2> QED BY <1>3, <1>5, <1>6, <1>8, <2>1
<1>9. CASE j # i + 2 /\ k = i + 2
  <2>1. t[i + 1] = t[j - 1]
    <3>1. k - 1 = i + 1 BY <1>1, <1>9
    <3> QED BY <1>2, <3>1
  <2> QED BY <1>3, <1>4, <1>6, <1>9, <2>1
<1>10. CASE j # i + 2 /\ k # i + 2
  <2>1. PICK C \in SUBSET Commas(t, i + 1, (j - 1) - 1) :
            AreSeparated(t, inner, i, C, {j - 1})
    BY <1>4, <1>10
  <2>2. PICK D \in SUBSET Commas(t, i + 1, (k - 1) - 1) :
            AreSeparated(t, inner, i, D, {k - 1})
    BY <1>5, <1>10
  <2>3. ~IsComma(t, j - 1) /\ ~IsComma(t, k - 1) BY <1>2 DEF IsComma
  <2>4. j - 1 = k - 1
    BY <1>1, <1>6, <2>1, <2>2, <2>3, SameDelimiters
  <2>5. j = (j - 1) + 1 /\ k = (k - 1) + 1
    <3>1. j \in Nat /\ k \in Nat BY <1>1
    <3> QED BY <3>1
  <2> QED BY <2>4, <2>5
<1> QED BY <1>7, <1>8, <1>9, <1>10

\* No two values begin at one place.
LEMMA ValuesDetermined ==
    ASSUME NEW t, IsText(t), NEW d \in 0 .. NestingLimit
    PROVE  Determined(t, Values(t)[d])
<1> DEFINE W(n) == Values(t)[n]
           T == {n \in 0 .. NestingLimit : ~Determined(t, W(n))}
<1>1. NestingLimit \in Nat
  BY CallsAssumption
<1>2. \A i, j : <<i, j>> \in Atoms(t) =>
          /\ i \in Nat /\ j = i + 1 /\ t[i] \in Scalars \cup Strings
  BY AtomsFacts, SpansFacts
<1>3. \A s \in Spans(t) : s = <<s[1], s[2]>>
  BY SpansFacts
<1>4. Determined(t, Atoms(t))
  <2>1. \A r, s \in Atoms(t) : r[1] = s[1] => r = s
    BY <1>2, <1>3, AtomsFacts
  <2>2. \A s \in Atoms(t) : t[s[1]] \in Scalars \cup Strings
    BY DEF Atoms
  <2> QED BY <2>1, <2>2, AtomsFacts DEF Determined
<1>5. ASSUME NEW inner, Determined(t, inner)
      PROVE  Determined(t, Atoms(t) \cup Lists(t, inner))
  <2>1. \A i, j : <<i, j>> \in Lists(t, inner) => t[i] \in {"[", "{"}
    BY ListsFacts DEF IsList
  <2>2. \A i, j, k : <<i, j>> \in Lists(t, inner) /\ <<i, k>> \in Lists(t, inner) => j = k
    BY <1>5, OneList
  <2>3. \A i, j, k : ~(<<i, j>> \in Lists(t, inner) /\ <<i, k>> \in Atoms(t))
    BY <1>2, <2>1, TokensDiffer DEF Scalars
  <2>4. Atoms(t) \cup Lists(t, inner) \subseteq Spans(t)
    BY AtomsFacts, ListsFacts
  <2>5. ASSUME NEW r \in Atoms(t) \cup Lists(t, inner), NEW s \in Atoms(t) \cup Lists(t, inner),
               r[1] = s[1]
        PROVE  r = s
    <3>1. r = <<r[1], r[2]>> /\ s = <<r[1], s[2]>> BY <1>3, <2>4, <2>5
    <3>2. r[2] = s[2]
      <4>1. CASE r \in Atoms(t) /\ s \in Atoms(t) BY <1>2, <3>1, <4>1
      <4>2. CASE r \in Lists(t, inner) /\ s \in Lists(t, inner) BY <2>2, <3>1, <4>2
      <4> QED BY <2>3, <2>5, <3>1, <4>1, <4>2
    <3> QED BY <3>1, <3>2
  <2>6. ASSUME NEW s \in Atoms(t) \cup Lists(t, inner)
        PROVE  t[s[1]] \in Scalars \cup Strings \cup {"[", "{"}
    <3>1. s = <<s[1], s[2]>> BY <1>3, <2>4
    <3> QED BY <1>2, <2>1, <3>1
  <2> QED BY <2>4, <2>5, <2>6 DEF Determined
<1>6. T = {}
  <2> SUFFICES ASSUME T # {} PROVE FALSE
    OBVIOUS
  <2> HIDE DEF W
  <2>1. T \subseteq Nat BY <1>1
  <2>2. PICK m \in T : \A n \in T : m <= n
    <3> HIDE DEF T
    <3> QED BY <2>1, LeastNatural
  <2>3. CASE m = 0
    BY <1>4, <2>2, <2>3, ValuesFacts DEF W
  <2>4. CASE m # 0
    <3>1. m \in 1 .. NestingLimit /\ m - 1 \in 0 .. NestingLimit /\ m - 1 < m
      BY <1>1, <2>2, <2>4
    <3>2. Determined(t, W(m - 1)) BY <2>1, <2>2, <3>1
    <3>3. W(m) = Atoms(t) \cup Lists(t, W(m - 1)) BY <3>1, ValuesFacts DEF W
    <3> QED BY <1>5, <2>2, <3>2, <3>3
  <2> QED BY <2>3, <2>4
<1> QED BY <1>6

-----------------------------------------------------------------------------
(***************************************************************************)
(* A list that is being read.                                              *)
(***************************************************************************)
\* What the list that begins at i has before its delimiter c.
SoFar(t, inner, i, c) ==
    \E C \in SUBSET Commas(t, i + 1, c) :
        c \in {i} \cup C /\ AreSeparated(t, inner, i, C, {})

\* The list that begins at i, and of which c is a delimiter, can be completed.
Ahead(t, inner, i, c) ==
    \E j \in 1 .. Len(t) + 1 : \E C \in SUBSET Commas(t, i + 1, j - 2) :
        /\ j >= i + 2 /\ Bracketed(t, i, j - 1)
        /\ c \in {i} \cup C /\ AreSeparated(t, inner, i, C, {j - 1})

\* The same for any range.
LEMMA CommasRange ==
    ASSUME NEW t, NEW first \in Nat, NEW last \in Int
    PROVE  \A c \in Commas(t, first, last) :
              c \in Nat /\ first <= c /\ c <= last /\ IsComma(t, c)
<1>1. \A c \in Commas(t, first, last) : c \in first .. last /\ IsComma(t, c)
  BY DEF Commas, IsComma
<1>2. \A c \in first .. last : c \in Nat /\ first <= c /\ c <= last
  OBVIOUS
<1> QED BY <1>1, <1>2

\* One more element, behind the delimiter that was the last.
LEMMA ElementAdded ==
    ASSUME NEW t, NEW inner, NEW i \in Nat, NEW c \in Nat, NEW b \in Nat, i <= c, c < b,
           NEW C \in SUBSET Commas(t, i + 1, c), c \in {i} \cup C,
           AreSeparated(t, inner, i, C, {}), IsElement(t, inner, t[i], c, b)
    PROVE  /\ AreSeparated(t, inner, i, C, {b})
           /\ AreSeparated(t, inner, i, C \cup {b}, {})
<1>1. \A x \in C : x \in Nat /\ i < x /\ x <= c
  <2>1. \A x \in Commas(t, i + 1, c) : x \in Nat /\ i + 1 <= x /\ x <= c
    BY CommasRange
  <2>2. \A x \in Nat : i + 1 <= x => i < x
    OBVIOUS
  <2> QED BY <2>1, <2>2
<1>2. ASSUME NEW x \in {i} \cup C, x < b, \A y \in C : y <= x \/ y >= b
      PROVE  x = c
  <2>1. x \in Nat /\ x <= c BY <1>1
  <2>2. CASE c \in C
    <3>1. c <= x \/ c >= b BY <1>2, <2>2
    <3> QED BY <2>1, <3>1
  <2>3. CASE c = i
    <3>1. \A y \in C : FALSE BY <1>1, <2>3
    <3> QED BY <2>3, <3>1
  <2> QED BY <2>2, <2>3
<1>3. ASSUME NEW x \in {i} \cup C, NEW y \in C, x < y,
             \A z \in C : z <= x \/ z >= y
      PROVE  IsElement(t, inner, t[i], x, y)
  BY <1>3 DEF AreSeparated
<1>4. ASSUME NEW x \in {i} \cup C, x < b, \A z \in C : z <= x \/ z >= b
      PROVE  IsElement(t, inner, t[i], x, b)
  BY <1>2, <1>4
<1>5. AreSeparated(t, inner, i, C, {b})
  BY <1>3, <1>4 DEF AreSeparated
<1>6. ASSUME NEW x \in {i} \cup (C \cup {b}), NEW y \in C \cup {b}, x < y,
             \A z \in C \cup {b} : z <= x \/ z >= y
      PROVE  IsElement(t, inner, t[i], x, y)
  <2>1. x # b
    <3>1. x \in Nat /\ y \in Nat /\ y <= b BY <1>1
    <3> QED BY <1>6, <3>1
  <2>2. x \in {i} \cup C BY <2>1
  <2>3. \A z \in C : z <= x \/ z >= y BY <1>6
  <2> QED BY <1>3, <1>4, <1>6, <2>2, <2>3
<1>7. AreSeparated(t, inner, i, C \cup {b}, {})
  BY <1>6 DEF AreSeparated
<1> QED BY <1>5, <1>7

\* At the opening bracket nothing has been read.
LEMMA SoFarStart ==
    ASSUME NEW t, NEW inner, NEW i
    PROVE  SoFar(t, inner, i, i)
<1>1. AreSeparated(t, inner, i, {}, {})
  BY DEF AreSeparated
<1> QED BY <1>1 DEF SoFar

\* A comma: the element before it belongs to the list.
LEMMA SoFarComma ==
    ASSUME NEW t, NEW inner, NEW i \in Nat, NEW c \in Nat, NEW b \in Nat, i <= c, c < b,
           SoFar(t, inner, i, c), IsElement(t, inner, t[i], c, b), IsComma(t, b)
    PROVE  SoFar(t, inner, i, b)
<1>1. PICK C \in SUBSET Commas(t, i + 1, c) :
         c \in {i} \cup C /\ AreSeparated(t, inner, i, C, {})
  BY DEF SoFar
<1>2. AreSeparated(t, inner, i, C \cup {b}, {})
  BY <1>1, ElementAdded
<1>3. C \cup {b} \in SUBSET Commas(t, i + 1, b)
  <2>1. \A x \in C : x \in i + 1 .. b /\ IsComma(t, x)
    <3>1. \A x \in C : x \in Nat /\ i + 1 <= x /\ x <= c /\ IsComma(t, x)
      BY CommasRange
    <3>2. \A x \in Nat : i + 1 <= x /\ x <= c => x \in i + 1 .. b
      OBVIOUS
    <3> QED BY <3>1, <3>2
  <2>2. b \in i + 1 .. b
    OBVIOUS
  <2> QED BY <2>1, <2>2 DEF Commas, IsComma
<1> QED BY <1>2, <1>3 DEF SoFar

\* The closing bracket: the list is complete.
LEMMA SoFarEnd ==
    ASSUME NEW t, IsText(t), NEW inner, NEW i \in 1 .. Len(t), NEW c \in Nat,
           NEW m \in 1 .. Len(t), i <= c, c < m,
           SoFar(t, inner, i, c), IsElement(t, inner, t[i], c, m),
           Bracketed(t, i, m)
    PROVE  <<i, m + 1>> \in Lists(t, inner)
<1>1. PICK C \in SUBSET Commas(t, i + 1, c) :
         c \in {i} \cup C /\ AreSeparated(t, inner, i, C, {})
  BY DEF SoFar
<1>2. Len(t) \in Nat /\ i \in Nat /\ m \in Nat
  BY SpansFacts
<1>3. AreSeparated(t, inner, i, C, {m})
  BY <1>1, <1>2, ElementAdded
<1>4. m + 1 >= i + 2 /\ (m + 1) - 1 = m /\ m + 1 \in 1 .. Len(t) + 1 /\ i < m + 1
  BY <1>2
<1>5. C \in SUBSET Commas(t, i + 1, (m + 1) - 2)
  <2>1. \A x \in C : x \in Nat /\ i + 1 <= x /\ x <= c /\ IsComma(t, x)
    BY <1>2, CommasRange
  <2>2. \A x \in Nat : i + 1 <= x /\ x <= c => x \in i + 1 .. (m + 1) - 2
    BY <1>2
  <2> QED BY <2>1, <2>2 DEF Commas, IsComma
<1>6. IsList(t, inner, i, m + 1)
  BY <1>3, <1>4, <1>5 DEF IsList, Bracketed
<1> QED BY <1>4, <1>6, SpansFacts, ListsFacts

\* A bracket that is closed at once is a list.
LEMMA EmptyList ==
    ASSUME NEW t, IsText(t), NEW inner, NEW i \in Nat, i >= 1, i + 1 \in 1 .. Len(t),
           Bracketed(t, i, i + 1)
    PROVE  <<i, i + 2>> \in Lists(t, inner)
<1>1. Len(t) \in Nat
  BY SpansFacts
<1>2. /\ i \in 1 .. Len(t) /\ i + 2 \in 1 .. Len(t) + 1 /\ i < i + 2
      /\ (i + 2) - 1 = i + 1 /\ i + 2 >= i + 2
  BY <1>1
<1>3. Bracketed(t, i, (i + 2) - 1)
  BY <1>2
<1>4. IsList(t, inner, i, i + 2)
  BY <1>2, <1>3, Zenon DEF IsList, Bracketed
<1> QED BY <1>2, <1>4, SpansFacts, ListsFacts

\* Behind a delimiter of a list that can be completed stands an element, and
\* behind that another such delimiter or the closing bracket.
LEMMA AheadElement ==
    ASSUME NEW t, IsText(t), NEW inner, NEW i \in Nat, NEW c, Ahead(t, inner, i, c)
    PROVE  \E b \in 1 .. Len(t) :
              /\ c < b /\ IsElement(t, inner, t[i], c, b)
              /\ \/ IsComma(t, b) /\ Ahead(t, inner, i, b)
                 \/ Bracketed(t, i, b)
<1>0. PICK j \in 1 .. Len(t) + 1 : \E C \in SUBSET Commas(t, i + 1, j - 2) :
         /\ j >= i + 2 /\ Bracketed(t, i, j - 1)
         /\ c \in {i} \cup C /\ AreSeparated(t, inner, i, C, {j - 1})
  BY DEF Ahead
<1>1. PICK C \in SUBSET Commas(t, i + 1, j - 2) :
         /\ j >= i + 2 /\ Bracketed(t, i, j - 1)
         /\ c \in {i} \cup C /\ AreSeparated(t, inner, i, C, {j - 1})
  BY <1>0
<1>2. Len(t) \in Nat /\ j \in Nat
  BY SpansFacts
<1>3. j - 1 \in 1 .. Len(t) /\ j - 1 \in Nat /\ i < j - 1 /\ (j - 1) - 1 = j - 2
  BY <1>1, <1>2
<1>4. \A x \in C : x \in Nat /\ i + 1 <= x /\ x <= j - 2 /\ IsComma(t, x)
  <2>1. i + 1 \in Nat /\ j - 2 \in Int BY <1>2
  <2> QED BY <2>1, CommasRange
<1>5. \A x \in Nat : i + 1 <= x /\ x <= j - 2 => x \in i + 1 .. (j - 1) - 1 /\ x \in 1 .. Len(t)
  BY <1>2
<1>6. C \subseteq i + 1 .. (j - 1) - 1 /\ \A x \in C : x \in 1 .. Len(t)
  BY <1>4, <1>5
<1>7. PICK b \in C \cup {j - 1} : c < b /\ IsElement(t, inner, t[i], c, b)
  BY <1>1, <1>3, <1>6, ElementAfter
<1>8. CASE b \in C
  <2>1. Ahead(t, inner, i, b) BY <1>1, <1>8 DEF Ahead
  <2> QED BY <1>4, <1>6, <1>7, <1>8, <2>1
<1>9. CASE b = j - 1
  BY <1>1, <1>3, <1>7, <1>9
<1> QED BY <1>8, <1>9

\* A list that is not empty can be completed from its opening bracket.
LEMMA AheadStart ==
    ASSUME NEW t, IsText(t), NEW inner, NEW i \in Nat, NEW j, <<i, j>> \in Lists(t, inner)
    PROVE  \/ i + 1 \in 1 .. Len(t) /\ Bracketed(t, i, i + 1)
           \/ Ahead(t, inner, i, i)
<1>1. /\ Len(t) \in Nat /\ j \in 1 .. Len(t) + 1 /\ i \in 1 .. Len(t)
      /\ IsList(t, inner, i, j)
  BY SpansFacts, ListsFacts
<1>2. /\ j >= i + 2 /\ Bracketed(t, i, j - 1)
      /\ \/ j = i + 2
         \/ \E C \in SUBSET Commas(t, i + 1, j - 2) : AreSeparated(t, inner, i, C, {j - 1})
  BY <1>1 DEF IsList, Bracketed
<1>3. CASE j = i + 2
  <2>1. j - 1 = i + 1 /\ i + 1 \in 1 .. Len(t) BY <1>1, <1>3
  <2> QED BY <1>2, <2>1
<1>4. CASE \E C \in SUBSET Commas(t, i + 1, j - 2) : AreSeparated(t, inner, i, C, {j - 1})
  BY <1>1, <1>2, <1>4 DEF Ahead
<1> QED BY <1>2, <1>3, <1>4

-----------------------------------------------------------------------------
(***************************************************************************)
(* The parser before token p of t, inside n lists: list k began at s[k] and *)
(* c[k] is the last of its delimiters that has been read.                  *)
(***************************************************************************)
\* CJSON_NESTING_LIMIT is a number, and below a level but 0 is another.
LEMMA Levels ==
    /\ NestingLimit \in Nat
    /\ \A n \in 0 .. NestingLimit : n \in Nat /\ (n # 0 => n \in 1 .. n
                                                            /\ n - 1 \in 0 .. NestingLimit)
<1>1. NestingLimit \in Nat
  BY CallsAssumption
<1> QED BY <1>1

\* What the elements of list k are.
Inner(t, k) == Values(t)[NestingLimit - k]
IsArray(t, i) == t[i] = "["

\* Where the value is, or will be, that list k waits for, and its key.
Start(t, s, c, k) ==
    IF k = 0 THEN 1 ELSE IF IsArray(t, s[k]) THEN c[k] + 1 ELSE c[k] + 3
KeyRead(t, s, c, k) ==
    k = 0 \/ IsArray(t, s[k]) \/ (t[c[k] + 1] \in Strings /\ t[c[k] + 2] = ":")

\* List k is the value that list k - 1 waits for, or the whole text.
Opened(t, s, c, k) ==
    /\ s[k] \in 1 .. Len(t) /\ c[k] \in Nat /\ s[k] <= c[k]
    /\ s[k] = Start(t, s, c, k - 1) /\ KeyRead(t, s, c, k - 1)
    /\ SoFar(t, Inner(t, k), s[k], c[k])

\* What the mode says of the token at p.
Here(t, p, m, n, s, c) ==
    \/ m = "value" /\ p = Start(t, s, c, n) /\ KeyRead(t, s, c, n)
    \/ m = "item" /\ n # 0 /\ p = c[n] + 1
    \/ m = "name" /\ n # 0 /\ ~IsArray(t, s[n]) /\ p = c[n] + 1
    \/ m = "colon" /\ n # 0 /\ ~IsArray(t, s[n]) /\ p = c[n] + 2 /\ t[c[n] + 1] \in Strings
    \/ m = "after" /\ KeyRead(t, s, c, n) /\ <<Start(t, s, c, n), p>> \in Inner(t, n)
    \/ m = "close" /\ n # 0 /\ p = s[n] + 1 /\ p <= Len(t) /\ Bracketed(t, s[n], p)

\* A value stands at the start of the text.
Begins(t) == \E j : <<1, j>> \in Inner(t, 0)

\* In a text that does, every open list can be completed.
Expected(t, m, n, s, c) ==
    \A k \in 1 .. n : (k = n /\ m = "close") \/ Ahead(t, Inner(t, k), s[k], c[k])

Reads(t, p, m, n, s, c) ==
    /\ \A k \in 1 .. n : Opened(t, s, c, k)
    /\ Here(t, p, m, n, s, c)
    /\ Begins(t) => Expected(t, m, n, s, c)

\* What ValuesFacts and ValuesDetermined say of the elements of list k.
LEMMA InnerFacts ==
    ASSUME NEW t, IsText(t), NEW k \in 0 .. NestingLimit
    PROVE  /\ Inner(t, k) \subseteq Spans(t)
           /\ Determined(t, Inner(t, k))
           /\ Atoms(t) \subseteq Inner(t, k)
           /\ k = NestingLimit => Inner(t, k) = Atoms(t)
           /\ k # NestingLimit =>
                Inner(t, k) = Atoms(t) \cup Lists(t, Inner(t, k + 1))
<1>1. NestingLimit \in Nat
  BY CallsAssumption
<1>2. NestingLimit - k \in 0 .. NestingLimit
  BY <1>1
<1>3. Inner(t, k) \subseteq Spans(t) /\ Determined(t, Inner(t, k))
  BY <1>2, ValuesFacts, ValuesDetermined DEF Inner
<1>4. CASE k = NestingLimit
  <2>1. NestingLimit - k = 0 BY <1>1, <1>4
  <2> QED BY <1>3, <1>4, <2>1, ValuesFacts DEF Inner
<1>5. CASE k # NestingLimit
  <2>1. NestingLimit - k \in 1 .. NestingLimit /\ (NestingLimit - k) - 1 = NestingLimit - (k + 1)
    BY <1>1, <1>5
  <2>2. Inner(t, k) = Atoms(t) \cup Lists(t, Inner(t, k + 1))
    BY <2>1, ValuesFacts DEF Inner
  <2> QED BY <1>3, <1>5, <2>2
<1> QED BY <1>4, <1>5

\* An element of list k is a value where one is due, with its key.
LEMMA ElementIs ==
    ASSUME NEW t, NEW inner, NEW s, NEW c, NEW k, k # 0, NEW b
    PROVE  IsElement(t, inner, t[s[k]], c[k], b)
              <=> KeyRead(t, s, c, k) /\ <<Start(t, s, c, k), b>> \in inner
  BY DEF IsElement, KeyRead, Start, IsArray

\* It stands behind the delimiter.
LEMMA ElementBehind ==
    ASSUME NEW t, IsText(t), NEW inner, inner \subseteq Spans(t), NEW s, NEW c, NEW k, k # 0,
           c[k] \in Nat, NEW b, <<Start(t, s, c, k), b>> \in inner
    PROVE  c[k] < b
<1>1. Len(t) \in Nat
  BY SpansFacts
<1>2. Start(t, s, c, k) \in 1 .. Len(t) /\ b \in 1 .. Len(t) + 1 /\ Start(t, s, c, k) < b
  BY SpansFacts
<1>3. Start(t, s, c, k) = c[k] + 1 \/ Start(t, s, c, k) = c[k] + 3
  BY DEF Start
<1>4. CASE Start(t, s, c, k) = c[k] + 1
  <2>1. c[k] + 1 < b /\ b \in Nat BY <1>1, <1>2, <1>4
  <2> QED BY <2>1
<1>5. CASE Start(t, s, c, k) = c[k] + 3
  <2>1. c[k] + 3 < b /\ b \in Nat BY <1>1, <1>2, <1>5
  <2> QED BY <2>1
<1> QED BY <1>3, <1>4, <1>5

\* Only the lists k and k - 1 matter to Opened.
LEMMA OpenedSame ==
    ASSUME NEW t, NEW s, NEW c, NEW s2, NEW c2, NEW k, Opened(t, s, c, k),
           s2[k] = s[k], c2[k] = c[k],
           k - 1 = 0 \/ (s2[k - 1] = s[k - 1] /\ c2[k - 1] = c[k - 1])
    PROVE  Opened(t, s2, c2, k)
<1>1. /\ Start(t, s2, c2, k - 1) = Start(t, s, c, k - 1)
      /\ KeyRead(t, s2, c2, k - 1) = KeyRead(t, s, c, k - 1)
  BY DEF Start, KeyRead
<1> QED BY <1>1 DEF Opened

\* In a text that begins with a value there is one where the parser waits for
\* one, and behind it the delimiter that the list goes on with.
LEMMA ValueAhead ==
    ASSUME NEW t, IsText(t), NEW p, NEW m, NEW n \in 0 .. NestingLimit, NEW s, NEW c,
           Reads(t, p, m, n, s, c), Begins(t), m # "close"
    PROVE  \E b : /\ KeyRead(t, s, c, n) /\ <<Start(t, s, c, n), b>> \in Inner(t, n)
                  /\ n # 0 => /\ b \in 1 .. Len(t) /\ c[n] < b
                              /\ \/ IsComma(t, b) /\ Ahead(t, Inner(t, n), s[n], b)
                                 \/ Bracketed(t, s[n], b)
<1>1. CASE n = 0
  BY <1>1 DEF Begins, KeyRead, Start
<1>2. CASE n # 0
  <2>1. n \in 1 .. n
    <3> QED BY <1>2, Levels
  <2>2. Opened(t, s, c, n) /\ Ahead(t, Inner(t, n), s[n], c[n])
    BY <2>1 DEF Reads, Expected
  <2>3. s[n] \in Nat
    <3>1. Len(t) \in Nat BY SpansFacts
    <3> QED BY <2>2, <3>1 DEF Opened
  <2>4. PICK b \in 1 .. Len(t) :
           /\ c[n] < b /\ IsElement(t, Inner(t, n), t[s[n]], c[n], b)
           /\ \/ IsComma(t, b) /\ Ahead(t, Inner(t, n), s[n], b)
              \/ Bracketed(t, s[n], b)
    BY <2>2, <2>3, AheadElement
  <2>5. KeyRead(t, s, c, n) /\ <<Start(t, s, c, n), b>> \in Inner(t, n)
    BY <1>2, <2>4, ElementIs
  <2> QED BY <2>4, <2>5
<1> QED BY <1>1, <1>2

\* The value that has just been read is that one.
LEMMA ValueRead ==
    ASSUME NEW t, IsText(t), NEW p, NEW n \in 0 .. NestingLimit, NEW s, NEW c,
           Reads(t, p, "after", n, s, c), Begins(t), n # 0
    PROVE  /\ p \in 1 .. Len(t)
           /\ \/ IsComma(t, p) /\ Ahead(t, Inner(t, n), s[n], p)
              \/ Bracketed(t, s[n], p)
<1>1. PICK b : /\ <<Start(t, s, c, n), b>> \in Inner(t, n)
               /\ b \in 1 .. Len(t)
               /\ \/ IsComma(t, b) /\ Ahead(t, Inner(t, n), s[n], b)
                  \/ Bracketed(t, s[n], b)
  BY ValueAhead
<1>2. <<Start(t, s, c, n), p>> \in Inner(t, n)
  BY DEF Reads, Here
<1>3. p = b
  <2>1. Determined(t, Inner(t, n)) BY InnerFacts
  <2> QED BY <1>1, <1>2, <2>1 DEF Determined
<1> QED BY <1>1, <1>3

\* The first token.
LEMMA ReadsStart ==
    ASSUME NEW t, NEW s, NEW c
    PROVE  Reads(t, 1, "value", 0, s, c)
  BY DEF Reads, Here, Start, KeyRead, Expected

\* parse_value: a number, a literal or a string.
LEMMA ReadsAtom ==
    ASSUME NEW t, IsText(t), NEW p \in 1 .. Len(t), NEW n \in 0 .. NestingLimit,
           NEW s, NEW c, Reads(t, p, "value", n, s, c), t[p] \in Scalars \cup Strings
    PROVE  Reads(t, p + 1, "after", n, s, c)
<1>1. <<p, p + 1>> \in Atoms(t)
  <2>1. Len(t) \in Nat BY SpansFacts
  <2>2. p + 1 \in 1 .. Len(t) + 1 /\ p < p + 1 BY <2>1
  <2> QED BY <2>2, SpansFacts, AtomsFacts
<1>2. <<p, p + 1>> \in Inner(t, n)
  BY <1>1, InnerFacts
<1>3. p = Start(t, s, c, n) /\ KeyRead(t, s, c, n)
  BY DEF Reads, Here
<1>4. Here(t, p + 1, "after", n, s, c)
  BY <1>2, <1>3 DEF Here
<1>5. Begins(t) => Expected(t, "after", n, s, c)
  BY DEF Reads, Expected
<1> QED BY <1>4, <1>5 DEF Reads

\* parse_array and parse_object: a new element, its key and its colon.
LEMMA ReadsElement ==
    ASSUME NEW t, NEW p, NEW n, NEW s, NEW c, Reads(t, p, "item", n, s, c)
    PROVE  Reads(t, p, IF IsArray(t, s[n]) THEN "value" ELSE "name", n, s, c)
<1> DEFINE m == IF IsArray(t, s[n]) THEN "value" ELSE "name"
<1>1. n # 0 /\ p = c[n] + 1
  BY DEF Reads, Here
<1>2. Here(t, p, m, n, s, c)
  BY <1>1 DEF Here, Start, KeyRead
<1>3. Begins(t) => Expected(t, m, n, s, c)
  BY DEF Reads, Expected
<1> QED BY <1>2, <1>3 DEF Reads

\* parse_object: the key, read by parse_string.
LEMMA ReadsName ==
    ASSUME NEW t, NEW p, NEW n, NEW s, NEW c, Reads(t, p, "name", n, s, c),
           n # 0 => c[n] \in Nat, t[p] \in Strings
    PROVE  Reads(t, p + 1, "colon", n, s, c)
<1>1. n # 0 /\ ~IsArray(t, s[n]) /\ p = c[n] + 1
  BY DEF Reads, Here
<1>2. p + 1 = c[n] + 2
  BY <1>1
<1>3. Here(t, p + 1, "colon", n, s, c)
  BY <1>1, <1>2 DEF Here
<1>4. Begins(t) => Expected(t, "colon", n, s, c)
  BY DEF Reads, Expected
<1> QED BY <1>3, <1>4 DEF Reads

\* parse_object: the colon.
LEMMA ReadsColon ==
    ASSUME NEW t, NEW p, NEW n, NEW s, NEW c, Reads(t, p, "colon", n, s, c),
           n # 0 => c[n] \in Nat, t[p] = ":"
    PROVE  Reads(t, p + 1, "value", n, s, c)
<1>1. /\ n # 0 /\ ~IsArray(t, s[n]) /\ p = c[n] + 2 /\ t[c[n] + 1] \in Strings
  BY DEF Reads, Here
<1>2. p + 1 = c[n] + 3
  BY <1>1
<1>3. Here(t, p + 1, "value", n, s, c)
  BY <1>1, <1>2 DEF Here, Start, KeyRead
<1>4. Begins(t) => Expected(t, "value", n, s, c)
  BY DEF Reads, Expected
<1> QED BY <1>3, <1>4 DEF Reads

\* The next position is in a text, or is not.
LEMMA NextPosition ==
    \A l, q \in Nat : (q + 1 \in 1 .. l => q < l) /\ (q < l => q + 1 <= l)
  OBVIOUS

\* parse_array and parse_object see at the opening bracket if the list is empty.
EnterMode(t, p) == IF p < Len(t) /\ Bracketed(t, p, p + 1) THEN "close" ELSE "item"

\* The bracket opens list n + 1, and it is expected to be completed or closed.
LEMMA ReadsEnter ==
    ASSUME NEW t, IsText(t), NEW p \in 1 .. Len(t), NEW n \in 0 .. NestingLimit - 1,
           NEW s \in [Nat -> Nat], NEW c \in [Nat -> Nat], Reads(t, p, "value", n, s, c),
           Opens(t, p)
    PROVE  Reads(t, p + 1, EnterMode(t, p), n + 1, [s EXCEPT ![n + 1] = p], [c EXCEPT ![n + 1] = p])
<1> DEFINE m == EnterMode(t, p)
           s2 == [s EXCEPT ![n + 1] = p]
           c2 == [c EXCEPT ![n + 1] = p]
<1>1. /\ n \in 0 .. NestingLimit /\ n # NestingLimit /\ n \in Nat /\ n + 1 \in Nat
      /\ n + 1 # 0 /\ (n + 1) - 1 = n /\ n + 1 # n
      /\ \A k \in 1 .. n : k \in Nat /\ k # n + 1 /\ k - 1 \in Nat /\ k - 1 # n + 1
      /\ \A k \in 1 .. n + 1 : k \in 1 .. n \/ k = n + 1
  <2>1. NestingLimit \in Nat BY Levels
  <2>2. n \in 0 .. NestingLimit /\ n # NestingLimit /\ n \in Nat /\ n + 1 \in Nat
    BY <2>1
  <2>3. n + 1 # 0 /\ (n + 1) - 1 = n /\ n + 1 # n BY <2>2
  <2>4. \A k \in 1 .. n : k \in Nat /\ k # n + 1 /\ k - 1 \in Nat /\ k - 1 # n + 1
    BY <2>2
  <2>5. \A k \in 1 .. n + 1 : k \in 1 .. n \/ k = n + 1 BY <2>2
  <2> QED BY <2>2, <2>3, <2>4, <2>5
<1>2. /\ Len(t) \in Nat /\ p \in Nat /\ p <= p
      /\ p + 1 \in 1 .. Len(t) => p < Len(t)
      /\ p < Len(t) => p + 1 <= Len(t)
  <2>1. Len(t) \in Nat BY SpansFacts
  <2>2. p \in Nat /\ p <= p BY <2>1
  <2> QED BY <2>1, <2>2, NextPosition
<1>3. s2[n + 1] = p /\ c2[n + 1] = p /\ \A k \in Nat : k # n + 1 => s2[k] = s[k] /\ c2[k] = c[k]
  BY <1>1
<1> HIDE DEF m, s2, c2
<1>4. p = Start(t, s, c, n) /\ KeyRead(t, s, c, n) /\ \A k \in 1 .. n : Opened(t, s, c, k)
  BY DEF Reads, Here
<1>5. Opened(t, s2, c2, n + 1)
  <2>1. Start(t, s2, c2, n) = Start(t, s, c, n) /\ KeyRead(t, s2, c2, n) = KeyRead(t, s, c, n)
    BY <1>1, <1>3 DEF Start, KeyRead
  <2>2. SoFar(t, Inner(t, n + 1), p, p) BY SoFarStart
  <2> QED BY <1>1, <1>2, <1>3, <1>4, <2>1, <2>2 DEF Opened
<1>6. ASSUME NEW k \in 1 .. n PROVE Opened(t, s2, c2, k)
  <2>1. s2[k] = s[k] /\ c2[k] = c[k] /\ s2[k - 1] = s[k - 1] /\ c2[k - 1] = c[k - 1]
    BY <1>1, <1>3
  <2> QED BY <1>4, <2>1, OpenedSame
<1>7. Here(t, p + 1, m, n + 1, s2, c2)
  <2>1. CASE m = "close"
    <3>1. p < Len(t) /\ Bracketed(t, p, p + 1) BY <2>1 DEF m, EnterMode
    <3> QED BY <1>1, <1>2, <1>3, <2>1, <3>1 DEF Here
  <2>2. CASE m = "item"
    BY <1>1, <1>3, <2>2 DEF Here
  <2> QED BY <2>1, <2>2 DEF m, EnterMode
<1>8. ASSUME Begins(t) PROVE Expected(t, m, n + 1, s2, c2)
  <2>1. ASSUME NEW k \in 1 .. n PROVE Ahead(t, Inner(t, k), s2[k], c2[k])
    <3>1. Ahead(t, Inner(t, k), s[k], c[k]) BY <1>8 DEF Reads, Expected
    <3> QED BY <1>1, <1>3, <3>1
  <2>2. ASSUME m # "close" PROVE Ahead(t, Inner(t, n + 1), p, p)
    <3>1. PICK b : <<p, b>> \in Inner(t, n)
      BY <1>1, <1>4, <1>8, ValueAhead
    <3>2. Inner(t, n) = Atoms(t) \cup Lists(t, Inner(t, n + 1))
      BY <1>1, InnerFacts
    <3>3. <<p, b>> \notin Atoms(t)
      BY AtomsFacts, TokensDiffer DEF Scalars, Opens
    <3>4. \/ p + 1 \in 1 .. Len(t) /\ Bracketed(t, p, p + 1)
          \/ Ahead(t, Inner(t, n + 1), p, p)
      BY <1>2, <3>1, <3>2, <3>3, AheadStart
    <3> QED BY <1>2, <2>2, <3>4 DEF m, EnterMode
  <2> QED BY <1>1, <1>3, <2>1, <2>2 DEF Expected
<1> QED BY <1>1, <1>5, <1>6, <1>7, <1>8 DEF Reads, m, s2, c2

\* A comma.
LEMMA ReadsComma ==
    ASSUME NEW t, IsText(t), NEW p \in 1 .. Len(t), NEW n \in 0 .. NestingLimit, n # 0,
           NEW s \in [Nat -> Nat], NEW c \in [Nat -> Nat], Reads(t, p, "after", n, s, c),
           IsComma(t, p)
    PROVE  Reads(t, p + 1, "item", n, s, [c EXCEPT ![n] = p])
<1> DEFINE c2 == [c EXCEPT ![n] = p]
<1>1. n \in Nat /\ n \in 1 .. n /\ \A k \in 1 .. n : k \in Nat /\ k - 1 \in Nat /\ k - 1 # n
  BY Levels
<1>2. Len(t) \in Nat /\ p \in Nat
  BY SpansFacts
<1>3. c2[n] = p /\ \A k \in Nat : k # n => c2[k] = c[k]
  BY <1>1
<1> HIDE DEF c2
<1>4. /\ KeyRead(t, s, c, n) /\ <<Start(t, s, c, n), p>> \in Inner(t, n)
      /\ \A k \in 1 .. n : Opened(t, s, c, k)
  BY DEF Reads, Here
<1>5. Opened(t, s, c, n) /\ s[n] \in Nat /\ s[n] <= c[n] /\ c[n] \in Nat
  BY <1>1, <1>2, <1>4 DEF Opened
<1>6. c[n] < p
  <2>1. Inner(t, n) \subseteq Spans(t) BY InnerFacts
  <2> QED BY <1>4, <1>5, <2>1, ElementBehind
<1>7. Opened(t, s, c2, n)
  <2>1. SoFar(t, Inner(t, n), s[n], p)
    <3>1. IsElement(t, Inner(t, n), t[s[n]], c[n], p) BY <1>4, ElementIs
    <3>2. SoFar(t, Inner(t, n), s[n], c[n]) BY <1>5 DEF Opened
    <3> QED BY <1>2, <1>5, <1>6, <3>1, <3>2, SoFarComma
  <2>2. /\ Start(t, s, c2, n - 1) = Start(t, s, c, n - 1)
        /\ KeyRead(t, s, c2, n - 1) = KeyRead(t, s, c, n - 1)
    BY <1>1, <1>3 DEF Start, KeyRead
  <2>3. s[n] <= p BY <1>2, <1>5, <1>6
  <2> QED BY <1>2, <1>3, <1>5, <2>1, <2>2, <2>3 DEF Opened
<1>8. ASSUME NEW k \in 1 .. n, k # n PROVE Opened(t, s, c2, k)
  <2>1. c2[k] = c[k] /\ c2[k - 1] = c[k - 1] BY <1>1, <1>3, <1>8
  <2> QED BY <1>4, <2>1, OpenedSame
<1>9. Here(t, p + 1, "item", n, s, c2)
  BY <1>3 DEF Here
<1>10. ASSUME Begins(t) PROVE Expected(t, "item", n, s, c2)
  <2>1. Ahead(t, Inner(t, n), s[n], p)
    <3>1. IsComma(t, p) => ~Bracketed(t, s[n], p) BY DEF IsComma, Bracketed
    <3> QED BY <1>10, <3>1, ValueRead
  <2>2. \A k \in 1 .. n : Ahead(t, Inner(t, k), s[k], c[k]) BY <1>10 DEF Reads, Expected
  <2>3. ASSUME NEW k \in 1 .. n PROVE Ahead(t, Inner(t, k), s[k], c2[k])
    <3>1. CASE k = n BY <1>3, <2>1, <3>1
    <3>2. CASE k # n BY <1>1, <1>3, <2>2, <3>2
    <3> QED BY <3>1, <3>2
  <2> QED BY <2>3 DEF Expected
<1> QED BY <1>7, <1>8, <1>9, <1>10 DEF Reads, c2

\* The token at p closes list n.
Closes(t, p, m, n, s) ==
    \/ m = "close"
    \/ m = "after" /\ p \in 1 .. Len(t) /\ Bracketed(t, s[n], p)

\* `success:` of parse_array and parse_object: the list is the value that the
\* next outer list waited for.
LEMMA ReadsClose ==
    ASSUME NEW t, IsText(t), NEW p \in Nat, NEW m, NEW n \in 0 .. NestingLimit, n # 0,
           NEW s \in [Nat -> Nat], NEW c \in [Nat -> Nat], Reads(t, p, m, n, s, c),
           Closes(t, p, m, n, s)
    PROVE  Reads(t, p + 1, "after", n - 1, s, c)
<1>1. /\ n \in Nat /\ n \in 1 .. n /\ n - 1 \in 0 .. NestingLimit /\ (n - 1) + 1 = n
      /\ n - 1 # NestingLimit /\ \A k \in 1 .. n - 1 : k \in 1 .. n /\ k # n
  BY Levels
<1>2. Len(t) \in Nat
  BY SpansFacts
<1>3. \A k \in 1 .. n : Opened(t, s, c, k)
  BY DEF Reads
<1>4. /\ s[n] \in 1 .. Len(t) /\ s[n] \in Nat /\ c[n] \in Nat /\ s[n] <= c[n]
      /\ s[n] = Start(t, s, c, n - 1) /\ KeyRead(t, s, c, n - 1)
      /\ SoFar(t, Inner(t, n), s[n], c[n])
      /\ \A q \in Nat : q = s[n] + 1 /\ q <= Len(t) =>
            s[n] + 1 \in 1 .. Len(t) /\ s[n] >= 1 /\ q + 1 = s[n] + 2
  <2>1. Opened(t, s, c, n) BY <1>1, <1>3
  <2>2. s[n] \in 1 .. Len(t) BY <2>1 DEF Opened
  <2>3. \A q \in Nat : q = s[n] + 1 /\ q <= Len(t) =>
            s[n] + 1 \in 1 .. Len(t) /\ s[n] >= 1 /\ q + 1 = s[n] + 2
    <3>1. \A l, i, q \in Nat : i >= 1 /\ q = i + 1 /\ q <= l =>
              i + 1 \in 1 .. l /\ q + 1 = i + 2
      OBVIOUS
    <3>2. s[n] \in Nat /\ s[n] >= 1 BY <1>2, <2>2
    <3> QED BY <1>2, <3>1, <3>2
  <2>4. s[n] \in Nat BY <1>2, <2>2
  <2> QED BY <2>1, <2>3, <2>4 DEF Opened
<1>5. <<s[n], p + 1>> \in Lists(t, Inner(t, n))
  <2>1. CASE m = "close"
    <3>1. p = s[n] + 1 /\ p <= Len(t) /\ Bracketed(t, s[n], p) BY <2>1 DEF Reads, Here
    <3> QED BY <1>2, <1>4, <3>1, EmptyList
  <2>2. CASE m = "after" /\ p \in 1 .. Len(t) /\ Bracketed(t, s[n], p)
    <3>1. KeyRead(t, s, c, n) /\ <<Start(t, s, c, n), p>> \in Inner(t, n) BY <2>2 DEF Reads, Here
    <3>2. c[n] < p
      <4>1. Inner(t, n) \subseteq Spans(t) BY InnerFacts
      <4> QED BY <1>4, <3>1, <4>1, ElementBehind
    <3>3. IsElement(t, Inner(t, n), t[s[n]], c[n], p) BY <3>1, ElementIs
    <3> QED BY <1>4, <2>2, <3>2, <3>3, SoFarEnd
  <2> QED BY <2>1, <2>2 DEF Closes
<1>6. <<s[n], p + 1>> \in Inner(t, n - 1)
  BY <1>1, <1>5, InnerFacts
<1>7. Here(t, p + 1, "after", n - 1, s, c)
  BY <1>4, <1>6 DEF Here
<1>8. Begins(t) => Expected(t, "after", n - 1, s, c)
  BY <1>1 DEF Reads, Expected
<1> QED BY <1>1, <1>3, <1>7, <1>8 DEF Reads

-----------------------------------------------------------------------------
(***************************************************************************)
(* Where the text begins with a value no test of the parser fails.         *)
(***************************************************************************)
\* Where a value is due there is a number, a literal, a string, or a bracket
\* that CJSON_NESTING_LIMIT still allows.
LEMMA ExpectsValue ==
    ASSUME NEW t, IsText(t), NEW p, NEW n \in 0 .. NestingLimit, NEW s, NEW c,
           Reads(t, p, "value", n, s, c), Begins(t)
    PROVE  /\ p \in 1 .. Len(t)
           /\ t[p] \in Scalars \cup Strings \/ (Opens(t, p) /\ n # NestingLimit)
<1>1. p = Start(t, s, c, n)
  BY DEF Reads, Here
<1>2. PICK b : <<p, b>> \in Inner(t, n)
  BY <1>1, ValueAhead
<1>3. p \in 1 .. Len(t)
  BY <1>2, InnerFacts, SpansFacts
<1>4. t[p] \in Scalars \cup Strings \/ Opens(t, p)
  <2>1. Determined(t, Inner(t, n)) BY InnerFacts
  <2>2. t[p] \in Scalars \cup Strings \cup {"[", "{"} BY <1>2, <2>1 DEF Determined
  <2> QED BY <2>2 DEF Opens
<1>5. n = NestingLimit => t[p] \in Scalars \cup Strings
  BY <1>2, InnerFacts, AtomsFacts
<1> QED BY <1>3, <1>4, <1>5

\* Arithmetic of a member: two tokens before its value.
LEMMA TwoBefore ==
    \A n, p \in Nat : p + 3 \in 1 .. n => p + 1 \in 1 .. n /\ p + 2 \in 1 .. n
OBVIOUS

\* A key, and a colon behind it.
LEMMA ExpectsMember ==
    ASSUME NEW t, IsText(t), NEW p \in Nat, NEW m \in {"name", "colon"},
           NEW n \in 0 .. NestingLimit, NEW s, NEW c, Reads(t, p, m, n, s, c), Begins(t)
    PROVE  /\ p \in 1 .. Len(t)
           /\ m = "name" => t[p] \in Strings
           /\ m = "colon" => t[p] = ":"
<1>1. n # 0 /\ ~IsArray(t, s[n]) /\ (m = "name" => p = c[n] + 1) /\ (m = "colon" => p = c[n] + 2)
  BY DEF Reads, Here
<1>2. PICK b : KeyRead(t, s, c, n) /\ <<Start(t, s, c, n), b>> \in Inner(t, n)
  BY ValueAhead
<1>3. t[c[n] + 1] \in Strings /\ t[c[n] + 2] = ":" /\ Start(t, s, c, n) = c[n] + 3
  BY <1>1, <1>2 DEF KeyRead, Start
<1>4. c[n] + 3 \in 1 .. Len(t) /\ Len(t) \in Nat
  BY <1>2, <1>3, InnerFacts, SpansFacts
<1>5. c[n] \in Nat
  <2>1. n \in 1 .. n BY <1>1, Levels
  <2> QED BY <2>1 DEF Reads, Opened
<1>6. c[n] + 1 \in 1 .. Len(t) /\ c[n] + 2 \in 1 .. Len(t)
  BY <1>4, <1>5, TwoBefore
<1> QED BY <1>1, <1>3, <1>6

-----------------------------------------------------------------------------
(***************************************************************************)
(* The invariant of the parser.                                            *)
(***************************************************************************)
\* Where the calls of parse_array and parse_object on the stack began.
Kinds(st, t, s) ==
    \A k \in 1 .. Len(st) : /\ Opens(t, s[k])
                            /\ st[k].kind = (IF IsArray(t, s[k]) THEN "array" ELSE "object")
Parsing(st, t, p, m) ==
    \E s, c \in [Nat -> Nat] : Kinds(st, t, s) /\ Reads(t, p, m, Len(st), s, c)

GrammarInv ==
    /\ outcome # "none" => mode = "idle"
    /\ outcome = "item" => <<1, pos>> \in Inner(text, 0)
    /\ (outcome = "null" \/ mode = "fail") /\ ~oom => ~Begins(text)
    /\ mode \notin {"idle", "fail"} => Parsing(stack, text, pos, mode)

\* The text that is parsed, the position in it, and the token there.
LEMMA TextFacts ==
    ASSUME JsonInv
    PROVE  /\ IsText(text) /\ Len(text) \in Nat /\ pos \in Nat /\ pos \in 1 .. Len(text) + 1
           /\ Len(stack) \in 0 .. NestingLimit
           /\ Token # "end" => pos \in 1 .. Len(text) /\ Token = text[pos]
           /\ pos \in 1 .. Len(text) => Token = text[pos]
<1>1. text \in Texts \cup {<<>>} /\ pos \in 1 .. Len(text) + 1
      /\ stack \in Seq(Frames) /\ Len(stack) <= NestingLimit
  BY DEF JsonInv, TypeOK, Control, Frames
<1>2. IsText(text)
  <2>1. CASE text \in Texts BY <2>1, CallsAssumption DEF IsText, Tokens
  <2>2. CASE text = <<>> BY <2>2 DEF IsText
  <2> QED BY <1>1, <2>1, <2>2
<1>3. Len(text) \in Nat
  BY <1>2, SpansFacts
<1>4. pos \in Nat /\ (pos <= Len(text) => pos \in 1 .. Len(text))
      /\ (pos \in 1 .. Len(text) => pos <= Len(text))
  BY <1>1, <1>3
<1>5. Len(stack) \in 0 .. NestingLimit
  <2>1. Len(stack) \in Nat /\ NestingLimit \in Nat BY <1>1, Levels
  <2> QED BY <1>1, <2>1
<1> QED BY <1>1, <1>2, <1>3, <1>4, <1>5 DEF Token

\* Before the first call there is nothing to show.
LEMMA InitGrammar == Init => GrammarInv
  BY DEF Init, GrammarInv

\* One more token is read.
LEMMA GoesOn ==
    ASSUME GrammarInv, mode # "idle", outcome' = outcome, mode' \notin {"idle", "fail"},
           Parsing(stack', text', pos', mode')
    PROVE  GrammarInv'
  BY DEF GrammarInv

\* A call fails: memory ran out or no value stands at the start.
LEMMA Fails ==
    ASSUME GrammarInv, mode # "idle", outcome' = outcome, mode' = "fail", text' = text,
           oom' \/ ~Begins(text)
    PROVE  GrammarInv'
  BY DEF GrammarInv

\* cJSON_Parse starts at the first token.
LEMMA ParseGrammar ==
    ASSUME NEW t, Parse(t), JsonInv
    PROVE  GrammarInv'
<1>1. stack' = <<>> /\ text' = t /\ pos' = 1 /\ outcome' = "none"
  BY DEF Parse, JsonInv, Control
<1>2. CASE mode' = "value"
  <2>1. PICK s : s \in [Nat -> Nat]
    <3>1. [k \in Nat |-> 0] \in [Nat -> Nat] OBVIOUS
    <3> QED BY <3>1
  <2>2. Reads(t, 1, "value", 0, s, s) BY ReadsStart
  <2>3. Len(stack') = 0 BY <1>1
  <2>4. Kinds(stack', text', s) BY <2>3 DEF Kinds
  <2>5. Parsing(stack', text', pos', mode') BY <1>1, <1>2, <2>1, <2>2, <2>3, <2>4 DEF Parsing
  <2> QED BY <1>1, <1>2, <2>5 DEF GrammarInv
<1>3. CASE mode' = "fail" /\ oom' = TRUE
  BY <1>1, <1>3 DEF GrammarInv
<1> QED BY <1>2, <1>3 DEF Parse

\* Where the parser is when it runs.
LEMMA Reading ==
    ASSUME GrammarInv, mode \notin {"idle", "fail"}
    PROVE  \E s, c \in [Nat -> Nat] :
              Kinds(stack, text, s) /\ Reads(text, pos, mode, Len(stack), s, c)
  BY DEF GrammarInv, Parsing

\* The same frames: only the token and the mode have changed.
LEMMA SameFrames ==
    ASSUME GrammarInv, mode # "idle", outcome' = outcome, mode' \notin {"idle", "fail"},
           stack' = stack, text' = text,
           NEW s \in [Nat -> Nat], NEW c \in [Nat -> Nat], Kinds(stack, text, s),
           Reads(text, pos', mode', Len(stack), s, c)
    PROVE  GrammarInv'
<1>1. Parsing(stack', text', pos', mode')
  BY DEF Parsing
<1> QED BY <1>1, GoesOn

\* parse_number, parse_string and the literals.
LEMMA AtomGrammar ==
    ASSUME JsonInv, GrammarInv, parse_scalar \/ parse_string
    PROVE  GrammarInv'
<1>1. /\ mode = "value" /\ Token \in Scalars \cup Strings /\ outcome' = outcome
      /\ text' = text
  BY DEF parse_scalar, parse_string, OutOfMemory
<1>2. CASE pos' = pos + 1 /\ mode' = "after" /\ stack' = stack
  <2>1. PICK s, c \in [Nat -> Nat] :
            Kinds(stack, text, s) /\ Reads(text, pos, "value", Len(stack), s, c)
    BY <1>1, Reading
  <2>2. Token # "end" BY <1>1, TokensDiffer DEF Scalars
  <2>3. Reads(text, pos + 1, "after", Len(stack), s, c)
    BY <1>1, <2>1, <2>2, TextFacts, ReadsAtom
  <2> QED BY <1>1, <1>2, <2>1, <2>3, SameFrames
<1>3. CASE mode' = "fail" /\ oom' = TRUE
  BY <1>1, <1>3, Fails
<1> QED BY <1>2, <1>3 DEF parse_scalar, parse_string, OutOfMemory

\* The loops of parse_array and parse_object make a new item.
LEMMA ElementGrammar ==
    ASSUME JsonInv, GrammarInv, NewItem
    PROVE  GrammarInv'
<1>1. mode = "item" /\ outcome' = outcome /\ text' = text
  BY DEF NewItem, OutOfMemory
<1>2. CASE /\ pos' = pos /\ mode' = (IF Top.kind = "array" THEN "value" ELSE "name")
           /\ stack' = SetTop([Top EXCEPT !.head = IF @ = NULL THEN Fresh(heap) ELSE @,
                                          !.current = Fresh(heap)])
  <2>1. PICK s, c \in [Nat -> Nat] :
            Kinds(stack, text, s) /\ Reads(text, pos, "item", Len(stack), s, c)
    BY <1>1, Reading
  <2>2. stack \in Seq(Frames) /\ stack # <<>> /\ Len(stack) \in 1 .. Len(stack) /\ Top \in Frames
    BY <1>1, StackType DEF JsonInv, Control
  <2>3. Len(stack') = Len(stack) /\ \A k \in 1 .. Len(stack) : stack'[k].kind = stack[k].kind
    <3>1. stack' = [stack EXCEPT ![Len(stack)] =
                       [Top EXCEPT !.head = IF @ = NULL THEN Fresh(heap) ELSE @,
                                   !.current = Fresh(heap)]]
      BY <1>2 DEF SetTop
    <3>2. Top = stack[Len(stack)]
      BY DEF Top
    <3>3. Len(stack') = Len(stack)
      BY <2>2, <3>1
    <3>4. ASSUME NEW k \in 1 .. Len(stack) PROVE stack'[k].kind = stack[k].kind
      <4>1. CASE k = Len(stack)
        <5>1. stack'[k].kind = Top.kind BY <2>2, <3>1, <4>1 DEF Frames
        <5> QED BY <3>2, <4>1, <5>1
      <4>2. CASE k # Len(stack) BY <2>2, <3>1, <4>2
      <4> QED BY <4>1, <4>2
    <3> QED BY <3>3, <3>4
  <2>4. Kinds(stack', text', s) BY <1>1, <2>1, <2>3 DEF Kinds
  <2>5. Top.kind = "array" <=> IsArray(text, s[Len(stack)])
    <3> QED BY <2>1, <2>2 DEF Kinds, Top
  <2>6. Reads(text', pos', mode', Len(stack'), s, c)
    BY <1>1, <1>2, <2>1, <2>3, <2>5, ReadsElement
  <2>7. Parsing(stack', text', pos', mode') BY <2>1, <2>4, <2>6 DEF Parsing
  <2> QED BY <1>1, <1>2, <2>7, GoesOn
<1>3. CASE mode' = "fail" /\ oom' = TRUE
  BY <1>1, <1>3, Fails
<1> QED BY <1>2, <1>3 DEF NewItem, OutOfMemory

\* The delimiter of the list that is being read is a position.
LEMMA TopDelimiter ==
    ASSUME NEW t, NEW p, NEW m, NEW n \in 0 .. NestingLimit, NEW s, NEW c,
           Reads(t, p, m, n, s, c)
    PROVE  n # 0 => c[n] \in Nat
<1>1. n # 0 => n \in 1 .. n
  BY Levels
<1> QED BY <1>1 DEF Reads, Opened

\* parse_object reads a key and a colon.
LEMMA MemberGrammar ==
    ASSUME JsonInv, GrammarInv, parse_name \/ Colon
    PROVE  GrammarInv'
<1>1. /\ mode \in {"name", "colon"} /\ outcome' = outcome /\ text' = text
      /\ mode = "name" => Token \in Strings
      /\ mode = "colon" => Token = ":"
  BY DEF parse_name, Colon, OutOfMemory
<1>2. CASE /\ pos' = pos + 1 /\ stack' = stack
           /\ mode = "name" => mode' = "colon"
           /\ mode = "colon" => mode' = "value"
  <2>1. PICK s, c \in [Nat -> Nat] :
            Kinds(stack, text, s) /\ Reads(text, pos, mode, Len(stack), s, c)
    BY <1>1, Reading
  <2>2. Token # "end" BY <1>1, TokensDiffer
  <2>3. Token = text[pos] BY <2>2, TextFacts
  <2>4. Len(stack) # 0 => c[Len(stack)] \in Nat BY <2>1, TextFacts, TopDelimiter
  <2>5. Reads(text, pos', mode', Len(stack), s, c)
    BY <1>1, <1>2, <2>1, <2>3, <2>4, ReadsName, ReadsColon
  <2> QED BY <1>1, <1>2, <2>1, <2>5, SameFrames
<1>3. CASE mode' = "fail" /\ oom' = TRUE
  BY <1>1, <1>3, Fails
<1> QED BY <1>2, <1>3 DEF parse_name, Colon, OutOfMemory

\* The loops go on after a comma.
LEMMA CommaGrammar ==
    ASSUME JsonInv, GrammarInv, Comma
    PROVE  GrammarInv'
<1>1. /\ mode = "after" /\ stack # <<>> /\ Token = "," /\ outcome' = outcome
      /\ text' = text /\ stack' = stack /\ pos' = pos + 1 /\ mode' = "item"
  BY DEF Comma
<1>2. PICK s, c \in [Nat -> Nat] :
          Kinds(stack, text, s) /\ Reads(text, pos, "after", Len(stack), s, c)
  BY <1>1, Reading
<1>3. pos \in 1 .. Len(text) /\ IsComma(text, pos)
  BY <1>1, TextFacts DEF IsComma
<1>4. Len(stack) \in 0 .. NestingLimit /\ Len(stack) # 0 /\ Len(stack) \in Nat
  <2>1. Len(stack) \in 1 .. Len(stack) BY <1>1, StackType DEF JsonInv
  <2> QED BY <2>1, TextFacts
<1> DEFINE n == Len(stack)
           c2 == [c EXCEPT ![n] = pos]
<1>5. Reads(text, pos + 1, "item", n, s, c2)
  BY <1>2, <1>3, <1>4, TextFacts, ReadsComma
<1>6. c2 \in [Nat -> Nat]
  BY TextFacts
<1> HIDE DEF c2
<1> QED BY <1>1, <1>2, <1>5, <1>6, SameFrames

\* The frames after a push, and those after a pop.
LEMMA OneMore == \A n \in Nat : \A k \in 1 .. n + 1 : k \in 1 .. n \/ k = n + 1
  OBVIOUS
\* See OneMore.
LEMMA OneLess == \A n : n \in 1 .. n => \A k \in 1 .. n - 1 : k \in 1 .. n
  OBVIOUS

\* What Append does to a stack.
LEMMA AppendFacts ==
    ASSUME NEW S, NEW list \in Seq(S), NEW e
    PROVE  /\ Len(Append(list, e)) = Len(list) + 1
           /\ Append(list, e)[Len(list) + 1] = e
           /\ \A k \in 1 .. Len(list) : Append(list, e)[k] = list[k]
  OBVIOUS

\* parse_array and parse_object start.
LEMMA EnterGrammar ==
    ASSUME JsonInv, GrammarInv, Enter
    PROVE  GrammarInv'
<1>1. /\ mode = "value" /\ Token \in {"[", "{"} /\ depth < NestingLimit /\ outcome' = outcome
      /\ text' = text /\ pos' = pos + 1
      /\ stack' = Append(stack, [kind |-> KindOf[Token], item |-> Target,
                                 head |-> NULL, current |-> NULL])
      /\ mode' = (IF pos < Len(text) /\ text[pos + 1] = (IF Token = "[" THEN "]" ELSE "}")
                  THEN "close" ELSE "item")
  BY DEF Enter
<1>2. PICK s, c \in [Nat -> Nat] :
          Kinds(stack, text, s) /\ Reads(text, pos, "value", Len(stack), s, c)
  BY <1>1, Reading
<1>3. pos \in 1 .. Len(text) /\ Token = text[pos] /\ Opens(text, pos)
  BY <1>1, TextFacts DEF Opens
<1> DEFINE n == Len(stack)
           s2 == [s EXCEPT ![n + 1] = pos]
           c2 == [c EXCEPT ![n + 1] = pos]
           frame == [kind |-> KindOf[Token], item |-> Target, head |-> NULL, current |-> NULL]
<1>4. n \in 0 .. NestingLimit - 1 /\ n \in Nat
  <2>1. n \in Nat /\ depth = n BY <1>1, StackType DEF JsonInv, Control
  <2>2. NestingLimit \in Nat /\ depth < NestingLimit BY <1>1, Levels
  <2> HIDE DEF n
  <2> QED BY <2>1, <2>2
<1>5. mode' = EnterMode(text, pos)
  <2>1. Bracketed(text, pos, pos + 1) <=> text[pos + 1] = (IF Token = "[" THEN "]" ELSE "}")
    BY <1>1, <1>3 DEF Bracketed
  <2> QED BY <1>1, <2>1 DEF EnterMode
<1>6. Reads(text, pos + 1, EnterMode(text, pos), n + 1, s2, c2)
  BY <1>2, <1>3, <1>4, TextFacts, ReadsEnter
<1>7. s2 \in [Nat -> Nat] /\ c2 \in [Nat -> Nat]
  BY TextFacts
<1>8. Len(stack') = n + 1 /\ stack'[n + 1] = frame /\ \A k \in 1 .. n : stack'[k] = stack[k]
  <2>1. stack \in Seq(Frames) BY StackType DEF JsonInv
  <2>2. stack' = Append(stack, frame) BY <1>1
  <2> HIDE DEF frame
  <2> QED BY <2>1, <2>2, AppendFacts
<1>9. Kinds(stack', text', s2)
  <2>1. ASSUME NEW k \in 1 .. n
        PROVE  /\ Opens(text, s2[k])
               /\ stack'[k].kind = (IF IsArray(text, s2[k]) THEN "array" ELSE "object")
    <3>1. s2[k] = s[k] BY <1>4
    <3> QED BY <1>2, <1>8, <3>1 DEF Kinds
  <2>2. /\ Opens(text, s2[n + 1])
        /\ stack'[n + 1].kind = (IF IsArray(text, s2[n + 1]) THEN "array" ELSE "object")
    <3>1. s2[n + 1] = pos BY <1>4
    <3>2. frame.kind = (IF IsArray(text, pos) THEN "array" ELSE "object")
      BY <1>1, <1>3 DEF KindOf, IsArray
    <3> HIDE DEF frame
    <3> QED BY <1>3, <1>8, <3>1, <3>2
  <2>3. \A k \in 1 .. n + 1 : k \in 1 .. n \/ k = n + 1 BY <1>4, OneMore
  <2> HIDE DEF s2
  <2> QED BY <1>1, <1>8, <2>1, <2>2, <2>3 DEF Kinds
<1> HIDE DEF s2, c2
<1>10. Parsing(stack', text', pos', mode')
  BY <1>1, <1>5, <1>6, <1>7, <1>8, <1>9 DEF Parsing
<1>11. mode' \notin {"idle", "fail"} /\ mode # "idle"
  BY <1>1
<1> QED BY <1>1, <1>10, <1>11, GoesOn

\* parse_array and parse_object succeed.
LEMMA CloseGrammar ==
    ASSUME JsonInv, GrammarInv, Close
    PROVE  GrammarInv'
<1>1. /\ mode = "close" \/ (mode = "after" /\ stack # <<>> /\ Token = Closer)
      /\ outcome' = outcome /\ text' = text /\ pos' = pos + 1 /\ mode' = "after"
      /\ stack' = Front(stack)
  BY DEF Close
<1>2. PICK s, c \in [Nat -> Nat] :
          Kinds(stack, text, s) /\ Reads(text, pos, mode, Len(stack), s, c)
  BY <1>1, Reading
<1>3. stack # <<>> /\ Len(stack) \in 1 .. Len(stack)
  BY <1>1, StackType DEF JsonInv, Control
<1>4. Len(stack) \in 0 .. NestingLimit /\ Len(stack) # 0
  BY <1>3, TextFacts
<1>5. Closes(text, pos, mode, Len(stack), s)
  <2>1. CASE mode = "close" BY <2>1 DEF Closes
  <2>2. CASE mode = "after" /\ Token = Closer
    <3>1. pos \in 1 .. Len(text) /\ Token = text[pos] BY <2>2, TextFacts DEF Closer
    <3>2. Bracketed(text, s[Len(stack)], pos)
      BY <1>2, <1>3, <2>2, <3>1 DEF Kinds, Opens, IsArray, Closer, Top, Bracketed
    <3> QED BY <2>2, <3>1, <3>2 DEF Closes
  <2> QED BY <1>1, <2>1, <2>2
<1>6. Reads(text, pos + 1, "after", Len(stack) - 1, s, c)
  BY <1>2, <1>4, <1>5, TextFacts, ReadsClose
<1>7. /\ Len(stack') = Len(stack) - 1
      /\ \A k \in 1 .. Len(stack) - 1 : k \in 1 .. Len(stack) /\ stack'[k] = stack[k]
  <2>1. \A k \in 1 .. Len(stack) - 1 : k \in 1 .. Len(stack) BY <1>3, OneLess
  <2> QED BY <1>1, <1>3, <2>1, StackType DEF JsonInv
<1>8. Kinds(stack', text', s)
  BY <1>1, <1>2, <1>7 DEF Kinds
<1>9. Parsing(stack', text', pos', mode')
  BY <1>1, <1>2, <1>6, <1>7, <1>8 DEF Parsing
<1> QED BY <1>1, <1>9, GoesOn

\* What parse_value, parse_array and parse_object reject is no value.
LEMMA RejectGrammar ==
    ASSUME JsonInv, GrammarInv, RejectValue \/ RejectMember \/ RejectEnd
    PROVE  GrammarInv'
<1>1. /\ mode \in {"value", "name", "colon", "after"} /\ outcome' = outcome /\ text' = text
      /\ mode' = "fail"
  BY DEF RejectValue, RejectMember, RejectEnd, Reject
<1>2. PICK s, c \in [Nat -> Nat] :
          Kinds(stack, text, s) /\ Reads(text, pos, mode, Len(stack), s, c)
  BY <1>1, Reading
<1>3. ASSUME Begins(text) PROVE FALSE
  <2>1. CASE RejectValue
    <3>1. mode = "value" BY <2>1 DEF RejectValue
    <3>2. /\ pos \in 1 .. Len(text)
          /\ text[pos] \in Scalars \cup Strings \/ (Opens(text, pos) /\ Len(stack) # NestingLimit)
      BY <1>2, <1>3, <3>1, TextFacts, ExpectsValue
    <3>3. Token = text[pos] BY <3>2, TextFacts
    <3>4. depth = Len(stack) BY <3>1 DEF JsonInv, Control
    <3>5. depth >= NestingLimit => Len(stack) = NestingLimit
      <4>1. Len(stack) \in 0 .. NestingLimit /\ NestingLimit \in Nat BY TextFacts, Levels
      <4> QED BY <3>4, <4>1
    <3> QED BY <2>1, <3>2, <3>3, <3>5, TokensDiffer DEF RejectValue, Opens, Scalars
  <2>2. CASE RejectMember
    <3>1. mode \in {"name", "colon"} BY <2>2 DEF RejectMember
    <3>2. /\ pos \in 1 .. Len(text) /\ (mode = "name" => text[pos] \in Strings)
          /\ mode = "colon" => text[pos] = ":"
      BY <1>2, <1>3, <3>1, TextFacts, ExpectsMember
    <3>3. Token = text[pos] BY <3>2, TextFacts
    <3> QED BY <2>2, <3>2, <3>3 DEF RejectMember
  <2>3. CASE RejectEnd
    <3>1. mode = "after" /\ stack # <<>> BY <2>3 DEF RejectEnd
    <3>2. Len(stack) \in 1 .. Len(stack) /\ Top = stack[Len(stack)] BY <3>1, StackType DEF JsonInv
    <3>3. Len(stack) # 0 BY <3>2
    <3>4. /\ pos \in 1 .. Len(text)
          /\ IsComma(text, pos) \/ Bracketed(text, s[Len(stack)], pos)
      BY <1>2, <1>3, <3>1, <3>3, TextFacts, ValueRead
    <3>5. Token = text[pos] BY <3>4, TextFacts
    <3>6. Bracketed(text, s[Len(stack)], pos) => text[pos] = Closer
      BY <1>2, <3>2 DEF Kinds, Opens, IsArray, Closer, Top, Bracketed
    <3> QED BY <2>3, <3>4, <3>5, <3>6 DEF RejectEnd, IsComma
  <2> QED BY <2>1, <2>2, <2>3
<1> QED BY <1>1, <1>3, Fails

\* cJSON_Parse returns the item.
LEMMA AcceptGrammar ==
    ASSUME JsonInv, GrammarInv, Accept
    PROVE  GrammarInv'
<1>1. /\ mode = "after" /\ stack = <<>> /\ mode' = "idle" /\ outcome' = "item"
      /\ text' = text /\ pos' = pos
  BY DEF Accept
<1>2. PICK s, c \in [Nat -> Nat] : Reads(text, pos, "after", Len(stack), s, c)
  BY <1>1, Reading
<1>3. Len(stack) = 0
  BY <1>1
<1>4. <<1, pos>> \in Inner(text, 0)
  BY <1>2, <1>3 DEF Reads, Here, Start
<1> QED BY <1>1, <1>4 DEF GrammarInv

\* `fail:` of parse_array, parse_object and cJSON_Parse.
LEMMA FailureGrammar ==
    ASSUME GrammarInv, Unwind \/ ParseFails
    PROVE  GrammarInv'
<1>1. CASE Unwind
  BY <1>1 DEF Unwind, GrammarInv
<1>2. CASE ParseFails
  BY <1>2 DEF ParseFails, GrammarInv
<1> QED BY <1>1, <1>2

\* Whatever the program does to its trees is one call that does not parse.
LEMMA EditCalls ==
    ASSUME Edit
    PROVE  Call
<1>1. CASE CreateObject
  BY <1>1 DEF CreateObject
<1>2. ASSUME NEW o \in Containers("object"), NEW key \in Strings,
             \/ AddNew(o, key, Plain("object")) \/ AddNew(o, key, Plain("number"))
             \/ \E v \in Strings : AddNew(o, key, [Plain("string") EXCEPT !.valuestring = v])
             \/ \E i \in held : \/ AddItemToObject(o, key, i) \/ ReplaceItemInObject(o, key, i)
                                \/ LosesTheKey(o, i)
      PROVE  Call
  <2>1. ASSUME NEW i, AddNew(o, key, i) PROVE Call
    BY <2>1 DEF AddNew
  <2>2. ASSUME NEW i \in held, AddItemToObject(o, key, i) PROVE Call
    BY <2>2 DEF AddItemToObject
  <2>3. ASSUME NEW i \in held, ReplaceItemInObject(o, key, i) PROVE Call
    BY <2>3 DEF ReplaceItemInObject
  <2>4. ASSUME NEW i \in held, LosesTheKey(o, i) PROVE Call
    BY <2>4 DEF LosesTheKey
  <2> QED BY <1>2, <2>1, <2>2, <2>3, <2>4
<1>3. ASSUME NEW a \in Containers("array"), NEW i \in held,
             AddItemToArray(a, i) \/ \E n \in Ids : InsertItem(a, n, i)
      PROVE  Call
  BY <1>3 DEF AddItemToArray, InsertItem
<1>4. ASSUME NEW p \in DOMAIN heap, NEW i \in DOMAIN heap,
             DetachItem(p, i) \/ \E r \in held : ReplaceItem(p, i, r)
      PROVE  Call
  BY <1>4 DEF DetachItem, ReplaceItem
<1>5. CASE \E i \in DOMAIN heap : DuplicateItem(i)
  BY <1>5 DEF DuplicateItem
<1>6. CASE \E i \in held : DeleteItem(i)
  BY <1>6 DEF DeleteItem
<1> QED BY <1>1, <1>2, <1>3, <1>4, <1>5, <1>6 DEF Edit

\* The other calls do not parse.
LEMMA EditGrammar ==
    ASSUME Edit
    PROVE  GrammarInv'
<1>1. Call
  BY EditCalls
<1>2. mode' = "idle" /\ outcome' = "none"
  BY <1>1 DEF Call
<1> QED BY <1>2 DEF GrammarInv

\* Nothing happens.
LEMMA StutterGrammar ==
    ASSUME GrammarInv, UNCHANGED vars
    PROVE  GrammarInv'
  BY DEF GrammarInv, vars, parser

\* Every step.
LEMMA StepGrammar ==
    ASSUME JsonInv, GrammarInv, [Next]_vars
    PROVE  GrammarInv'
<1>1. CASE \E t \in Texts : Parse(t)
  BY <1>1, ParseGrammar
<1>2. CASE ParserStep
  BY <1>2, AtomGrammar, EnterGrammar, RejectGrammar, ElementGrammar, MemberGrammar,
     CommaGrammar, CloseGrammar, AcceptGrammar, FailureGrammar DEF ParserStep
<1>3. CASE Edit
  BY <1>3, EditGrammar
<1>4. CASE UNCHANGED vars
  BY <1>4, StutterGrammar
<1> QED BY <1>1, <1>2, <1>3, <1>4 DEF Next

-----------------------------------------------------------------------------
\* Unless it runs out of memory, cJSON_Parse accepts a text exactly if it begins
\* with a value that is nested no deeper than CJSON_NESTING_LIMIT, and returns
\* the end of that value: parse_value, parse_array and parse_object read
\* forwards, with one token of look-ahead, and lose no text of the grammar.
THEOREM ParserAcceptsTheGrammar == Spec => []ParsesTheGrammar
<1>1. JsonInv /\ GrammarInv => ParsesTheGrammar
  <2> SUFFICES ASSUME JsonInv, GrammarInv PROVE ParsesTheGrammar
    OBVIOUS
  <2>1. Inner(text, 0) = Values(text)[NestingLimit]
    <3>1. NestingLimit - 0 = NestingLimit BY Levels
    <3> QED BY <3>1 DEF Inner
  <2>2. 0 \in 0 .. NestingLimit BY Levels
  <2>3. \A s \in Inner(text, 0) : s = <<s[1], s[2]>>
    BY <2>2, TextFacts, InnerFacts, SpansFacts
  <2>4. ~Begins(text) => \A s \in Inner(text, 0) : s[1] # 1
    BY <2>3 DEF Begins
  <2> QED BY <2>1, <2>4 DEF ParsesTheGrammar, GrammarInv
<1>2. JsonInv /\ GrammarInv /\ [Next]_vars => GrammarInv'
  BY StepGrammar
<1> QED BY <1>1, <1>2, InitGrammar, AlwaysAForest, PTL DEF Spec
=============================================================================
