--------------------------- MODULE ExcerptProofs ---------------------------
(***************************************************************************)
(* For files of any length, any windows and any nested definitions: what   *)
(* _coalesce and _merge_spans make of any lines and spans, and that the    *)
(* code shown holds the change.  The loops are folds; that the function a  *)
(* fold defines exists, and what it is after each turn, is proved with a   *)
(* least counterexample.                                                   *)
(***************************************************************************)
EXTENDS Excerpt, DiffParserProofs, SortingProofs

-----------------------------------------------------------------------------
(* One turn of the loops.                                                  *)

IntPairs == Int \X Int

\* The larger and the smaller of two numbers.
LEMMA MaxMinOfTwo ==
  ASSUME NEW a \in Int, NEW b \in Int
  PROVE  /\ Max({a, b}) = IF a >= b THEN a ELSE b
         /\ Min({a, b}) = IF a <= b THEN a ELSE b
<1>1. Max({a, b}) = IF a >= b THEN a ELSE b
  <2> DEFINE m == IF a >= b THEN a ELSE b
             Is(x) == x \in {a, b} /\ \A y \in {a, b} : x >= y
  <2>1. Is(m) /\ \A x \in {a, b} : Is(x) => x = m
    OBVIOUS
  <2>2. Max({a, b}) = CHOOSE x : Is(x)
    BY Zenon DEF Max
  <2> HIDE DEF m
  <2>3. Is(CHOOSE x : Is(x))
    <3>1. \E x : Is(x)
      BY <2>1
    <3> HIDE DEF Is
    <3> QED BY <3>1, Zenon
  <2>4. Is(Max({a, b})) /\ Max({a, b}) \in {a, b}
    BY <2>2, <2>3
  <2>5. Max({a, b}) = m
    BY <2>1, <2>4
  <2> QED BY <2>5 DEF m
<1>2. Min({a, b}) = IF a <= b THEN a ELSE b
  <2> DEFINE m == IF a <= b THEN a ELSE b
             Is(x) == x \in {a, b} /\ \A y \in {a, b} : x <= y
  <2>1. Is(m) /\ \A x \in {a, b} : Is(x) => x = m
    OBVIOUS
  <2>2. Min({a, b}) = CHOOSE x : Is(x)
    BY Zenon DEF Min
  <2> HIDE DEF m
  <2>3. Is(CHOOSE x : Is(x))
    <3>1. \E x : Is(x)
      BY <2>1
    <3> HIDE DEF Is
    <3> QED BY <3>1, Zenon
  <2>4. Is(Min({a, b})) /\ Min({a, b}) \in {a, b}
    BY <2>2, <2>3
  <2>5. Min({a, b}) = m
    BY <2>1, <2>4
  <2> QED BY <2>5 DEF m
<1> QED BY <1>1, <1>2

\* merged is what S makes: it covers S and nothing else, in parts that do not
\* touch, each of which starts where a span of S does.
Merges(merged, S) ==
  /\ merged \in Seq(IntPairs)
  /\ merged = <<>> <=> S = {}
  /\ \A i \in 1..(Len(merged) - 1) : merged[i][2] + 1 < merged[i + 1][1]
  /\ \A s \in S : \E j \in 1..Len(merged) : merged[j][1] <= s[1] /\ s[2] <= merged[j][2]
  /\ \A j \in 1..Len(merged) : \A x \in merged[j][1]..merged[j][2] : \E s \in S : s[1] <= x /\ x <= s[2]
  /\ \A j \in 1..Len(merged) : \E s \in S : merged[j][1] = s[1] /\ s[2] <= merged[j][2]

\* One turn of the loop of _merge_spans.
LEMMA SpanIsAdded ==
  ASSUME NEW S \in SUBSET IntPairs, NEW m, Merges(m, S), NEW span \in IntPairs,
         \A s \in S : s[1] <= span[1]
  PROVE  Merges(AddSpan(m, span), S \cup {span})
<1> DEFINE n == Len(m)
           a == span[1]
           b == span[2]
           new == AddSpan(m, span)
<1>1. m \in Seq(IntPairs) /\ n \in Nat /\ a \in Int /\ b \in Int /\ span = <<a, b>>
  BY DEF Merges, IntPairs
<1>2. \A j \in 1..n : m[j] \in IntPairs /\ m[j][1] \in Int /\ m[j][2] \in Int
  BY <1>1 DEF IntPairs
<1>2a. \A s \in S : s[1] \in Int /\ s[2] \in Int
  BY DEF IntPairs
<1>3. CASE m # <<>> /\ Joins(Last(m)[2], a)
  <2> DEFINE c == m[n][1]
             d == m[n][2]
             e == IF d >= b THEN d ELSE b
  <2>1. n \in 1..n /\ Last(m) = m[n] /\ c \in Int /\ d \in Int /\ e \in Int
    BY <1>1, <1>2, <1>3 DEF Last
  <2>2. JoinedEnd(m[n], span) = e
    BY <1>1, <2>1, MaxMinOfTwo DEF JoinedEnd
  <2>3. a <= d + 1
    BY <1>3, <2>1 DEF Joins
  <2>4. c <= a
    <3>1. PICK s \in S : c = s[1]
      BY <2>1 DEF Merges
    <3> QED BY <3>1
  <2>5. new = [m EXCEPT ![n] = <<c, e>>]
    BY <1>3, <2>1, <2>2, Zenon DEF AddSpan
  <2>6. /\ new \in Seq(IntPairs) /\ Len(new) = n /\ new # <<>>
        /\ new[n] = <<c, e>> /\ \A j \in 1..n : j # n => new[j] = m[j]
        /\ new[n][1] = c /\ new[n][2] = e
    <3>1. <<c, e>> \in IntPairs
      BY <2>1 DEF IntPairs
    <3> HIDE DEF c, e, new, n
    <3> QED BY <1>1, <1>3, <2>1, <2>5, <3>1 DEF n
  <2> HIDE DEF new, c, d, e, n, a, b
  <2>6a. ASSUME NEW j \in 1..n
         PROVE  new[j][1] = m[j][1] /\ m[j][2] <= new[j][2] /\ new[j][2] \in Int
    <3>1. CASE j = n
      <4>1. m[j][1] = c /\ m[j][2] = d /\ d <= e
        BY <1>1, <2>1, <3>1 DEF c, d, e
      <4> QED BY <2>1, <2>6, <3>1, <4>1
    <3>2. CASE j # n
      <4>1. new[j] = m[j]
        BY <2>6, <3>2
      <4>2. m[j][2] \in Int
        BY <1>2
      <4> QED BY <4>1, <4>2
    <3> QED BY <3>1, <3>2
  <2>7. ASSUME NEW i \in 1..(Len(new) - 1) PROVE new[i][2] + 1 < new[i + 1][1]
    <3>1. i \in 1..(n - 1) /\ i \in 1..n /\ i # n /\ new[i] = m[i] /\ i + 1 \in 1..n
      BY <1>1, <2>6
    <3>2. m[i][2] + 1 < m[i + 1][1]
      BY <3>1 DEF Merges, n
    <3>3. new[i + 1][1] = m[i + 1][1]
      BY <2>6, <3>1 DEF c
    <3> QED BY <3>1, <3>2, <3>3
  <2>8. ASSUME NEW s \in S \cup {span}
        PROVE  \E j \in 1..Len(new) : new[j][1] <= s[1] /\ s[2] <= new[j][2]
    <3>1. CASE s = span
      <4>1. new[n][1] <= s[1] /\ s[2] <= new[n][2]
        BY <1>1, <2>1, <2>4, <2>6, <3>1 DEF a, b, e
      <4> QED BY <2>1, <2>6, <4>1
    <3>2. CASE s \in S
      <4>1. PICK j \in 1..n : m[j][1] <= s[1] /\ s[2] <= m[j][2]
        BY <3>2 DEF Merges, n
      <4>2. new[j][1] = m[j][1] /\ m[j][2] <= new[j][2] /\ new[j][2] \in Int
        BY <2>6a
      <4>3. s[2] <= new[j][2]
        BY <1>2, <1>2a, <3>2, <4>1, <4>2
      <4> QED BY <2>6, <4>1, <4>2, <4>3
    <3> QED BY <3>1, <3>2
  <2>9. ASSUME NEW j \in 1..Len(new), NEW x \in new[j][1]..new[j][2]
        PROVE  \E s \in S \cup {span} : s[1] <= x /\ x <= s[2]
    <3>0. j \in 1..n /\ x \in Int /\ new[j][1] <= x /\ x <= new[j][2]
      BY <2>6
    <3>1. CASE x \in m[j][1]..m[j][2]
      BY <3>0, <3>1 DEF Merges, n
    <3>2. CASE x \notin m[j][1]..m[j][2]
      <4>1. j = n
        BY <2>6, <2>9, <3>0, <3>2
      <4>2. d < x /\ x <= e
        BY <1>2, <2>1, <2>6, <3>0, <3>2, <4>1 DEF c, d
      <4>3. a <= x /\ x <= b
        BY <1>1, <2>1, <2>3, <3>0, <4>2 DEF e
      <4> QED BY <4>3 DEF a, b
    <3> QED BY <3>1, <3>2
  <2>10. ASSUME NEW j \in 1..Len(new)
         PROVE  \E s \in S \cup {span} : new[j][1] = s[1] /\ s[2] <= new[j][2]
    <3>0. j \in 1..n
      BY <2>6
    <3>1. PICK s \in S : m[j][1] = s[1] /\ s[2] <= m[j][2]
      BY <3>0 DEF Merges, n
    <3>2. new[j][1] = m[j][1] /\ m[j][2] <= new[j][2] /\ new[j][2] \in Int
      BY <2>6a, <3>0
    <3>3. s[2] <= new[j][2]
      BY <1>2, <1>2a, <3>0, <3>1, <3>2
    <3> QED BY <3>1, <3>2, <3>3
  <2>11. Merges(new, S \cup {span})
    BY <2>6, <2>7, <2>8, <2>9, <2>10 DEF Merges
  <2> QED BY <2>11 DEF new
<1>4. CASE ~(m # <<>> /\ Joins(Last(m)[2], a))
  <2>1. new = Append(m, span)
    BY <1>4 DEF AddSpan
  <2> HIDE DEF new
  <2>2. /\ new \in Seq(IntPairs) /\ Len(new) = n + 1 /\ new # <<>>
        /\ new[n + 1] = span /\ \A j \in 1..n : new[j] = m[j]
    BY <1>1, <2>1
  <2> HIDE DEF n
  <2>3. ASSUME NEW i \in 1..(Len(new) - 1) PROVE new[i][2] + 1 < new[i + 1][1]
    <3>0. i \in 1..n /\ i \in Nat
      BY <1>1, <2>2
    <3>1. CASE i = n
      <4>1. m # <<>> /\ Last(m) = m[n]
        BY <1>1, <3>0, <3>1 DEF Last, n
      <4>2. ~(a <= m[n][2] + 1)
        BY <1>4, <4>1 DEF Joins
      <4>3. m[n][2] + 1 < a
        BY <1>1, <1>2, <3>0, <3>1, <4>2
      <4> QED BY <2>2, <3>0, <3>1, <4>3
    <3>2. CASE i # n
      <4>1. i \in 1..(n - 1) /\ i + 1 \in 1..n
        BY <1>1, <3>0, <3>2
      <4>2. m[i][2] + 1 < m[i + 1][1]
        BY <4>1 DEF Merges, n
      <4> QED BY <2>2, <3>0, <4>1, <4>2
    <3> QED BY <3>1, <3>2
  <2>4. ASSUME NEW s \in S \cup {span}
        PROVE  \E j \in 1..Len(new) : new[j][1] <= s[1] /\ s[2] <= new[j][2]
    <3>1. CASE s = span
      <4>1. n + 1 \in 1..Len(new) /\ new[n + 1][1] <= s[1] /\ s[2] <= new[n + 1][2]
        BY <1>1, <2>2, <3>1
      <4> QED BY <4>1
    <3>2. CASE s \in S
      <4>1. PICK j \in 1..n : m[j][1] <= s[1] /\ s[2] <= m[j][2]
        BY <3>2 DEF Merges, n
      <4>2. j \in 1..Len(new) /\ new[j] = m[j]
        BY <1>1, <2>2
      <4> QED BY <4>1, <4>2
    <3> QED BY <3>1, <3>2
  <2>5. ASSUME NEW j \in 1..Len(new), NEW x \in new[j][1]..new[j][2]
        PROVE  \E s \in S \cup {span} : s[1] <= x /\ x <= s[2]
    <3>1. CASE j = n + 1
      <4>1. span[1] <= x /\ x <= span[2]
        BY <1>1, <2>2, <2>5, <3>1
      <4> QED BY <4>1
    <3>2. CASE j # n + 1
      <4>1. j \in 1..n /\ new[j] = m[j]
        BY <1>1, <2>2, <3>2
      <4>2. \E s \in S : s[1] <= x /\ x <= s[2]
        BY <2>5, <4>1 DEF Merges, n
      <4> QED BY <4>2
    <3> QED BY <3>1, <3>2
  <2>6. ASSUME NEW j \in 1..Len(new)
        PROVE  \E s \in S \cup {span} : new[j][1] = s[1] /\ s[2] <= new[j][2]
    <3>1. CASE j = n + 1
      <4>1. new[j][1] = span[1] /\ span[2] <= new[j][2]
        BY <1>1, <2>2, <3>1
      <4> QED BY <4>1
    <3>2. CASE j # n + 1
      <4>1. j \in 1..n /\ new[j] = m[j]
        BY <1>1, <2>2, <3>2
      <4>2. \E s \in S : m[j][1] = s[1] /\ s[2] <= m[j][2]
        BY <4>1 DEF Merges, n
      <4> QED BY <4>1, <4>2
    <3> QED BY <3>1, <3>2
  <2>7. Merges(new, S \cup {span})
    BY <2>2, <2>3, <2>4, <2>5, <2>6 DEF Merges
  <2> QED BY <2>7 DEF new
<1> QED BY <1>3, <1>4

-----------------------------------------------------------------------------
(* The loops.                                                              *)

\* One turn of either loop.
Turn(loop, spans, x) == IF loop = "lines" THEN AddLine(spans, x) ELSE AddSpan(spans, x)

\* g is the function FoldLeft defines by recursion over the subsets of 1..n.
IsFold(g, loop, o, n) ==
  g = [s \in SUBSET (1..n) |->
         IF s = {} THEN <<>> ELSE Turn(loop, g[s \ {Max(s)}], o[Max(s)])]

\* One step of its recursion.
LEMMA FoldUnfolds ==
  ASSUME NEW g, NEW loop, NEW o, NEW n, IsFold(g, loop, o, n), NEW s \in SUBSET (1..n)
  PROVE  /\ s = {} => g[s] = <<>>
         /\ s # {} => g[s] = Turn(loop, g[s \ {Max(s)}], o[Max(s)])
BY Zenon DEF IsFold

\* The largest of some numbers up to k, if k is one of them.
LEMMA MaxIsLast ==
  ASSUME NEW k \in Nat, NEW s \in SUBSET (1..k), k \in s
  PROVE  Max(s) = k
<1> DEFINE Is(x) == x \in s /\ \A y \in s : x >= y
<1>1. Is(k) /\ \A x \in s : Is(x) => x = k
  OBVIOUS
<1>2. Max(s) = CHOOSE x : Is(x)
  BY Zenon DEF Max
<1>3. Is(CHOOSE x : Is(x))
  <2>1. \E x : Is(x)
    BY <1>1
  <2> HIDE DEF Is
  <2> QED BY <2>1, Zenon
<1> QED BY <1>1, <1>2, <1>3

\* Its value for the first k indices.
LEMMA SegmentFold ==
  ASSUME NEW g, NEW loop, NEW o, NEW n \in Nat, IsFold(g, loop, o, n), NEW k \in 1..n
  PROVE  g[1..k] = Turn(loop, g[1..(k - 1)], o[k])
<1> DEFINE s == 1..k
<1>1. s \in SUBSET (1..n) /\ k \in s /\ s # {} /\ s \ {k} = 1..(k - 1)
  OBVIOUS
<1> HIDE DEF s
<1>2. Max(s) = k
  <2>1. k \in Nat /\ s \in SUBSET (1..k)
    BY DEF s
  <2> QED BY <1>1, <2>1, MaxIsLast
<1>3. g[s] = Turn(loop, g[s \ {Max(s)}], o[Max(s)])
  BY <1>1, FoldUnfolds
<1> QED BY <1>1, <1>2, <1>3 DEF s

\* There is one for every n: a least n without one has a smaller one.
LEMMA FoldExists ==
  ASSUME NEW loop, NEW o, NEW n \in Nat
  PROVE  \E g : IsFold(g, loop, o, n)
<1> DEFINE B == {k \in Nat : ~ \E g : IsFold(g, loop, o, k)}
<1> SUFFICES ASSUME B # {} PROVE FALSE
  OBVIOUS
<1>1. PICK m \in B : \A k \in B : m <= k
  <2>1. B \in SUBSET Nat
    OBVIOUS
  <2> HIDE DEF B
  <2> QED BY <2>1, LeastNumber
<1>2. CASE m = 0
  <2> DEFINE g == [s \in SUBSET (1..0) |-> <<>>]
             h == [s \in SUBSET (1..0) |->
                     IF s = {} THEN <<>> ELSE Turn(loop, g[s \ {Max(s)}], o[Max(s)])]
  <2>1. \A s \in SUBSET (1..0) : s = {}
    OBVIOUS
  <2>2. g = h
    BY <2>1
  <2>3. IsFold(g, loop, o, m)
    BY <1>2, <2>2, Zenon DEF IsFold
  <2> QED BY <1>1, <2>3
<1>3. CASE m # 0
  <2>1. m \in Nat /\ m - 1 \in Nat /\ m - 1 \notin B
    BY <1>1, <1>3
  <2>2. PICK g : IsFold(g, loop, o, m - 1)
    BY <2>1
  <2> DEFINE k == [s \in SUBSET (1..m) |->
                     IF m \in s THEN Turn(loop, g[s \ {m}], o[m]) ELSE g[s]]
             h == [s \in SUBSET (1..m) |->
                     IF s = {} THEN <<>> ELSE Turn(loop, k[s \ {Max(s)}], o[Max(s)])]
  <2>3. ASSUME NEW s \in SUBSET (1..m) PROVE k[s] = h[s]
    <3>1. s \ {m} \in SUBSET (1..(m - 1)) /\ s \ {m} \in SUBSET (1..m) /\ m \notin s \ {m}
      BY <2>1
    <3>2. k[s \ {m}] = g[s \ {m}]
      BY <3>1, Zenon
    <3>3. CASE m \in s
      <4>1. s # {} /\ Max(s) = m
        BY <2>1, <3>3, MaxIsLast
      <4>2. k[s] = Turn(loop, g[s \ {m}], o[m])
        BY <3>3, Zenon
      <4>3. h[s] = Turn(loop, k[s \ {m}], o[m])
        BY <4>1, Zenon
      <4> QED BY <3>2, <4>2, <4>3, Zenon
    <3>4. CASE m \notin s
      <4>1. s \in SUBSET (1..(m - 1)) /\ k[s] = g[s]
        <5>1. s = s \ {m}
          BY <3>4
        <5>2. k[s] = g[s]
          BY <3>4, Zenon
        <5> QED BY <3>1, <5>1, <5>2
      <4>2. CASE s = {}
        <5>1. g[s] = <<>>
          BY <2>2, <4>1, <4>2, FoldUnfolds
        <5>2. h[s] = <<>>
          BY <4>2, Zenon
        <5> QED BY <4>1, <5>1, <5>2
      <4>3. CASE s # {}
        <5> DEFINE t == s \ {Max(s)}
        <5>1. g[s] = Turn(loop, g[t], o[Max(s)])
          BY <2>2, <4>1, <4>3, FoldUnfolds
        <5>2. t \in SUBSET (1..m) /\ m \notin t
          BY <3>4
        <5>3. k[t] = g[t]
          BY <5>2, Zenon
        <5>4. h[s] = Turn(loop, k[t], o[Max(s)])
          BY <4>3, Zenon
        <5> QED BY <4>1, <5>1, <5>3, <5>4, Zenon
      <4> QED BY <4>2, <4>3
    <3> QED BY <3>3, <3>4
  <2>4. k = h
    <3>1. k = [s \in SUBSET (1..m) |-> k[s]] /\ h = [s \in SUBSET (1..m) |-> h[s]]
      BY Zenon
    <3> HIDE DEF k, h
    <3> QED BY <2>3, <3>1
  <2>5. IsFold(k, loop, o, m)
    BY <2>4, Zenon DEF IsFold
  <2> QED BY <1>1, <2>5
<1> QED BY <1>2, <1>3

\* What the loops compute, turn by turn.
LEMMA LoopSteps ==
  ASSUME NEW loop \in {"lines", "spans"}, NEW T, NEW o \in Seq(T)
  PROVE  \E r : /\ r[0] = <<>>
                /\ \A k \in 1..Len(o) : r[k] = Turn(loop, r[k - 1], o[k])
                /\ loop = "lines" => FoldLeft(AddLine, <<>>, o) = r[Len(o)]
                /\ loop = "spans" => FoldLeft(AddSpan, <<>>, o) = r[Len(o)]
<1> DEFINE n == Len(o)
           D == 1..n
<1>1. n \in Nat /\ DOMAIN o = D
  OBVIOUS
<1>2. \E g : IsFold(g, loop, o, n)
  BY <1>1, FoldExists
<1>3. ASSUME loop = "lines"
      PROVE  \E g : IsFold(g, loop, o, n) /\ FoldLeft(AddLine, <<>>, o) = g[D]
  <2> DEFINE Is(g) == g = [s \in SUBSET D |->
                             IF s = {} THEN <<>> ELSE AddLine(g[s \ {Max(s)}], o[Max(s)])]
  <2>1. \A g : IsFold(g, loop, o, n) <=> Is(g)
    BY <1>3, Zenon DEF IsFold, Turn
  <2> HIDE DEF D, n
  <2>2. PICK f : Is(f)
    BY <1>2, <2>1, Zenon
  <2>3. \E g : Is(g) /\ FoldLeft(AddLine, <<>>, o) = g[D]
    BY <1>1, <2>2, Zenon DEF FoldLeft, MapThenFoldSet
  <2> HIDE DEF Is
  <2> QED BY <2>1, <2>3, Zenon
<1>4. ASSUME loop = "spans"
      PROVE  \E g : IsFold(g, loop, o, n) /\ FoldLeft(AddSpan, <<>>, o) = g[D]
  <2> DEFINE Is(g) == g = [s \in SUBSET D |->
                             IF s = {} THEN <<>> ELSE AddSpan(g[s \ {Max(s)}], o[Max(s)])]
  <2>0. loop # "lines"
    BY <1>4
  <2>1. \A g : IsFold(g, loop, o, n) <=> Is(g)
    BY <2>0, Zenon DEF IsFold, Turn
  <2> HIDE DEF D, n
  <2>2. PICK f : Is(f)
    BY <1>2, <2>1, Zenon
  <2>3. \E g : Is(g) /\ FoldLeft(AddSpan, <<>>, o) = g[D]
    BY <1>1, <2>2, Zenon DEF FoldLeft, MapThenFoldSet
  <2> HIDE DEF Is
  <2> QED BY <2>1, <2>3, Zenon
<1>5. PICK g : /\ IsFold(g, loop, o, n)
               /\ loop = "lines" => FoldLeft(AddLine, <<>>, o) = g[D]
               /\ loop = "spans" => FoldLeft(AddSpan, <<>>, o) = g[D]
  <2>1. CASE loop = "lines"
    <3>1. loop # "spans"
      BY <2>1
    <3> HIDE DEF n, D
    <3> QED BY <1>3, <2>1, <3>1, Zenon
  <2>2. CASE loop = "spans"
    <3>1. loop # "lines"
      BY <2>2
    <3> HIDE DEF n, D
    <3> QED BY <1>4, <2>2, <3>1, Zenon
  <2> QED BY <2>1, <2>2
<1> DEFINE r == [k \in 0..n |-> g[1..k]]
<1>6. r[0] = <<>>
  <2>1. 1..0 = {} /\ 0 \in 0..n /\ {} \in SUBSET (1..n)
    BY <1>1
  <2>2. g[{}] = <<>>
    BY <1>5, <2>1, FoldUnfolds
  <2> QED BY <2>1, <2>2
<1>7. ASSUME NEW k \in 1..n PROVE r[k] = Turn(loop, r[k - 1], o[k])
  <2>1. k \in Nat /\ k > 0 /\ k \in 0..n /\ k - 1 \in 0..n
    BY <1>1
  <2>2. g[1..k] = Turn(loop, g[1..(k - 1)], o[k])
    <3> HIDE DEF n
    <3> QED BY <1>1, <1>5, SegmentFold
  <2>3. r[k] = g[1..k] /\ r[k - 1] = g[1..(k - 1)]
    BY <2>1
  <2> HIDE DEF r
  <2> QED BY <2>2, <2>3
<1>8. r[n] = g[D]
  BY <1>1
<1> HIDE DEF r
<1>9. /\ loop = "lines" => FoldLeft(AddLine, <<>>, o) = r[n]
      /\ loop = "spans" => FoldLeft(AddSpan, <<>>, o) = r[n]
  BY <1>5, <1>8, Zenon
<1> QED BY <1>6, <1>7, <1>9, Zenon

\* What _merge_spans makes of any spans.
LEMMA MergeSpansFacts ==
  ASSUME NEW S \in SUBSET IntPairs, IsFiniteSet(S)
  PROVE  Merges(MergeSpans(S), S)
<1> DEFINE R == {p \in S \X S : Earlier(p[1], p[2])}
           o == Sorted(S, R)
           n == Len(o)
           Upto(k) == {o[i] : i \in 1..k}
<1>1. \A s, t \in S : <<s, t>> \in R <=> Earlier(s, t)
  OBVIOUS
<1>2. IsOrder(S, R)
  <2>1. \A s \in S : s[1] \in Int /\ s[2] \in Int /\ s = <<s[1], s[2]>>
    BY DEF IntPairs
  <2>2. \A s \in S : ~Earlier(s, s)
    BY <2>1 DEF Earlier
  <2>3. \A s, t, u \in S : Earlier(s, t) /\ Earlier(t, u) => Earlier(s, u)
    BY <2>1 DEF Earlier
  <2>4. ASSUME NEW s \in S, NEW t \in S, s # t PROVE Earlier(s, t) \/ Earlier(t, s)
    <3>1. s[1] # t[1] \/ s[2] # t[2]
      BY <2>1, <2>4
    <3> QED BY <2>1, <3>1 DEF Earlier
  <2> HIDE DEF R
  <2> QED BY <1>1, <2>2, <2>3, <2>4 DEF IsOrder
<1>3. /\ o \in Seq(S) /\ n \in Nat /\ DOMAIN o = 1..n /\ Range(o) = S
      /\ \A i, j \in 1..n : i < j => <<o[i], o[j]>> \in R
  <2> HIDE DEF R
  <2>1. /\ o \in Seq(S) /\ DOMAIN o = 1..Cardinality(S) /\ Range(o) = S /\ Len(o) = Cardinality(S)
        /\ \A i, j \in DOMAIN o : i < j => <<o[i], o[j]>> \in R
    BY <1>2, SortedFacts
  <2> HIDE DEF o
  <2>2. n \in Nat /\ DOMAIN o = 1..n
    BY <2>1
  <2>3. \A i, j \in 1..n : i < j => <<o[i], o[j]>> \in R
    BY <2>1, <2>2, Zenon
  <2> QED BY <2>1, <2>2, <2>3
<1>4. MergeSpans(S) = FoldLeft(AddSpan, <<>>, o)
  BY Zenon DEF MergeSpans
<1> HIDE DEF o
<1>5. PICK r : /\ r[0] = <<>>
               /\ \A k \in 1..n : r[k] = Turn("spans", r[k - 1], o[k])
               /\ FoldLeft(AddSpan, <<>>, o) = r[n]
  <2>1. \E r : /\ r[0] = <<>>
               /\ \A k \in 1..Len(o) : r[k] = Turn("spans", r[k - 1], o[k])
               /\ "spans" = "lines" => FoldLeft(AddLine, <<>>, o) = r[Len(o)]
               /\ "spans" = "spans" => FoldLeft(AddSpan, <<>>, o) = r[Len(o)]
    <3>1. "spans" \in {"lines", "spans"} /\ o \in Seq(S)
      BY <1>3
    <3> QED BY <3>1, LoopSteps, Zenon
  <2> QED BY <2>1, Zenon
<1> HIDE DEF n, R
<1>6. ASSUME NEW k \in 1..n, Merges(r[k - 1], Upto(k - 1))
      PROVE  Merges(r[k], Upto(k))
  <2>1. k \in Nat /\ k - 1 \in Nat /\ o[k] \in S /\ o[k] \in IntPairs
    BY <1>3 DEF n
  <2>2. Upto(k) = Upto(k - 1) \cup {o[k]}
    <3>1. 1..k = (1..(k - 1)) \cup {k}
      BY <2>1
    <3> QED BY <3>1
  <2>3. ASSUME NEW s \in Upto(k - 1) PROVE s[1] <= o[k][1] /\ s \in IntPairs
    <3>1. PICK i \in 1..(k - 1) : s = o[i]
      OBVIOUS
    <3>2. i \in 1..n /\ i < k
      BY <1>3, <2>1
    <3>3. <<o[i], o[k]>> \in R /\ o[i] \in S
      BY <1>3, <3>2 DEF n
    <3>4. Earlier(o[i], o[k]) /\ o[i] \in IntPairs
      BY <1>1, <2>1, <3>3
    <3> QED BY <2>1, <3>1, <3>4 DEF Earlier, IntPairs
  <2>4. r[k] = AddSpan(r[k - 1], o[k])
    <3>1. r[k] = Turn("spans", r[k - 1], o[k])
      BY <1>5
    <3> QED BY <3>1 DEF Turn
  <2> HIDE DEF Upto
  <2>5. Upto(k - 1) \in SUBSET IntPairs
    BY <2>3
  <2> QED BY <1>6, <2>1, <2>2, <2>3, <2>4, <2>5, SpanIsAdded
<1>7. Merges(r[0], Upto(0))
  <2>1. Upto(0) = {} /\ r[0] = <<>>
    BY <1>5
  <2> HIDE DEF Upto
  <2> QED BY <2>1 DEF Merges
<1>8. ASSUME NEW k \in 0..n PROVE Merges(r[k], Upto(k))
  <2> DEFINE B == {i \in 0..n : ~Merges(r[i], Upto(i))}
  <2> SUFFICES ASSUME B # {} PROVE FALSE
    OBVIOUS
  <2>1. PICK m \in B : \A i \in B : m <= i
    <3>1. B \in SUBSET Nat
      BY <1>3
    <3> HIDE DEF B
    <3> QED BY <3>1, LeastNumber
  <2> HIDE DEF Upto
  <2>2. m # 0 /\ m \in 0..n /\ ~Merges(r[m], Upto(m))
    BY <1>7, <2>1
  <2>3. m \in 1..n /\ m - 1 \in 0..n /\ m - 1 < m
    BY <1>3, <2>2
  <2>4. Merges(r[m - 1], Upto(m - 1))
    BY <2>1, <2>3
  <2> QED BY <1>6, <2>2, <2>3, <2>4
<1>9. Upto(n) = S
  BY <1>3 DEF Range
<1> HIDE DEF Upto
<1>10. Merges(r[n], S)
  BY <1>3, <1>8, <1>9
<1> QED BY <1>4, <1>5, <1>10

\* A line after all others is added as a span of one line would be.
LEMMA LineIsAdded ==
  ASSUME NEW S \in SUBSET IntPairs, NEW m, Merges(m, S), NEW x \in Int,
         \A s \in S : s[1] <= s[2] /\ s[2] <= x
  PROVE  AddLine(m, x) = AddSpan(m, <<x, x>>)
<1>1. CASE m # <<>> /\ Joins(Last(m)[2], x)
  <2>1. Last(m) = m[Len(m)] /\ Len(m) \in 1..Len(m) /\ m[Len(m)] \in IntPairs
    BY <1>1 DEF Merges, Last
  <2> DEFINE c == m[Len(m)][1]
             d == m[Len(m)][2]
  <2>2. c \in Int /\ d \in Int
    BY <2>1 DEF IntPairs
  <2>3. PICK s \in S : c = s[1] /\ s[2] <= d
    BY <2>1 DEF Merges
  <2>4. s[1] \in Int /\ s[2] \in Int /\ s[1] <= s[2]
    BY DEF IntPairs
  <2>5. d \in c..d
    BY <2>2, <2>3, <2>4
  <2>6. PICK t \in S : t[1] <= d /\ d <= t[2]
    BY <2>1, <2>5 DEF Merges
  <2>7. d <= x
    <3>1. t[2] \in Int /\ t[2] <= x
      BY DEF IntPairs
    <3> QED BY <2>2, <2>6, <3>1
  <2>8. JoinedEnd(m[Len(m)], <<x, x>>) = x
    BY <2>2, <2>7, MaxMinOfTwo DEF JoinedEnd
  <2>9. AddLine(m, x) = [m EXCEPT ![Len(m)] = <<c, x>>]
    BY <1>1, Zenon DEF AddLine
  <2>10. AddSpan(m, <<x, x>>) = [m EXCEPT ![Len(m)] = <<c, JoinedEnd(m[Len(m)], <<x, x>>)>>]
    <3>1. Joins(Last(m)[2], <<x, x>>[1])
      BY <1>1
    <3> QED BY <1>1, <3>1, Zenon DEF AddSpan
  <2> QED BY <2>8, <2>9, <2>10
<1>2. CASE ~(m # <<>> /\ Joins(Last(m)[2], x))
  <2>1. <<x, x>>[1] = x
    OBVIOUS
  <2> QED BY <1>2, <2>1 DEF AddLine, AddSpan
<1> QED BY <1>1, <1>2

OneLine(x) == <<x, x>>

\* What _coalesce makes of any lines.
LEMMA CoalesceFacts ==
  ASSUME NEW L \in SUBSET Nat, IsFiniteSet(L)
  PROVE  Merges(Coalesce(L), {OneLine(x) : x \in {x \in L : x >= 1}})
<1> DEFINE K == {x \in L : x >= 1}
           R == {p \in K \X K : p[1] < p[2]}
           o == Sorted(K, R)
           n == Len(o)
           Upto(k) == {OneLine(o[i]) : i \in 1..k}
<1>1. K \in SUBSET Nat /\ IsFiniteSet(K)
  BY FS_Subset
<1>1b. \A x \in K : x \in Int
  OBVIOUS
<1>1a. Coalesce(L) = FoldLeft(AddLine, <<>>, o)
  BY Zenon DEF Coalesce
<1> HIDE DEF K
<1>2. \A x, y \in K : <<x, y>> \in R <=> x < y
  OBVIOUS
<1>2a. IsOrder(K, R)
  <2>1. /\ \A x \in K : ~(x < x)
        /\ \A x, y, z \in K : x < y /\ y < z => x < z
        /\ \A x, y \in K : x # y => x < y \/ y < x
    BY <1>1
  <2> HIDE DEF R
  <2> QED BY <1>2, <2>1 DEF IsOrder
<1>3. /\ o \in Seq(K) /\ n \in Nat /\ DOMAIN o = 1..n /\ Range(o) = K
      /\ \A i, j \in 1..n : i < j => <<o[i], o[j]>> \in R
  <2> HIDE DEF R
  <2>1. /\ o \in Seq(K) /\ DOMAIN o = 1..Cardinality(K) /\ Range(o) = K /\ Len(o) = Cardinality(K)
        /\ \A i, j \in DOMAIN o : i < j => <<o[i], o[j]>> \in R
    BY <1>1, <1>2a, SortedFacts
  <2> HIDE DEF o
  <2> QED BY <2>1
<1> HIDE DEF o
<1>5. PICK r : /\ r[0] = <<>>
               /\ \A k \in 1..n : r[k] = Turn("lines", r[k - 1], o[k])
               /\ FoldLeft(AddLine, <<>>, o) = r[n]
  <2>1. \E r : /\ r[0] = <<>>
               /\ \A k \in 1..Len(o) : r[k] = Turn("lines", r[k - 1], o[k])
               /\ "lines" = "lines" => FoldLeft(AddLine, <<>>, o) = r[Len(o)]
               /\ "lines" = "spans" => FoldLeft(AddSpan, <<>>, o) = r[Len(o)]
    <3>1. "lines" \in {"lines", "spans"} /\ o \in Seq(K)
      BY <1>3
    <3> QED BY <3>1, LoopSteps, Zenon
  <2> QED BY <2>1, Zenon
<1> HIDE DEF n, R
<1>6. ASSUME NEW k \in 1..n, Merges(r[k - 1], Upto(k - 1))
      PROVE  Merges(r[k], Upto(k))
  <2>0. k \in Nat /\ k - 1 \in Nat /\ o[k] \in K
    BY <1>3 DEF n
  <2>1. k \in Nat /\ k - 1 \in Nat /\ o[k] \in K /\ o[k] \in Int
    BY <1>1b, <2>0
  <2>2. Upto(k) = Upto(k - 1) \cup {OneLine(o[k])}
    <3>1. 1..k = (1..(k - 1)) \cup {k}
      BY <2>1
    <3> QED BY <3>1
  <2>3. ASSUME NEW s \in Upto(k - 1)
        PROVE  s \in IntPairs /\ s[1] <= s[2] /\ s[2] <= o[k] /\ s[1] <= o[k]
    <3>1. PICK i \in 1..(k - 1) : s = OneLine(o[i])
      OBVIOUS
    <3>2. i \in 1..n /\ i < k
      BY <1>3, <2>1
    <3>3. <<o[i], o[k]>> \in R /\ o[i] \in K
      BY <1>3, <3>2 DEF n
    <3>4. o[i] < o[k] /\ o[i] \in Int
      <4>1. o[i] < o[k]
        BY <1>2, <2>1, <3>3, Zenon
      <4> QED BY <1>1b, <3>3, <4>1
    <3> QED BY <2>1, <3>1, <3>4 DEF OneLine, IntPairs
  <2> HIDE DEF Upto
  <2>4. r[k] = AddSpan(r[k - 1], OneLine(o[k]))
    <3>1. r[k] = Turn("lines", r[k - 1], o[k])
      BY <1>5
    <3>2. r[k] = AddLine(r[k - 1], o[k])
      BY <3>1 DEF Turn
    <3>3. Upto(k - 1) \in SUBSET IntPairs
      BY <2>3
    <3> QED BY <1>6, <2>1, <2>3, <3>2, <3>3, LineIsAdded DEF OneLine
  <2>5. Upto(k - 1) \in SUBSET IntPairs
    BY <2>3
  <2>6. OneLine(o[k]) \in IntPairs /\ \A s \in Upto(k - 1) : s[1] <= OneLine(o[k])[1]
    BY <2>1, <2>3 DEF OneLine, IntPairs
  <2> QED BY <1>6, <2>2, <2>4, <2>5, <2>6, SpanIsAdded
<1>7. Merges(r[0], Upto(0))
  <2>1. Upto(0) = {} /\ r[0] = <<>>
    BY <1>5
  <2> HIDE DEF Upto
  <2> QED BY <2>1 DEF Merges
<1>8. ASSUME NEW k \in 0..n PROVE Merges(r[k], Upto(k))
  <2> DEFINE B == {i \in 0..n : ~Merges(r[i], Upto(i))}
  <2> SUFFICES ASSUME B # {} PROVE FALSE
    OBVIOUS
  <2>1. PICK m \in B : \A i \in B : m <= i
    <3>1. B \in SUBSET Nat
      BY <1>3
    <3> HIDE DEF B
    <3> QED BY <3>1, LeastNumber
  <2> HIDE DEF Upto
  <2>2. m # 0 /\ m \in 0..n /\ ~Merges(r[m], Upto(m))
    BY <1>7, <2>1
  <2>3. m \in 1..n /\ m - 1 \in 0..n /\ m - 1 < m
    BY <1>3, <2>2
  <2>4. Merges(r[m - 1], Upto(m - 1))
    BY <2>1, <2>3
  <2> QED BY <1>6, <2>2, <2>3, <2>4
<1>9. Upto(n) = {OneLine(x) : x \in K}
  BY <1>3 DEF Range
<1> HIDE DEF Upto
<1>10. Merges(r[n], Upto(n))
  BY <1>3, <1>8
<1> QED BY <1>1a, <1>5, <1>9, <1>10, Zenon DEF K

-----------------------------------------------------------------------------
(* What is shown.                                                          *)

\* The values of a function on a finite set are finitely many.
LEMMA FiniteImage ==
  ASSUME NEW f, IsFiniteSet(DOMAIN f), f = [x \in DOMAIN f |-> f[x]]
  PROVE  IsFiniteSet({f[x] : x \in DOMAIN f})
<1> DEFINE T == {f[x] : x \in DOMAIN f}
<1>1. f \in [DOMAIN f -> T]
  OBVIOUS
<1>2. f \in Surjection(DOMAIN f, T)
  BY <1>1 DEF Surjection
<1> HIDE DEF T
<1> QED BY <1>2, FS_Surjection DEF T

\* Merging covers what the spans covered.
LEMMA MergesCovers ==
  ASSUME NEW S \in SUBSET IntPairs, NEW m, Merges(m, S)
  PROVE  /\ \A x \in Covered(m) : x \in Int /\ \E s \in S : s[1] <= x /\ x <= s[2]
         /\ \A s \in S : s[1]..s[2] \subseteq Covered(m)
<1>1. m \in Seq(IntPairs) /\ DOMAIN m = 1..Len(m)
  BY DEF Merges
<1>2. \A x : x \in Covered(m) <=> \E j \in 1..Len(m) : x \in m[j][1]..m[j][2]
  BY <1>1 DEF Covered, Range
<1>3. ASSUME NEW x \in Covered(m) PROVE x \in Int /\ \E s \in S : s[1] <= x /\ x <= s[2]
  <2>1. PICK j \in 1..Len(m) : x \in m[j][1]..m[j][2]
    BY <1>2
  <2> QED BY <2>1 DEF Merges
<1>4. ASSUME NEW s \in S, NEW x \in s[1]..s[2] PROVE x \in Covered(m)
  <2>1. PICK j \in 1..Len(m) : m[j][1] <= s[1] /\ s[2] <= m[j][2]
    BY DEF Merges
  <2>2. m[j][1] \in Int /\ m[j][2] \in Int /\ s[1] \in Int /\ s[2] \in Int
    BY <1>1 DEF IntPairs
  <2>3. x \in m[j][1]..m[j][2]
    BY <2>1, <2>2
  <2> QED BY <1>2, <2>3
<1> QED BY <1>3, <1>4

\* The ranges _coalesce makes hold the lines from 1 on and nothing else.
LEMMA RangesFacts ==
  ASSUME NEW L \in SUBSET Nat, IsFiniteSet(L)
  PROVE  LET ranges == Coalesce(L)
         IN  /\ IsFiniteSet(Range(ranges))
             /\ ranges = <<>> <=> Range(ranges) = {}
             /\ \A r \in Range(ranges) :
                  /\ r[1] \in L /\ r[2] \in L /\ 1 <= r[1] /\ r[1] <= r[2]
                  /\ r[1]..r[2] \subseteq Covered(ranges)
                  /\ \A x \in r[1]..r[2] : x \in L
             /\ \A t \in L : t >= 1 => \E r \in Range(ranges) : r[1] <= t /\ t <= r[2]
<1> DEFINE m == Coalesce(L)
           S == {OneLine(x) : x \in {x \in L : x >= 1}}
<1>1. Merges(m, S)
  BY CoalesceFacts
<1>2. \A s \in S : s \in IntPairs /\ s[1] \in L /\ s[2] = s[1] /\ s[1] >= 1 /\ s[1] \in Nat
  BY DEF OneLine, IntPairs
<1>3. \A x \in L : x >= 1 => \E s \in S : s[1] = x /\ s[2] = x
  <2>1. \A x \in L : x >= 1 => OneLine(x) \in S
    OBVIOUS
  <2>2. \A x : OneLine(x)[1] = x /\ OneLine(x)[2] = x
    BY DEF OneLine
  <2> HIDE DEF S
  <2> QED BY <2>1, <2>2
<1> HIDE DEF m, S
<1>4. m \in Seq(IntPairs) /\ DOMAIN m = 1..Len(m) /\ Len(m) \in Nat
  BY <1>1 DEF Merges
<1>5. Range(m) = {m[j] : j \in 1..Len(m)}
  BY <1>4 DEF Range
<1>6. IsFiniteSet(Range(m))
  <2>1. IsFiniteSet(DOMAIN m)
    BY <1>4, FS_Interval
  <2>2. m = [j \in DOMAIN m |-> m[j]]
    BY <1>4
  <2> QED BY <1>4, <1>5, <2>1, <2>2, FiniteImage
<1>7. m = <<>> <=> Range(m) = {}
  BY <1>4, <1>5
<1>8. ASSUME NEW r \in Range(m)
      PROVE  /\ r[1] \in L /\ r[2] \in L /\ 1 <= r[1] /\ r[1] <= r[2]
             /\ r[1]..r[2] \subseteq Covered(m)
             /\ \A x \in r[1]..r[2] : x \in L
  <2>1. PICK j \in 1..Len(m) : r = m[j]
    BY <1>5
  <2>2. r[1] \in Int /\ r[2] \in Int
    BY <1>4, <2>1 DEF IntPairs
  <2>3. PICK s \in S : r[1] = s[1] /\ s[2] <= r[2]
    BY <1>1, <2>1 DEF Merges
  <2>4. r[1] \in L /\ 1 <= r[1] /\ r[1] <= r[2]
    BY <1>2, <2>2, <2>3
  <2>5. ASSUME NEW x \in r[1]..r[2] PROVE x \in L
    <3>1. PICK t \in S : t[1] <= x /\ x <= t[2]
      BY <1>1, <2>1 DEF Merges
    <3>2. x = t[1]
      BY <1>2, <2>2, <3>1
    <3> QED BY <1>2, <3>2
  <2>6. r[2] \in r[1]..r[2]
    BY <2>2, <2>4
  <2>7. r[1]..r[2] \subseteq Covered(m)
    BY DEF Covered
  <2> QED BY <2>4, <2>5, <2>6, <2>7
<1>9. ASSUME NEW t \in L, t >= 1 PROVE \E r \in Range(m) : r[1] <= t /\ t <= r[2]
  <2>1. PICK s \in S : s[1] = t /\ s[2] = t
    BY <1>3, <1>9
  <2>2. PICK j \in 1..Len(m) : m[j][1] <= s[1] /\ s[2] <= m[j][2]
    BY <1>1 DEF Merges
  <2> QED BY <1>5, <2>1, <2>2
<1> QED BY <1>6, <1>7, <1>8, <1>9 DEF m

\* window_spans, for any changed lines.
LEMMA WindowFacts ==
  ASSUME NEW L \in SUBSET Nat, IsFiniteSet(L), NEW n \in Nat, NEW w \in Nat
  PROVE  LET spans == WindowSpans(n, Coalesce(L), w)
         IN  /\ L \cap 1..n \subseteq ShownLines(spans, n)
             /\ \A k \in ShownLines(spans, n) : \E t \in L : t - w <= k /\ k <= t + w
             /\ Apart(spans)
<1> DEFINE ranges == Coalesce(L)
           from(r) == Max({1, r[1] - w})
           to(r) == Min({n, r[2] + w})
           f == [r \in Range(ranges) |-> <<from(r), to(r)>>]
           S == {<<from(r), to(r)>> : r \in Range(ranges)}
           m == WindowSpans(n, ranges, w)
<1>1. m = MergeSpans(S)
  BY DEF WindowSpans
<1>2. ASSUME NEW r \in Range(ranges)
      PROVE  /\ r[1] \in Nat /\ r[2] \in Nat /\ r[1] \in L /\ r[2] \in L /\ r[1] <= r[2]
             /\ \A x \in r[1]..r[2] : x \in L
             /\ from(r) = (IF 1 >= r[1] - w THEN 1 ELSE r[1] - w)
             /\ to(r) = (IF n <= r[2] + w THEN n ELSE r[2] + w)
  <2>1. /\ r[1] \in L /\ r[2] \in L /\ r[1] <= r[2]
        /\ \A x \in r[1]..r[2] : x \in L
    BY RangesFacts
  <2>2. r[1] \in Nat /\ r[2] \in Nat /\ r[1] - w \in Int /\ r[2] + w \in Int /\ 1 \in Int /\ n \in Int
    <3>1. \A x \in L : x \in Nat
      OBVIOUS
    <3>2. r[1] \in Nat /\ r[2] \in Nat
      BY <2>1, <3>1, Zenon
    <3> QED BY <3>2
  <2>3. from(r) = (IF 1 >= r[1] - w THEN 1 ELSE r[1] - w)
    BY <2>2, MaxMinOfTwo
  <2>4. to(r) = (IF n <= r[2] + w THEN n ELSE r[2] + w)
    BY <2>2, MaxMinOfTwo
  <2> QED BY <2>1, <2>2, <2>3, <2>4
<1>3. IsFiniteSet(S)
  <2>1. DOMAIN f = Range(ranges) /\ IsFiniteSet(DOMAIN f) /\ f = [x \in DOMAIN f |-> f[x]]
    BY RangesFacts
  <2>2. S = {f[x] : x \in DOMAIN f}
    OBVIOUS
  <2> HIDE DEF f, S
  <2> QED BY <2>1, <2>2, FiniteImage
<1> HIDE DEF from, to, m
<1>4. S \in SUBSET IntPairs
  <2>1. \A r \in Range(ranges) : from(r) \in Int /\ to(r) \in Int
    BY <1>2
  <2> QED BY <2>1 DEF IntPairs
<1>5. \A s : s \in S <=> \E r \in Range(ranges) : s = <<from(r), to(r)>>
  OBVIOUS
<1> HIDE DEF S, f
<1>6. Merges(m, S)
  BY <1>1, <1>3, <1>4, MergeSpansFacts
<1>7. Apart(m)
  BY <1>6 DEF Merges, Apart
<1>8. ASSUME NEW t \in L \cap 1..n PROVE t \in ShownLines(m, n)
  <2>1. t \in Nat /\ t \in L /\ t >= 1 /\ t <= n
    OBVIOUS
  <2>2. PICK r \in Range(ranges) : r[1] <= t /\ t <= r[2]
    BY <2>1, RangesFacts
  <2>3. from(r) <= t /\ t <= to(r) /\ from(r) \in Int /\ to(r) \in Int
    BY <1>2, <2>1, <2>2
  <2>4. <<from(r), to(r)>> \in S /\ t \in from(r)..to(r)
    BY <1>5, <2>1, <2>3
  <2>5. t \in Covered(m)
    <3> DEFINE s == <<from(r), to(r)>>
    <3>1. s \in S /\ t \in s[1]..s[2]
      BY <2>4
    <3> HIDE DEF s
    <3> QED BY <1>4, <1>6, <3>1, MergesCovers
  <2> QED BY <1>8, <2>5 DEF ShownLines
<1>9. ASSUME NEW k \in ShownLines(m, n) PROVE \E t \in L : t - w <= k /\ k <= t + w
  <2>1. k \in Covered(m)
    BY DEF ShownLines
  <2>2. PICK s \in S : s[1] <= k /\ k <= s[2] /\ k \in Int
    BY <1>4, <1>6, <2>1, MergesCovers
  <2>3. PICK r \in Range(ranges) : s = <<from(r), to(r)>>
    BY <1>5
  <2>4. from(r) <= k /\ k <= to(r)
    BY <2>2, <2>3
  <2>5. /\ r[1] \in Nat /\ r[2] \in Nat /\ r[1] \in L /\ r[2] \in L /\ r[1] <= r[2]
        /\ \A x \in r[1]..r[2] : x \in L
    BY <1>2
  <2>6. r[1] - w <= k /\ k <= r[2] + w
    BY <1>2, <2>2, <2>4
  <2>7. CASE k < r[1]
    BY <2>2, <2>5, <2>6, <2>7
  <2>8. CASE k > r[2]
    BY <2>2, <2>5, <2>6, <2>8
  <2>9. CASE r[1] <= k /\ k <= r[2]
    <3>1. k \in r[1]..r[2] /\ k - w <= k /\ k <= k + w
      BY <2>2, <2>5, <2>9
    <3> QED BY <2>5, <3>1
  <2> QED BY <2>2, <2>5, <2>7, <2>8, <2>9
<1> QED BY <1>7, <1>8, <1>9 DEF m

\* Definitions are nested or apart.
IsLayout(layout) ==
  /\ layout \subseteq Nat \X Nat
  /\ \A d, e \in layout :
       /\ d[1] <= d[2]
       /\ \/ d[2] < e[1] \/ e[2] < d[1]
          \/ d[1] <= e[1] /\ e[2] <= d[2]
          \/ e[1] <= d[1] /\ d[2] <= e[2]

\* One of the definitions that meet a range is the smallest.
LEMMA ChosenFacts ==
  ASSUME NEW layout, IsLayout(layout), NEW meeting \in SUBSET layout, meeting # {}
  PROVE  /\ Chosen(meeting) \in meeting
         /\ \A d \in meeting : Chosen(meeting)[2] - Chosen(meeting)[1] <= d[2] - d[1]
<1> DEFINE widths == {d[2] - d[1] : d \in meeting}
           Is(c) == c \in meeting /\ \A d \in meeting : c[2] - c[1] <= d[2] - d[1]
<1>1. \A d \in meeting : d[1] \in Nat /\ d[2] \in Nat /\ d[1] <= d[2]
  BY DEF IsLayout
<1>2. widths \in SUBSET Nat /\ widths # {}
  BY <1>1
<1>3. PICK least \in widths : \A x \in widths : least <= x
  <2> HIDE DEF widths
  <2> QED BY <1>2, LeastNumber
<1>4. PICK c \in meeting : least = c[2] - c[1]
  OBVIOUS
<1>5. \A d \in meeting : c[2] - c[1] <= d[2] - d[1]
  BY <1>3, <1>4
<1>6. Is(Chosen(meeting))
  <2>1. \E x : Is(x)
    BY <1>5
  <2>2. Chosen(meeting) = CHOOSE x : Is(x)
    BY Zenon DEF Chosen
  <2> HIDE DEF Is
  <2> QED BY <2>1, <2>2, Zenon
<1> QED BY <1>6

\* python_enclosing_spans, for any changed lines.
LEMMA EnclosingFacts ==
  ASSUME NEW L \in SUBSET Nat, IsFiniteSet(L), NEW layout, IsLayout(layout)
  PROVE  LET ranges == Coalesce(L)
             spans == EnclosingSpans(layout, ranges)
             Meets(d, r) == (d[1]..d[2]) \cap (r[1]..r[2]) # {}
         IN  /\ Apart(spans)
             /\ \A d \in layout :
                  (ranges # <<>> /\ Covered(ranges) \subseteq d[1]..d[2])
                    => Covered(spans) \subseteq d[1]..d[2]
             /\ \A r \in Range(ranges) :
                  (\E d \in layout : Meets(d, r)) =>
                    \E d \in layout : Meets(d, r) /\ d[1]..d[2] \subseteq Covered(spans)
<1> DEFINE ranges == Coalesce(L)
           Meeting(r) == {n \in layout : n[1] <= r[2] /\ n[2] >= r[1]}
           met == {q \in Range(ranges) : Meeting(q) # {}}
           S == {Chosen(Meeting(r)) : r \in met}
           f == [r \in met |-> Chosen(Meeting(r))]
           m == EnclosingSpans(layout, ranges)
           Meets(d, r) == (d[1]..d[2]) \cap (r[1]..r[2]) # {}
<1>1. m = MergeSpans(S)
  BY Zenon DEF EnclosingSpans
<1>2. \A d \in layout : d[1] \in Nat /\ d[2] \in Nat /\ d[1] <= d[2] /\ d \in IntPairs
  BY DEF IsLayout, IntPairs
<1>3. \A r \in Range(ranges) :
        /\ r[1] \in Nat /\ r[2] \in Nat /\ r[1] <= r[2]
        /\ r[1] \in Covered(ranges) /\ r[2] \in Covered(ranges)
  <2> SUFFICES ASSUME NEW r \in Range(ranges)
               PROVE  /\ r[1] \in Nat /\ r[2] \in Nat /\ r[1] <= r[2]
                      /\ r[1] \in Covered(ranges) /\ r[2] \in Covered(ranges)
    OBVIOUS
  <2>1. r[1] \in L /\ r[2] \in L /\ r[1] <= r[2] /\ r[1]..r[2] \subseteq Covered(ranges)
    BY RangesFacts
  <2>2. r[1] \in Nat /\ r[2] \in Nat
    BY <2>1
  <2> QED BY <2>1, <2>2
<1>4. IsFiniteSet(Range(ranges))
  BY RangesFacts
<1> HIDE DEF m, ranges
<1>5. ASSUME NEW r \in met
      PROVE  /\ Chosen(Meeting(r)) \in Meeting(r)
             /\ \A d \in Meeting(r) :
                  Chosen(Meeting(r))[2] - Chosen(Meeting(r))[1] <= d[2] - d[1]
  <2>1. Meeting(r) \in SUBSET layout /\ Meeting(r) # {}
    OBVIOUS
  <2> HIDE DEF Meeting
  <2> QED BY <2>1, ChosenFacts
<1>6. IsFiniteSet(S)
  <2>1. DOMAIN f = met /\ f = [x \in DOMAIN f |-> f[x]]
    OBVIOUS
  <2>2. IsFiniteSet(met)
    BY <1>4, FS_Subset
  <2>3. S = {f[x] : x \in DOMAIN f}
    OBVIOUS
  <2> HIDE DEF f, S, met
  <2> QED BY <2>1, <2>2, <2>3, FiniteImage
<1>7. \A s : s \in S <=> \E r \in met : s = Chosen(Meeting(r))
  OBVIOUS
<1>8. \A d, r : d \in Meeting(r) <=> d \in layout /\ d[1] <= r[2] /\ d[2] >= r[1]
  OBVIOUS
<1>9. \A r : r \in met <=> r \in Range(ranges) /\ Meeting(r) # {}
  OBVIOUS
<1> HIDE DEF S, f, met, Meeting
<1>10. S \in SUBSET layout /\ S \in SUBSET IntPairs
  BY <1>2, <1>5, <1>7, <1>8
<1>11. Merges(m, S)
  BY <1>1, <1>6, <1>10, MergeSpansFacts
<1>12. Apart(m)
  BY <1>11 DEF Merges, Apart
<1>13. ASSUME NEW d \in layout, Covered(ranges) \subseteq d[1]..d[2], NEW x \in Covered(m)
       PROVE  x \in d[1]..d[2]
  <2>1. PICK s \in S : s[1] <= x /\ x <= s[2] /\ x \in Int
    BY <1>10, <1>11, MergesCovers
  <2>2. PICK r \in met : s = Chosen(Meeting(r))
    BY <1>7
  <2>3. r \in Range(ranges) /\ s \in layout /\ s[1] <= r[2] /\ s[2] >= r[1]
    BY <1>5, <1>8, <1>9, <2>2
  <2>4. d[1] <= r[1] /\ r[2] <= d[2] /\ r[1] <= r[2] /\ r[1] \in Nat /\ r[2] \in Nat
    BY <1>3, <1>13, <2>3
  <2>5. d[1] \in Nat /\ d[2] \in Nat /\ s[1] \in Nat /\ s[2] \in Nat /\ s[1] <= s[2] /\ d[1] <= d[2]
    BY <1>2, <2>3
  <2>6. d \in Meeting(r)
    <3>1. d[1] <= r[2] /\ d[2] >= r[1]
      BY <2>4, <2>5
    <3> QED BY <1>8, <3>1
  <2>7. s[2] - s[1] <= d[2] - d[1]
    BY <1>5, <2>2, <2>6
  <2>8. \/ d[2] < s[1] \/ s[2] < d[1]
        \/ d[1] <= s[1] /\ s[2] <= d[2]
        \/ s[1] <= d[1] /\ d[2] <= s[2]
    BY <2>3 DEF IsLayout
  <2>9. d[1] <= s[1] /\ s[2] <= d[2]
    BY <2>3, <2>4, <2>5, <2>7, <2>8
  <2> QED BY <2>1, <2>5, <2>9
<1>14. ASSUME NEW r \in Range(ranges), NEW d \in layout, Meets(d, r)
       PROVE  \E e \in layout : Meets(e, r) /\ e[1]..e[2] \subseteq Covered(m)
  <2>1. PICK x \in d[1]..d[2] : x \in r[1]..r[2]
    BY <1>14
  <2>2. d[1] <= r[2] /\ d[2] >= r[1]
    BY <1>2, <1>3, <2>1
  <2>3. r \in met
    BY <1>8, <1>9, <2>2
  <2> DEFINE s == Chosen(Meeting(r))
  <2>4. s \in S /\ s \in layout /\ s[1] <= r[2] /\ s[2] >= r[1]
    BY <1>5, <1>7, <1>8, <2>3
  <2> HIDE DEF s
  <2>5. Meets(s, r)
    <3>1. s[1] \in Nat /\ s[2] \in Nat /\ s[1] <= s[2] /\ r[1] \in Nat /\ r[2] \in Nat /\ r[1] <= r[2]
      BY <1>2, <1>3, <2>4
    <3>2. CASE s[1] <= r[1]
      <4>1. r[1] \in s[1]..s[2] /\ r[1] \in r[1]..r[2]
        BY <2>4, <3>1, <3>2
      <4> QED BY <4>1
    <3>3. CASE r[1] <= s[1]
      <4>1. s[1] \in s[1]..s[2] /\ s[1] \in r[1]..r[2]
        BY <2>4, <3>1, <3>3
      <4> QED BY <4>1
    <3> QED BY <3>1, <3>2, <3>3
  <2>6. s[1]..s[2] \subseteq Covered(m)
    BY <1>10, <1>11, <2>4, MergesCovers
  <2> QED BY <2>4, <2>5, <2>6
<1> QED BY <1>12, <1>13, <1>14 DEF m, ranges

-----------------------------------------------------------------------------
(* The lines of the file being parsed.                                     *)

\* The parser has touched finitely many lines.
TouchedFinitely == block.exists => IsFiniteSet(block.touched)

\* A line of a hunk touches one line at most.
LEMMA HunkLineTouches ==
  ASSUME NEW b \in Blocks, IsFiniteSet(b.touched), NEW l, new_line \in Nat
  PROVE  IsFiniteSet(ReadHunkLine(b, l).touched)
<1>1. ReadHunkLine(b, l).touched = b.touched \/ ReadHunkLine(b, l).touched = b.touched \cup {new_line}
  BY ReadHunkLineShape
<1>2. IsFiniteSet(b.touched \cup {new_line})
  BY FS_AddElement
<1> QED BY <1>1, <1>2

\* Every step keeps that.
LEMMA StepTouched == PInv /\ TouchedFinitely /\ [Next]_vars => TouchedFinitely'
<1> SUFFICES ASSUME PInv, TouchedFinitely, [Next]_vars PROVE TouchedFinitely'
  OBVIOUS
<1>1. CASE UNCHANGED vars
  BY <1>1 DEF vars, parserVars, TouchedFinitely
<1>2. CASE EndOfText
  <2>1. block'.exists = FALSE
    BY <1>2 DEF EndOfText, NoBlock
  <2> QED BY <2>1 DEF TouchedFinitely
<1>3. CASE WriteSection
  <2>1. PICK s \in Changes : ReadLine(Head(HeaderLines(s)))
    BY <1>3 DEF WriteSection
  <2> DEFINE line == HeaderLine("diff", <<s.old, s.new>>)
  <2>2. line.header = "diff" /\ ReadLine(line)
    BY <2>1, HeaderShape DEF HeaderLine, Line
  <2> HIDE DEF line
  <2>3. block' = NewBlock(line)
    BY <2>2, ReadCases
  <2>4. block'.touched = {}
    BY <2>3 DEF NewBlock
  <2> QED BY <2>4, FS_EmptySet DEF TouchedFinitely
<1>4. CASE WriteHeaderLine
  <2> DEFINE line == Head(script)
  <2>1. script # <<>> /\ ReadLine(line)
    BY <1>4 DEF WriteHeaderLine
  <2>2. block.exists /\ ~section.open /\ block \in Blocks /\ script \in Seq(ScriptLines)
    BY <2>1, BlockExists DEF PInv, HeaderFirst, Types
  <2>3. ~in_hunk /\ line \in ScriptLines
    BY <2>1, <2>2 DEF PInv, ParserKeepsPosition
  <2> HIDE DEF line
  <2>4. block' = ReadHeader(block, line)
    BY <2>1, <2>3, ReadCases DEF ScriptLines, RenameHeaders
  <2>5. block'.touched = block.touched
    BY <2>2, <2>3, <2>4, ReadHeaderShape
  <2> QED BY <2>2, <2>5 DEF TouchedFinitely
<1>5. CASE \/ WriteHunk \/ WriteAdded \/ WriteRemoved \/ WriteContext \/ WriteMarker \/ WriteStray
  <2>1. InBody /\ CountLine /\ InBodyFacts /\ block.exists
    BY <1>5, BodyFacts DEF WriteHunk, WriteAdded, WriteRemoved, WriteContext, WriteMarker, WriteStray, InBody
  <2>2. block \in Blocks /\ new_line \in Nat
    BY <2>1, BlockExists DEF PInv, Types
  <2>3. block' = block \/ \E line : block' = ReadHunkLine(block, line)
    <3>1. PICK line : ReadLine(line) /\ line.header # "diff" /\ (line.first = "@@" \/ in_hunk)
      BY <1>5, <2>1, BodyReads
    <3>2. block' = block \/ block' = ReadHunkLine(block, line)
      BY <3>1, ReadCases
    <3> QED BY <3>2, Zenon
  <2>4. IsFiniteSet(block.touched)
    BY <2>1 DEF TouchedFinitely
  <2> QED BY <2>2, <2>3, <2>4, HunkLineTouches DEF TouchedFinitely
<1> QED BY <1>1, <1>2, <1>3, <1>4, <1>5 DEF Next

\* The lines the properties are about are finitely many numbers.
LEMMA TouchedLines ==
  ASSUME PInv, TouchedFinitely
  PROVE  Touched \in SUBSET Nat /\ IsFiniteSet(Touched)
<1>1. CASE block.exists
  <2>1. block \in Blocks
    BY <1>1, BlockExists DEF PInv, Types
  <2> QED BY <1>1, <2>1 DEF Touched, TouchedFinitely, Blocks
<1>2. CASE ~block.exists
  BY <1>2, FS_EmptySet DEF Touched
<1> QED BY <1>1, <1>2

LEMMA TouchedHolds == Spec => [](PInv /\ TouchedFinitely)
<1>1. Init => TouchedFinitely
  BY DEF Init, NoBlock, TouchedFinitely
<1> QED BY <1>1, InitPInv, StepPInv, StepTouched, PTL DEF Spec

\* window_spans: at any length of the file, any window and whatever lines a
\* diff touches, the windows show every changed line there is, nothing far
\* from a change, and no line twice.
THEOREM WindowsHoldTheChange == Spec => []WindowsShowTheChange
<1>1. ASSUME PInv, TouchedFinitely PROVE WindowsShowTheChange
  <2>1. Touched \in SUBSET Nat /\ IsFiniteSet(Touched)
    BY <1>1, TouchedLines
  <2> SUFFICES ASSUME NEW layout \in Layouts, EnclosingSpans(layout, Ranges) = <<>>,
                      NEW n \in Lengths, NEW w \in Windows
               PROVE  LET spans == ContextSpans(layout, n, Ranges, w)
                      IN  /\ Touched \cap 1..n \subseteq ShownLines(spans, n)
                          /\ \A k \in ShownLines(spans, n) :
                               \E t \in Touched : t - w <= k /\ k <= t + w
                          /\ Apart(spans)
    BY DEF WindowsShowTheChange
  <2>2. n \in Nat /\ w \in Nat
    BY ExcerptAssumption
  <2>3. ContextSpans(layout, n, Ranges, w) = WindowSpans(n, Coalesce(Touched), w)
    BY DEF ContextSpans, Ranges
  <2> QED BY <2>1, <2>2, <2>3, WindowFacts
<1> QED BY <1>1, TouchedHolds, PTL

\* python_enclosing_spans: for any definitions, nested or apart, and whatever
\* lines a diff touches, a change inside a definition shows nothing outside
\* it, and each range that meets one has one shown to its end.
THEOREM DefinitionsHoldChanges == Spec => []DefinitionsHoldTheChange
<1>1. ASSUME PInv, TouchedFinitely PROVE DefinitionsHoldTheChange
  <2>1. Touched \in SUBSET Nat /\ IsFiniteSet(Touched)
    BY <1>1, TouchedLines
  <2>2. \A layout \in Layouts : IsLayout(layout)
    BY ExcerptAssumption DEF IsLayout
  <2> QED BY <2>1, <2>2, EnclosingFacts, Zenon DEF DefinitionsHoldTheChange, Ranges
<1> QED BY <1>1, TouchedHolds, PTL
=============================================================================
