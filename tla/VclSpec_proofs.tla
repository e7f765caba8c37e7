--------------------------- MODULE VclSpec_proofs ---------------------------
(***************************************************************************)
(* Theorems about VclSpec: what is sorted does not depend on the order in  *)
(* which it was listed.                                                    *)
(***************************************************************************)
EXTENDS VclSpec, SequenceTheorems, FiniteSetTheorems, WellFoundedInduction, TLAPS

-----------------------------------------------------------------------------
(* The least and the greatest of some numbers.                             *)

Below == {p \in Nat \X Nat : p[1] < p[2]}

LEMMA LeastNumber == ASSUME NEW T \in SUBSET Nat, T # {} PROVE \E n \in T : \A k \in T : n <= k
<1>1. IsWellFoundedOn(Below, Nat)
  BY NatLessThanWellFounded DEF OpToRel, Below
<1>2. PICK n \in T : \A k \in T : ~(<<k, n>> \in Below)
  BY <1>1, WFMin
<1>3. ASSUME NEW k \in T PROVE n <= k
  <2>1. k \in Nat /\ n \in Nat /\ ~(<<k, n>> \in Below)
    BY <1>2
  <2>2. ~(k < n)
    BY <2>1 DEF Below
  <2> QED BY <2>1, <2>2
<1> QED BY <1>3

LEMMA GreatestNumber ==
    ASSUME NEW n \in Nat, NEW T \in SUBSET (0 .. n), T # {}
    PROVE  Max(T) \in T /\ \A k \in T : k <= Max(T)
<1> DEFINE U == {k \in 0 .. n : n - k \in T}
<1>1. U \in SUBSET Nat /\ U # {}
  <2>1. PICK k \in T : TRUE
    OBVIOUS
  <2>2. n - k \in 0 .. n /\ n - (n - k) \in T
    <3>1. k \in 0 .. n
      BY <2>1
    <3>2. n - (n - k) = k
      BY <3>1
    <3> QED BY <2>1, <3>1, <3>2
  <2>3. n - k \in U
    BY <2>2
  <2>4. U \in SUBSET Nat
    OBVIOUS
  <2> QED BY <2>3, <2>4
<1>2. PICK m \in U : \A k \in U : m <= k
  BY <1>1, LeastNumber
<1>3. n - m \in T
  BY <1>2
<1>4. ASSUME NEW k \in T PROVE k <= n - m
  <2>1. k \in 0 .. n /\ m \in 0 .. n
    BY <1>2
  <2>2. n - (n - k) = k
    BY <2>1
  <2>3. n - k \in U
    BY <2>1, <2>2
  <2>4. m <= n - k
    BY <1>2, <2>3
  <2> QED BY <2>1, <2>4
<1>5. \E g \in T : \A k \in T : g >= k
  BY <1>3, <1>4
<1> QED BY <1>5 DEF Max

-----------------------------------------------------------------------------
(* Insertion.                                                              *)

LEMMA InsertAtElements ==
    ASSUME NEW S, NEW t \in Seq(S), NEW x \in S, NEW g \in 0 .. Len(t)
    PROVE  /\ InsertAt(t, 1 + g, x) \in Seq(S)
           /\ Len(InsertAt(t, 1 + g, x)) = Len(t) + 1
           /\ \A j \in 1 .. g : InsertAt(t, 1 + g, x)[j] = t[j]
           /\ InsertAt(t, 1 + g, x)[g + 1] = x
           /\ \A j \in g + 2 .. Len(t) + 1 : InsertAt(t, 1 + g, x)[j] = t[j - 1]
<1> DEFINE a == SubSeq(t, 1, g)
           b == SubSeq(t, g + 1, Len(t))
           d == a \o <<x>>
<1>1. Len(t) \in Nat /\ g \in Nat /\ g <= Len(t)
  OBVIOUS
<1>2. a \in Seq(S) /\ Len(a) = g /\ \A j \in 1 .. g : a[j] = t[j]
  BY <1>1
<1>3. b \in Seq(S) /\ Len(b) = Len(t) - g /\ \A j \in 1 .. Len(t) - g : b[j] = t[g + j]
  BY <1>1
<1> HIDE DEF a, b
<1>4. <<x>> \in Seq(S) /\ Len(<<x>>) = 1 /\ <<x>>[1] = x
  OBVIOUS
<1>5. d \in Seq(S) /\ Len(d) = g + 1 /\ (\A j \in 1 .. g : d[j] = t[j]) /\ d[g + 1] = x
  BY <1>1, <1>2, <1>4
<1> HIDE DEF d
<1>6. d \o b \in Seq(S)
  BY <1>3, <1>5, ConcatProperties
<1>7. Len(d \o b) = Len(t) + 1
  <2>1. Len(d \o b) = Len(d) + Len(b)
    BY <1>3, <1>5, ConcatProperties
  <2> QED BY <1>1, <1>3, <1>5, <2>1
<1>8. \A j \in 1 .. Len(d) + Len(b) : (d \o b)[j] = IF j <= Len(d) THEN d[j] ELSE b[j - Len(d)]
  BY <1>3, <1>5, ConcatProperties
<1>9. ASSUME NEW j \in 1 .. g PROVE (d \o b)[j] = t[j]
  BY <1>1, <1>3, <1>5, <1>8
<1>10. (d \o b)[g + 1] = x
  BY <1>1, <1>3, <1>5, <1>8
<1>11. ASSUME NEW j \in g + 2 .. Len(t) + 1 PROVE (d \o b)[j] = t[j - 1]
  <2>1. j - (g + 1) \in 1 .. Len(t) - g /\ g + (j - (g + 1)) = j - 1
    BY <1>1
  <2>2. b[j - (g + 1)] = t[j - 1]
    BY <1>3, <2>1
  <2>3. j \in 1 .. Len(d) + Len(b) /\ ~(j <= Len(d))
    BY <1>1, <1>3, <1>5
  <2> QED BY <1>5, <1>8, <2>2, <2>3
<1>12. InsertAt(t, 1 + g, x) = d \o b
  <2>1. (1 + g) - 1 = g /\ 1 + g = g + 1
    BY <1>1
  <2> QED BY <2>1 DEF InsertAt, a, b, d
<1> QED BY <1>6, <1>7, <1>9, <1>10, <1>11, <1>12

\* x is put at a place of t before which nothing is preceded by x at once, and
\* after which x precedes all.
LEMMA InsertedAtPlace ==
    ASSUME NEW S, NEW less, NEW t \in Seq(S), NEW x \in S
    PROVE  \E g \in 0 .. Len(t) :
               /\ Inserted(less, t, x) = InsertAt(t, 1 + g, x)
               /\ \A j \in 1 .. g : Inserted(less, t, x)[j] = t[j]
               /\ Inserted(less, t, x)[g + 1] = x
               /\ \A j \in g + 2 .. Len(t) + 1 : Inserted(less, t, x)[j] = t[j - 1]
               /\ g # 0 => <<x, t[g]>> \notin less
               /\ \A j \in g + 1 .. Len(t) : <<x, t[j]>> \in less
<1> DEFINE behind == {0} \cup {k \in DOMAIN t : <<x, t[k]>> \notin less}
<1>1. Len(t) \in Nat /\ DOMAIN t = 1 .. Len(t)
  OBVIOUS
<1>2. behind \in SUBSET (0 .. Len(t)) /\ behind # {}
  BY <1>1
<1>3. PICK g \in behind : g = Max(behind) /\ \A k \in behind : k <= g
  BY <1>1, <1>2, GreatestNumber
<1>4. g \in 0 .. Len(t)
  BY <1>2, <1>3
<1>5. Inserted(less, t, x) = InsertAt(t, 1 + g, x)
  BY <1>3 DEF Inserted
<1>6. g # 0 => <<x, t[g]>> \notin less
  BY <1>3
<1>7. ASSUME NEW j \in g + 1 .. Len(t) PROVE <<x, t[j]>> \in less
  <2>1. j \in DOMAIN t /\ ~(j <= g)
    BY <1>1, <1>4
  <2> QED BY <1>3, <2>1
<1> DEFINE u == InsertAt(t, 1 + g, x)
<1> HIDE DEF behind
<1>9. ASSUME NEW j \in 1 .. g PROVE u[j] = t[j]
  BY <1>4, InsertAtElements
<1>10. u[g + 1] = x
  BY <1>4, InsertAtElements
<1>11. ASSUME NEW j \in g + 2 .. Len(t) + 1 PROVE u[j] = t[j - 1]
  BY <1>4, InsertAtElements
<1> HIDE DEF u
<1>12. Inserted(less, t, x) = u
  BY <1>5 DEF u
<1> QED BY <1>4, <1>5, <1>6, <1>7, <1>9, <1>10, <1>11, <1>12

LEMMA InsertedType ==
    ASSUME NEW S, NEW less, NEW t \in Seq(S), NEW x \in S
    PROVE  Inserted(less, t, x) \in Seq(S) /\ Len(Inserted(less, t, x)) = Len(t) + 1
<1>1. PICK g \in 0 .. Len(t) :
          /\ Inserted(less, t, x) = InsertAt(t, 1 + g, x)
          /\ \A j \in 1 .. g : Inserted(less, t, x)[j] = t[j]
          /\ Inserted(less, t, x)[g + 1] = x
          /\ \A j \in g + 2 .. Len(t) + 1 : Inserted(less, t, x)[j] = t[j - 1]
          /\ g # 0 => <<x, t[g]>> \notin less
          /\ \A j \in g + 1 .. Len(t) : <<x, t[j]>> \in less
  BY InsertedAtPlace, Zenon
<1>2. InsertAt(t, 1 + g, x) \in Seq(S)
  BY InsertAtElements
<1>3. Len(InsertAt(t, 1 + g, x)) = Len(t) + 1
  BY InsertAtElements
<1> QED BY <1>1, <1>2, <1>3

-----------------------------------------------------------------------------
(* Sorting.                                                                *)

Ordered(less, t) == \A i, j \in DOMAIN t : i < j => <<t[i], t[j]>> \in less

\* The different elements of S are ordered by less.
Orders(less, S) ==
    /\ \A a, b \in S : <<a, b>> \in less => <<b, a>> \notin less
    /\ \A a, b, c \in S : <<a, b>> \in less /\ <<b, c>> \in less => <<a, c>> \in less
    /\ \A a, b \in S : a = b \/ <<a, b>> \in less \/ <<b, a>> \in less

LEMMA InsertedRange ==
    ASSUME NEW S, NEW less, NEW t \in Seq(S), NEW x \in S
    PROVE  Range(Inserted(less, t, x)) = Range(t) \cup {x}
<1> DEFINE u == Inserted(less, t, x)
<1>1. u \in Seq(S) /\ Len(u) = Len(t) + 1
  BY InsertedType
<1>2. PICK g \in 0 .. Len(t) :
          /\ u = InsertAt(t, 1 + g, x)
          /\ \A j \in 1 .. g : u[j] = t[j]
          /\ u[g + 1] = x
          /\ \A j \in g + 2 .. Len(t) + 1 : u[j] = t[j - 1]
          /\ g # 0 => <<x, t[g]>> \notin less
          /\ \A j \in g + 1 .. Len(t) : <<x, t[j]>> \in less
  BY InsertedAtPlace, Zenon
<1> HIDE DEF u
<1>3. Len(t) \in Nat /\ DOMAIN t = 1 .. Len(t) /\ DOMAIN u = 1 .. Len(t) + 1
  BY <1>1
<1>4. ASSUME NEW j \in DOMAIN u PROVE u[j] \in Range(t) \cup {x}
  <2>1. CASE j \in 1 .. g
    BY <1>2, <1>3, <2>1 DEF Range
  <2>2. CASE j = g + 1
    BY <1>2, <2>2
  <2>3. CASE j \in g + 2 .. Len(t) + 1
    <3>1. u[j] = t[j - 1]
      BY <1>2, <2>3
    <3>2. j - 1 \in DOMAIN t
      BY <1>2, <1>3, <2>3
    <3> QED BY <3>1, <3>2 DEF Range
  <2>4. j \in 1 .. g \/ j = g + 1 \/ j \in g + 2 .. Len(t) + 1
    BY <1>2, <1>3
  <2> QED BY <2>1, <2>2, <2>3, <2>4
<1>5. ASSUME NEW j \in DOMAIN t PROVE t[j] \in Range(u)
  <2>1. CASE j <= g
    <3>1. u[j] = t[j] /\ j \in DOMAIN u
      BY <1>2, <1>3, <2>1
    <3> QED BY <3>1 DEF Range
  <2>2. CASE j > g
    <3>1. j + 1 \in g + 2 .. Len(t) + 1 /\ (j + 1) - 1 = j
      BY <1>2, <1>3, <2>2
    <3>2. u[j + 1] = t[(j + 1) - 1]
      BY <1>2, <3>1
    <3>3. j + 1 \in DOMAIN u
      BY <1>3
    <3> QED BY <3>1, <3>2, <3>3 DEF Range
  <2> QED BY <1>2, <1>3, <2>1, <2>2
<1>6. x \in Range(u)
  <2>1. g + 1 \in DOMAIN u
    BY <1>2, <1>3
  <2> QED BY <1>2, <2>1 DEF Range
<1>7. Range(u) = Range(t) \cup {x}
  BY <1>4, <1>5, <1>6 DEF Range
<1> QED BY <1>7 DEF u

LEMMA InsertedOrdered ==
    ASSUME NEW S, NEW less, Orders(less, S), NEW t \in Seq(S), Ordered(less, t),
           NEW x \in S, x \notin Range(t)
    PROVE  Ordered(less, Inserted(less, t, x))
<1> DEFINE u == Inserted(less, t, x)
<1>1. u \in Seq(S) /\ Len(u) = Len(t) + 1
  BY InsertedType
<1>2. PICK g \in 0 .. Len(t) :
          /\ u = InsertAt(t, 1 + g, x)
          /\ \A j \in 1 .. g : u[j] = t[j]
          /\ u[g + 1] = x
          /\ \A j \in g + 2 .. Len(t) + 1 : u[j] = t[j - 1]
          /\ g # 0 => <<x, t[g]>> \notin less
          /\ \A j \in g + 1 .. Len(t) : <<x, t[j]>> \in less
  BY InsertedAtPlace, Zenon
<1> HIDE DEF u
<1>3. Len(t) \in Nat /\ DOMAIN t = 1 .. Len(t) /\ DOMAIN u = 1 .. Len(t) + 1
  BY <1>1
<1>4. \A j \in DOMAIN t : t[j] \in S /\ t[j] # x
  BY DEF Range
\* What is before x precedes it.
<1>5. ASSUME NEW j \in 1 .. g PROVE <<t[j], x>> \in less
  <2>1. g \in DOMAIN t /\ j \in DOMAIN t /\ g # 0
    BY <1>2, <1>3
  <2>2. <<t[g], x>> \in less
    BY <1>2, <1>4, <2>1 DEF Orders
  <2>3. j = g \/ <<t[j], t[g]>> \in less
    BY <2>1 DEF Ordered
  <2> QED BY <1>4, <2>1, <2>2, <2>3 DEF Orders
<1>6. ASSUME NEW i \in DOMAIN u, NEW j \in DOMAIN u, i < j PROVE <<u[i], u[j]>> \in less
  <2>1. CASE j \in 1 .. g
    <3>1. u[i] = t[i] /\ u[j] = t[j] /\ i \in DOMAIN t /\ j \in DOMAIN t
      BY <1>2, <1>3, <1>6, <2>1
    <3> QED BY <1>6, <3>1 DEF Ordered
  <2>2. CASE j = g + 1
    <3>1. i \in 1 .. g
      BY <1>2, <1>3, <1>6, <2>2
    <3>2. u[i] = t[i] /\ u[j] = x
      BY <1>2, <2>2, <3>1
    <3> QED BY <1>5, <3>1, <3>2
  <2>3. CASE j \in g + 2 .. Len(t) + 1
    <3>1. u[j] = t[j - 1] /\ j - 1 \in g + 1 .. Len(t) /\ j - 1 \in DOMAIN t
      BY <1>2, <1>3, <2>3
    <3>2. CASE i \in 1 .. g
      <4>1. u[i] = t[i] /\ i \in DOMAIN t /\ i < j - 1
        BY <1>2, <1>3, <2>3, <3>2
      <4> QED BY <3>1, <4>1 DEF Ordered
    <3>3. CASE i = g + 1
      BY <1>2, <3>1, <3>3
    <3>4. CASE i \in g + 2 .. Len(t) + 1
      <4>1. u[i] = t[i - 1] /\ i - 1 \in DOMAIN t /\ i - 1 < j - 1
        BY <1>2, <1>3, <1>6, <2>3, <3>4
      <4> QED BY <3>1, <4>1 DEF Ordered
    <3> QED BY <1>2, <1>3, <3>2, <3>3, <3>4
  <2> QED BY <1>2, <1>3, <2>1, <2>2, <2>3
<1>7. Ordered(less, u)
  BY <1>6 DEF Ordered
<1> QED BY <1>7 DEF u

LEMMA InsertionSteps ==
    ASSUME NEW S, NEW less, NEW s \in Seq(S)
    PROVE  \E f : /\ f = [n \in 0 .. Len(s) |-> IF n = 0 THEN <<>> ELSE Inserted(less, f[n - 1], s[n])]
                  /\ InsertionSorted(less, s) = f[Len(s)]
<1> DEFINE Steps(f, m) ==
               f = [n \in 0 .. m |-> IF n = 0 THEN <<>> ELSE Inserted(less, f[n - 1], s[n])]
           T == {m \in 0 .. Len(s) : \A f : ~Steps(f, m)}
<1>1. Len(s) \in Nat
  OBVIOUS
<1>2. ASSUME T # {} PROVE FALSE
  <2>1. T \in SUBSET Nat
    BY <1>1
  <2>2. PICK m \in T : \A k \in T : m <= k
    BY <1>2, <2>1, LeastNumber
  <2>3. m \in 0 .. Len(s)
    BY <2>2
  <2>4. m # 0
    <3> DEFINE f == [n \in 0 .. 0 |-> <<>>]
    <3>1. f = [n \in 0 .. 0 |-> IF n = 0 THEN <<>> ELSE Inserted(less, f[n - 1], s[n])]
      OBVIOUS
    <3>2. Steps(f, 0)
      BY <3>1
    <3> QED BY <2>2, <3>2
  <2>5. m - 1 \in 0 .. Len(s) /\ m - 1 \notin T
    BY <1>1, <2>2, <2>3, <2>4
  <2>6. PICK f : Steps(f, m - 1)
    BY <2>5
  <2> DEFINE h == [n \in 0 .. m |-> IF n = m THEN Inserted(less, f[m - 1], s[m]) ELSE f[n]]
  <2>7. ASSUME NEW n \in 0 .. m
        PROVE  h[n] = IF n = 0 THEN <<>> ELSE Inserted(less, h[n - 1], s[n])
    <3>1. m \in Nat /\ n \in Nat /\ n <= m
      BY <2>3
    <3>2. CASE n = m
      <4>1. h[n] = Inserted(less, f[m - 1], s[m])
        BY <3>2
      <4>2. h[m - 1] = f[m - 1]
        BY <2>3, <2>4
      <4> QED BY <2>4, <3>2, <4>1, <4>2
    <3>3. CASE n # m
      <4>1. n \in 0 .. m - 1
        BY <3>1, <3>3
      <4>2. f[n] = IF n = 0 THEN <<>> ELSE Inserted(less, f[n - 1], s[n])
        BY <2>6, <4>1
      <4>3. h[n] = f[n]
        BY <3>3
      <4>4. n # 0 => h[n - 1] = f[n - 1]
        BY <3>1, <4>1
      <4> QED BY <4>2, <4>3, <4>4
    <3> QED BY <3>2, <3>3
  <2>8. h = [n \in 0 .. m |-> h[n]]
    OBVIOUS
  <2> HIDE DEF h
  <2>9. Steps(h, m)
    BY <2>7, <2>8
  <2> QED BY <2>2, <2>9
<1>3. Len(s) \notin T
  BY <1>2
<1>4. \E f : Steps(f, Len(s))
  BY <1>1, <1>3
<1> DEFINE sorted == CHOOSE f : Steps(f, Len(s))
<1>5. Steps(sorted, Len(s))
  BY <1>4
<1>6. InsertionSorted(less, s) = sorted[Len(s)]
  BY DEF InsertionSorted
<1> HIDE DEF sorted
<1> QED BY <1>5, <1>6

\* What is sorted has the elements of what was listed, in order.
LEMMA InsertionSortedOrdered ==
    ASSUME NEW S, NEW less, Orders(less, S), NEW s \in Seq(S), IsInjective(s)
    PROVE  /\ InsertionSorted(less, s) \in Seq(S)
           /\ Range(InsertionSorted(less, s)) = Range(s)
           /\ Ordered(less, InsertionSorted(less, s))
<1>1. PICK f : /\ f = [n \in 0 .. Len(s) |-> IF n = 0 THEN <<>> ELSE Inserted(less, f[n - 1], s[n])]
               /\ InsertionSorted(less, s) = f[Len(s)]
  BY InsertionSteps
<1> DEFINE first(n) == {s[k] : k \in 1 .. n}
           Good(n) == f[n] \in Seq(S) /\ Range(f[n]) = first(n) /\ Ordered(less, f[n])
           T == {n \in 0 .. Len(s) : ~Good(n)}
<1>2. Len(s) \in Nat /\ DOMAIN s = 1 .. Len(s)
  OBVIOUS
<1>3. Good(0)
  <2>1. f[0] = <<>>
    BY <1>1, <1>2
  <2>2. first(0) = {}
    OBVIOUS
  <2>3. <<>> \in Seq(S) /\ Range(<<>>) = {} /\ Ordered(less, <<>>)
    BY DEF Range, Ordered
  <2> QED BY <2>1, <2>2, <2>3
<1>4. ASSUME NEW n \in 1 .. Len(s), Good(n - 1) PROVE Good(n)
  <2>1. n # 0 /\ n \in 0 .. Len(s) /\ n - 1 \in 0 .. Len(s) /\ n \in DOMAIN s
    BY <1>2
  <2>2. f[n] = Inserted(less, f[n - 1], s[n])
    <3>1. f[n] = IF n = 0 THEN <<>> ELSE Inserted(less, f[n - 1], s[n])
      BY <1>1, <2>1
    <3> QED BY <2>1, <3>1
  <2>3. s[n] \in S
    BY <2>1
  <2>4. s[n] \notin first(n - 1)
    <3>1. ASSUME NEW k \in 1 .. n - 1, s[k] = s[n] PROVE FALSE
      <4>1. k \in DOMAIN s /\ k # n
        BY <1>2, <2>1
      <4> QED BY <2>1, <3>1, <4>1 DEF IsInjective
    <3> QED BY <3>1
  <2>5. f[n] \in Seq(S)
    BY <1>4, <2>2, <2>3, InsertedType
  <2>6. Range(f[n]) = first(n - 1) \cup {s[n]}
    BY <1>4, <2>2, <2>3, InsertedRange
  <2>7. first(n - 1) \cup {s[n]} = first(n)
    <3>1. 1 .. n = (1 .. n - 1) \cup {n}
      BY <1>2
    <3> QED BY <3>1
  <2>8. Ordered(less, f[n])
    BY <1>4, <2>2, <2>3, <2>4, InsertedOrdered
  <2> QED BY <2>5, <2>6, <2>7, <2>8
<1> HIDE DEF Good
<1>5. ASSUME T # {} PROVE FALSE
  <2>1. T \in SUBSET Nat
    BY <1>2
  <2>2. PICK m \in T : \A k \in T : m <= k
    BY <1>5, <2>1, LeastNumber
  <2>3. m \in 1 .. Len(s)
    BY <1>2, <1>3, <2>2
  <2>4. m - 1 \in 0 .. Len(s) /\ m - 1 \notin T
    BY <1>2, <2>2, <2>3
  <2> QED BY <1>4, <2>2, <2>3, <2>4
<1>6. Good(Len(s))
  BY <1>2, <1>5
<1>7. first(Len(s)) = Range(s)
  BY <1>2 DEF Range
<1> QED BY <1>1, <1>6, <1>7 DEF Good

\* There is one list of some elements in order.
LEMMA OrderedUnique ==
    ASSUME NEW S, NEW less, Orders(less, S), NEW t \in Seq(S), NEW u \in Seq(S),
           Ordered(less, t), Ordered(less, u), Range(t) = Range(u)
    PROVE  t = u
<1>1. /\ Len(t) \in Nat /\ DOMAIN t = 1 .. Len(t)
      /\ Len(u) \in Nat /\ DOMAIN u = 1 .. Len(u)
  OBVIOUS
<1>2. ASSUME NEW k \in DOMAIN t PROVE t[k] \in S /\ \E m \in DOMAIN u : t[k] = u[m]
  <2>1. t[k] \in Range(t)
    BY DEF Range
  <2>2. t[k] \in Range(u)
    BY <2>1
  <2> QED BY <2>2 DEF Range
<1>3. ASSUME NEW k \in DOMAIN u PROVE u[k] \in S /\ \E m \in DOMAIN t : u[k] = t[m]
  <2>1. u[k] \in Range(u)
    BY DEF Range
  <2>2. u[k] \in Range(t)
    BY <2>1
  <2> QED BY <2>2 DEF Range
<1>4. \A a \in S : <<a, a>> \notin less
  BY DEF Orders
<1>5. \A i, j \in DOMAIN t : i # j => t[i] # t[j]
  <2>1. ASSUME NEW i \in DOMAIN t, NEW j \in DOMAIN t, i < j PROVE t[i] # t[j]
    BY <1>2, <1>4, <2>1 DEF Ordered
  <2>2. \A i, j \in DOMAIN t : i = j \/ i < j \/ j < i
    BY <1>1
  <2> QED BY <2>1, <2>2
<1>6. \A i, j \in DOMAIN u : i # j => u[i] # u[j]
  <2>1. ASSUME NEW i \in DOMAIN u, NEW j \in DOMAIN u, i < j PROVE u[i] # u[j]
    BY <1>3, <1>4, <2>1 DEF Ordered
  <2>2. \A i, j \in DOMAIN u : i = j \/ i < j \/ j < i
    BY <1>1
  <2> QED BY <2>1, <2>2
<1> DEFINE T == {k \in DOMAIN t \cap DOMAIN u : t[k] # u[k]}
<1>7. ASSUME T # {} PROVE FALSE
  <2>1. T \in SUBSET Nat
    BY <1>1
  <2>2. PICK k \in T : \A m \in T : k <= m
    BY <1>7, <2>1, LeastNumber
  <2>3. k \in DOMAIN t /\ k \in DOMAIN u /\ t[k] # u[k]
    BY <2>2
  <2>4. ASSUME NEW m \in Nat, m < k, m \in DOMAIN t \/ m \in DOMAIN u
        PROVE  m \in DOMAIN t /\ m \in DOMAIN u /\ t[m] = u[m]
    <3>1. m \in DOMAIN t /\ m \in DOMAIN u
      BY <1>1, <2>3, <2>4
    <3>2. ~(k <= m)
      BY <1>1, <2>3, <2>4
    <3>3. m \notin T
      BY <2>2, <3>2
    <3> QED BY <3>1, <3>3
  <2>5. PICK m \in DOMAIN u : t[k] = u[m]
    BY <1>2, <2>3
  <2>6. k < m
    <3>1. m # k
      BY <2>3, <2>5
    <3>2. ~(m < k)
      <4>1. ASSUME m < k PROVE FALSE
        <5>1. m \in DOMAIN t /\ t[m] = u[m]
          BY <1>1, <2>4, <2>5, <4>1
        <5>2. t[m] = t[k]
          BY <2>5, <5>1
        <5> QED BY <1>5, <2>3, <3>1, <5>1, <5>2
      <4> QED BY <4>1
    <3> QED BY <1>1, <2>3, <2>5, <3>1, <3>2
  <2>7. PICK n \in DOMAIN t : u[k] = t[n]
    BY <1>3, <2>3
  <2>8. k < n
    <3>1. n # k
      BY <2>3, <2>7
    <3>2. ~(n < k)
      <4>1. ASSUME n < k PROVE FALSE
        <5>1. n \in DOMAIN u /\ t[n] = u[n]
          BY <1>1, <2>4, <2>7, <4>1
        <5>2. u[n] = u[k]
          BY <2>7, <5>1
        <5> QED BY <1>6, <2>3, <3>1, <5>1, <5>2
      <4> QED BY <4>1
    <3> QED BY <1>1, <2>3, <2>7, <3>1, <3>2
  <2>9. <<u[k], t[k]>> \in less
    BY <2>3, <2>5, <2>6 DEF Ordered
  <2>10. <<t[k], u[k]>> \in less
    BY <2>3, <2>7, <2>8 DEF Ordered
  <2> QED BY <1>2, <1>3, <2>3, <2>9, <2>10 DEF Orders
<1>8. \A k \in DOMAIN t \cap DOMAIN u : t[k] = u[k]
  BY <1>7
<1> HIDE DEF T
<1>9. ~(Len(t) < Len(u))
  <2>1. ASSUME Len(t) < Len(u) PROVE FALSE
    <3>1. Len(u) \in DOMAIN u /\ Len(u) \notin DOMAIN t
      BY <1>1, <2>1
    <3>2. PICK m \in DOMAIN t : u[Len(u)] = t[m]
      BY <1>3, <3>1
    <3>3. m \in DOMAIN u /\ m # Len(u)
      BY <1>1, <2>1, <3>1
    <3> QED BY <1>6, <1>8, <3>1, <3>2, <3>3
  <2> QED BY <2>1
<1>10. ~(Len(u) < Len(t))
  <2>1. ASSUME Len(u) < Len(t) PROVE FALSE
    <3>1. Len(t) \in DOMAIN t /\ Len(t) \notin DOMAIN u
      BY <1>1, <2>1
    <3>2. PICK m \in DOMAIN u : t[Len(t)] = u[m]
      BY <1>2, <3>1
    <3>3. m \in DOMAIN t /\ m # Len(t)
      BY <1>1, <2>1, <3>1
    <3> QED BY <1>5, <1>8, <3>1, <3>2, <3>3
  <2> QED BY <2>1
<1>11. Len(t) = Len(u)
  <2>1. \A m, n \in Nat : m < n \/ n < m \/ m = n
    OBVIOUS
  <2>2. Len(t) \in Nat /\ Len(u) \in Nat
    BY <1>1
  <2> QED BY <1>9, <1>10, <2>1, <2>2
<1>12. \A k \in 1 .. Len(t) : t[k] = u[k]
  BY <1>1, <1>8, <1>11
<1> QED BY <1>11, <1>12, SeqEqual

LEMMA SortedFromAnyList ==
    ASSUME NEW S, NEW less, Orders(less, S), NEW s \in Seq(S), NEW t \in Seq(S),
           IsInjective(s), IsInjective(t), Range(s) = Range(t)
    PROVE  InsertionSorted(less, s) = InsertionSorted(less, t)
<1> DEFINE p == InsertionSorted(less, s)
           q == InsertionSorted(less, t)
<1>1. p \in Seq(S) /\ Range(p) = Range(s) /\ Ordered(less, p)
  BY InsertionSortedOrdered
<1>2. q \in Seq(S) /\ Range(q) = Range(t) /\ Ordered(less, q)
  BY InsertionSortedOrdered
<1> HIDE DEF p, q
<1>3. p = q
  BY <1>1, <1>2, OrderedUnique
<1> QED BY <1>3 DEF p, q

-----------------------------------------------------------------------------
(* Strings.                                                                *)

String == Seq(Nat)

\* The first code in which two strings differ, or the end of one, decides.
LEMMA BeforeFirst ==
    ASSUME NEW s \in String, NEW t \in String
    PROVE  Before(s, t) <=> \E k \in 0 .. Len(s) :
                               /\ k < Len(t)
                               /\ \A j \in 1 .. k : s[j] = t[j]
                               /\ k = Len(s) \/ s[k + 1] < t[k + 1]
<1>1. Len(s) \in Nat /\ Len(t) \in Nat
  BY DEF String
<1>2. ASSUME NEW k \in 0 .. Len(s), k < Len(t)
      PROVE  SubSeq(s, 1, k) = SubSeq(t, 1, k) <=> \A j \in 1 .. k : s[j] = t[j]
  <2> DEFINE a == SubSeq(s, 1, k)
             b == SubSeq(t, 1, k)
  <2>1. k \in Nat /\ k <= Len(s) /\ k <= Len(t)
    BY <1>1, <1>2
  <2>2. a \in Seq(Nat) /\ Len(a) = k /\ \A j \in 1 .. k : a[j] = s[j]
    BY <1>1, <2>1 DEF String
  <2>3. b \in Seq(Nat) /\ Len(b) = k /\ \A j \in 1 .. k : b[j] = t[j]
    BY <1>1, <2>1 DEF String
  <2> HIDE DEF a, b
  <2>4. ASSUME a = b PROVE \A j \in 1 .. k : s[j] = t[j]
    BY <2>2, <2>3, <2>4
  <2>5. ASSUME \A j \in 1 .. k : s[j] = t[j] PROVE a = b
    <3>1. Len(a) = Len(b) /\ \A j \in 1 .. Len(a) : a[j] = b[j]
      BY <2>2, <2>3, <2>5
    <3> QED BY <2>2, <2>3, <3>1, SeqEqual
  <2>6. a = b <=> \A j \in 1 .. k : s[j] = t[j]
    BY <2>4, <2>5
  <2> QED BY <2>6 DEF a, b
<1> QED BY <1>2 DEF Before

LEMMA BeforeAsymmetric ==
    ASSUME NEW s \in String, NEW t \in String, Before(s, t) PROVE ~Before(t, s)
<1>1. PICK k \in 0 .. Len(s) : k < Len(t) /\ (\A j \in 1 .. k : s[j] = t[j])
                                 /\ (k = Len(s) \/ s[k + 1] < t[k + 1])
  BY BeforeFirst
<1>2. ASSUME Before(t, s) PROVE FALSE
  <2>1. PICK m \in 0 .. Len(t) : m < Len(s) /\ (\A j \in 1 .. m : t[j] = s[j])
                                   /\ (m = Len(t) \/ t[m + 1] < s[m + 1])
    BY <1>2, BeforeFirst
  <2>2. Len(s) \in Nat /\ Len(t) \in Nat /\ k \in Nat /\ m \in Nat
    BY DEF String
  <2>3. \A j \in 1 .. Len(s) : s[j] \in Nat
    BY DEF String
  <2>4. \A j \in 1 .. Len(t) : t[j] \in Nat
    BY DEF String
  <2>5. CASE k < m
    <3>1. k + 1 \in 1 .. m /\ k + 1 \in 1 .. Len(t) /\ k # Len(s)
      BY <1>1, <2>1, <2>2, <2>5
    <3> QED BY <1>1, <2>1, <2>4, <3>1
  <2>6. CASE m < k
    <3>1. m + 1 \in 1 .. k /\ m + 1 \in 1 .. Len(s) /\ m # Len(t)
      BY <1>1, <2>1, <2>2, <2>6
    <3> QED BY <1>1, <2>1, <2>3, <3>1
  <2>7. CASE m = k
    <3>1. k + 1 \in 1 .. Len(s) /\ k + 1 \in 1 .. Len(t) /\ k # Len(s) /\ k # Len(t)
      BY <1>1, <2>1, <2>2, <2>7
    <3>2. s[k + 1] \in Nat /\ t[k + 1] \in Nat
      BY <2>3, <2>4, <3>1
    <3> QED BY <1>1, <2>1, <2>7, <3>1, <3>2
  <2> QED BY <2>2, <2>5, <2>6, <2>7
<1> QED BY <1>2

LEMMA BeforeTransitive ==
    ASSUME NEW s \in String, NEW t \in String, NEW u \in String, Before(s, t), Before(t, u)
    PROVE  Before(s, u)
<1>1. PICK k \in 0 .. Len(s) : k < Len(t) /\ (\A j \in 1 .. k : s[j] = t[j])
                                 /\ (k = Len(s) \/ s[k + 1] < t[k + 1])
  BY BeforeFirst
<1>2. PICK m \in 0 .. Len(t) : m < Len(u) /\ (\A j \in 1 .. m : t[j] = u[j])
                                 /\ (m = Len(t) \/ t[m + 1] < u[m + 1])
  BY BeforeFirst
<1>3. Len(s) \in Nat /\ Len(t) \in Nat /\ Len(u) \in Nat /\ k \in Nat /\ m \in Nat
  BY DEF String
<1>4. \A j \in 1 .. Len(s) : s[j] \in Nat
  BY DEF String
<1>5. \A j \in 1 .. Len(t) : t[j] \in Nat
  BY DEF String
<1>6. \A j \in 1 .. Len(u) : u[j] \in Nat
  BY DEF String
<1>7. CASE k < m
  <2>1. \A j \in 1 .. k + 1 : j \in 1 .. m /\ t[j] = u[j]
    BY <1>2, <1>3, <1>7
  <2>2. \A j \in 1 .. k : s[j] = u[j]
    BY <1>1, <1>3, <2>1
  <2>3. k + 1 \in 1 .. k + 1
    BY <1>3
  <2>4. k < Len(u) /\ (k = Len(s) \/ s[k + 1] < u[k + 1])
    BY <1>1, <1>2, <1>3, <1>7, <2>1, <2>3
  <2> QED BY <2>2, <2>4, BeforeFirst
<1>8. CASE m <= k
  <2>1. \A j \in 1 .. m : j \in 1 .. k /\ s[j] = u[j]
    BY <1>1, <1>2, <1>3, <1>8
  <2>2. m \in 0 .. Len(s) /\ m # Len(t)
    BY <1>1, <1>3, <1>8
  <2>3. m = Len(s) \/ s[m + 1] < u[m + 1]
    <3>1. CASE m < k
      <4>1. m + 1 \in 1 .. k
        BY <1>3, <3>1
      <4> QED BY <1>1, <1>2, <2>2, <4>1
    <3>2. CASE m = k /\ k # Len(s)
      <4>1. m + 1 \in 1 .. Len(s) /\ m + 1 \in 1 .. Len(t) /\ m + 1 \in 1 .. Len(u)
        BY <1>1, <1>2, <1>3, <3>2
      <4>2. s[m + 1] \in Nat /\ t[m + 1] \in Nat /\ u[m + 1] \in Nat
        BY <1>4, <1>5, <1>6, <4>1
      <4>3. s[m + 1] < t[m + 1] /\ t[m + 1] < u[m + 1]
        BY <1>1, <1>2, <2>2, <3>2
      <4> QED BY <4>2, <4>3
    <3> QED BY <1>3, <1>8, <3>1, <3>2
  <2> QED BY <1>2, <2>1, <2>2, <2>3, BeforeFirst
<1> QED BY <1>3, <1>7, <1>8

LEMMA BeforeTotal ==
    ASSUME NEW s \in String, NEW t \in String PROVE s = t \/ Before(s, t) \/ Before(t, s)
<1>1. Len(s) \in Nat /\ Len(t) \in Nat
  BY DEF String
<1>2. \A j \in 1 .. Len(s) : s[j] \in Nat
  BY DEF String
<1>3. \A j \in 1 .. Len(t) : t[j] \in Nat
  BY DEF String
<1> DEFINE T == {k \in 0 .. Len(s) : k = Len(s) \/ k = Len(t) \/ s[k + 1] # t[k + 1]}
<1>4. T \in SUBSET Nat /\ Len(s) \in T
  BY <1>1
<1>5. PICK k \in T : \A m \in T : k <= m
  BY <1>4, LeastNumber
<1>6. k \in 0 .. Len(s) /\ (k = Len(s) \/ k = Len(t) \/ s[k + 1] # t[k + 1])
  BY <1>5
<1>7. ASSUME NEW j \in 1 .. k PROVE s[j] = t[j] /\ j - 1 # Len(t)
  <2>1. j - 1 \in 0 .. Len(s) /\ ~(k <= j - 1) /\ (j - 1) + 1 = j
    BY <1>1, <1>6
  <2>2. j - 1 \notin T
    BY <1>5, <2>1
  <2> QED BY <2>1, <2>2
<1>8. k <= Len(t)
  <2>1. ASSUME Len(t) < k PROVE FALSE
    <3>1. Len(t) + 1 \in 1 .. k /\ (Len(t) + 1) - 1 = Len(t)
      BY <1>1, <1>6, <2>1
    <3> QED BY <1>7, <3>1
  <2> QED BY <1>1, <1>6, <2>1
<1> HIDE DEF T
<1>9. CASE k = Len(s) /\ k = Len(t)
  <2>1. s = t
    BY <1>7, <1>9, SeqEqual DEF String
  <2> QED BY <2>1
<1>10. CASE k = Len(s) /\ k < Len(t)
  <2>1. Before(s, t)
    BY <1>6, <1>7, <1>10, BeforeFirst
  <2> QED BY <2>1
<1>11. CASE k = Len(t) /\ k < Len(s)
  <2>1. k \in 0 .. Len(t) /\ \A j \in 1 .. k : t[j] = s[j]
    BY <1>1, <1>7, <1>11
  <2>2. Before(t, s)
    BY <1>11, <2>1, BeforeFirst
  <2> QED BY <2>2
<1>12. CASE k < Len(s) /\ k < Len(t)
  <2>1. k + 1 \in 1 .. Len(s) /\ k + 1 \in 1 .. Len(t) /\ k \in 0 .. Len(t) /\ k # Len(s) /\ k # Len(t)
    BY <1>1, <1>6, <1>12
  <2>2. s[k + 1] < t[k + 1] \/ t[k + 1] < s[k + 1]
    <3>1. s[k + 1] \in Nat /\ t[k + 1] \in Nat /\ s[k + 1] # t[k + 1]
      BY <1>2, <1>3, <1>6, <2>1
    <3> QED BY <3>1
  <2>3. ASSUME s[k + 1] < t[k + 1] PROVE Before(s, t)
    BY <1>6, <1>7, <1>12, <2>3, BeforeFirst
  <2>4. ASSUME t[k + 1] < s[k + 1] PROVE Before(t, s)
    <3>1. \A j \in 1 .. k : t[j] = s[j]
      BY <1>7
    <3> QED BY <1>12, <2>1, <2>4, <3>1, BeforeFirst
  <2> QED BY <2>2, <2>3, <2>4
<1> QED BY <1>1, <1>6, <1>8, <1>9, <1>10, <1>11, <1>12

-----------------------------------------------------------------------------
(* Lists of the members of a set, in any order.                            *)

IsListOf(s, C) == s \in Seq(C) /\ IsInjective(s) /\ Range(s) = C

LEMMA ListOfSet == ASSUME NEW C, IsFiniteSet(C), NEW s \in SetToSeqs(C) PROVE IsListOf(s, C)
<1> DEFINE n == Cardinality(C)
<1>1. n \in Nat /\ IsFiniteSet(1 .. n) /\ Cardinality(1 .. n) = n
  <2>1. n \in Nat
    BY FS_CardinalityType
  <2>2. IsFiniteSet(1 .. n) /\ Cardinality(1 .. n) = IF 1 > n THEN 0 ELSE n - 1 + 1
    BY <2>1, FS_Interval
  <2> QED BY <2>1, <2>2
<1>2. s \in [1 .. n -> C] /\ \A i, j \in 1 .. n : i # j => s[i] # s[j]
  BY DEF SetToSeqs
<1> HIDE DEF n
<1>3. s \in Seq(C) /\ DOMAIN s = 1 .. n
  BY <1>1, <1>2
<1>4. IsInjective(s)
  BY <1>2, <1>3 DEF IsInjective
<1>5. s \in Injection(1 .. n, C)
  BY <1>2, <1>4 DEF Injection
<1>6. s \in Surjection(1 .. n, C)
  <2>1. Cardinality(1 .. n) = Cardinality(C)
    BY <1>1 DEF n
  <2> QED BY <1>5, <2>1, FS_Injection
<1>7. \A c \in C : \E i \in 1 .. n : s[i] = c
  BY <1>6 DEF Surjection
<1>8. Range(s) = C
  BY <1>2, <1>3, <1>7 DEF Range
<1> QED BY <1>3, <1>4, <1>8 DEF IsListOf

LEMMA SetHasList == ASSUME NEW C, IsFiniteSet(C) PROVE SetToSeqs(C) # {}
<1> DEFINE n == Cardinality(C)
<1>1. n \in Nat /\ ExistsBijection(1 .. n, C)
  BY FS_CardinalityType
<1>2. PICK f : f \in Bijection(1 .. n, C)
  BY <1>1 DEF ExistsBijection
<1>3. f \in [1 .. n -> C] /\ IsInjective(f)
  BY <1>2 DEF Bijection, Injection
<1>4. \A i, j \in 1 .. n : i # j => f[i] # f[j]
  BY <1>3 DEF IsInjective
<1>5. f \in SetToSeqs(C)
  BY <1>3, <1>4 DEF SetToSeqs
<1> QED BY <1>5

\* Elements are ordered by what identifies them.
LEMMA KeysOrder ==
    ASSUME NEW S, NEW key \in [S -> String], \A a, b \in S : key[a] = key[b] => a = b
    PROVE  Orders({p \in S \X S : Before(key[p[1]], key[p[2]])}, S)
<1> DEFINE less == {p \in S \X S : Before(key[p[1]], key[p[2]])}
<1>1. ASSUME NEW a \in S, NEW b \in S PROVE <<a, b>> \in less <=> Before(key[a], key[b])
  OBVIOUS
<1> HIDE DEF less
<1>2. ASSUME NEW a \in S, NEW b \in S, <<a, b>> \in less PROVE <<b, a>> \notin less
  BY <1>1, <1>2, BeforeAsymmetric
<1>3. ASSUME NEW a \in S, NEW b \in S, NEW c \in S, <<a, b>> \in less, <<b, c>> \in less
      PROVE  <<a, c>> \in less
  <2>1. Before(key[a], key[b]) /\ Before(key[b], key[c])
    BY <1>1, <1>3
  <2>2. Before(key[a], key[c])
    BY <2>1, BeforeTransitive
  <2> QED BY <1>1, <2>2
<1>4. ASSUME NEW a \in S, NEW b \in S PROVE a = b \/ <<a, b>> \in less \/ <<b, a>> \in less
  <2>1. key[a] = key[b] \/ Before(key[a], key[b]) \/ Before(key[b], key[a])
    BY BeforeTotal
  <2> QED BY <1>1, <2>1
<1>5. Orders(less, S)
  BY <1>2, <1>3, <1>4 DEF Orders
<1> QED BY <1>5 DEF less

LEMMA SortedByKey ==
    ASSUME NEW C, NEW s, NEW t, IsListOf(s, C), IsListOf(t, C),
           NEW key \in [C -> String], \A a, b \in C : key[a] = key[b] => a = b,
           NEW less, less = {p \in C \X C : Before(key[p[1]], key[p[2]])}
    PROVE  InsertionSorted(less, s) = InsertionSorted(less, t)
<1>1. Orders(less, C)
  BY KeysOrder
<1> QED BY <1>1, SortedFromAnyList DEF IsListOf

THEOREM StringsSorted ==
    ASSUME NEW C \in SUBSET String, NEW s, NEW t, IsListOf(s, C), IsListOf(t, C)
    PROVE  StableSort(Before, s) = StableSort(Before, t)
<1> DEFINE key == [x \in C |-> x]
           less == {p \in C \X C : Before(p[1], p[2])}
<1>1. key \in [C -> String] /\ \A a, b \in C : key[a] = key[b] => a = b
  OBVIOUS
<1>2. less = {p \in C \X C : Before(key[p[1]], key[p[2]])}
  OBVIOUS
<1>3. StableSort(Before, s) = InsertionSorted(less, s)
  BY DEF StableSort, IsListOf
<1>4. StableSort(Before, t) = InsertionSorted(less, t)
  BY DEF StableSort, IsListOf
<1> HIDE DEF key, less
<1> QED BY <1>1, <1>2, <1>3, <1>4, SortedByKey

\* byIPPort is no order, but it is one among addresses with the same port.
THEOREM AddressesSorted ==
    ASSUME NEW C \in SUBSET [ip : String, port : Nat], \A a, b \in C : a.port = b.port,
           NEW s, NEW t, IsListOf(s, C), IsListOf(t, C)
    PROVE  StableSort(AddressBefore, s) = StableSort(AddressBefore, t)
<1> DEFINE key == [x \in C |-> x.ip]
           less == {p \in C \X C : AddressBefore(p[1], p[2])}
<1>1. key \in [C -> String] /\ \A a, b \in C : key[a] = key[b] => a = b
  OBVIOUS
<1>2. less = {p \in C \X C : Before(key[p[1]], key[p[2]])}
  <2>1. ASSUME NEW p \in C \X C
        PROVE  AddressBefore(p[1], p[2]) <=> Before(key[p[1]], key[p[2]])
    <3>1. p[1].port = p[2].port /\ p[1].port \in Nat
      OBVIOUS
    <3>2. ~(p[1].port < p[2].port)
      BY <3>1
    <3> QED BY <3>2 DEF AddressBefore
  <2> QED BY <2>1
<1>3. StableSort(AddressBefore, s) = InsertionSorted(less, s)
  BY DEF StableSort, IsListOf
<1>4. StableSort(AddressBefore, t) = InsertionSorted(less, t)
  BY DEF StableSort, IsListOf
<1> HIDE DEF key, less
<1> QED BY <1>1, <1>2, <1>3, <1>4, SortedByKey

THEOREM HostsSorted ==
    ASSUME NEW C, NEW s, NEW t, IsListOf(s, C), IsListOf(t, C),
           \A a, b \in C : a.host \in String /\ (a.host = b.host => a = b)
    PROVE  StableSort(HostBefore, s) = StableSort(HostBefore, t)
<1> DEFINE key == [x \in C |-> x.host]
           less == {p \in C \X C : HostBefore(p[1], p[2])}
<1>1. key \in [C -> String] /\ \A a, b \in C : key[a] = key[b] => a = b
  OBVIOUS
<1>2. less = {p \in C \X C : Before(key[p[1]], key[p[2]])}
  BY DEF HostBefore
<1>3. StableSort(HostBefore, s) = InsertionSorted(less, s)
  BY DEF StableSort, IsListOf
<1>4. StableSort(HostBefore, t) = InsertionSorted(less, t)
  BY DEF StableSort, IsListOf
<1> HIDE DEF key, less
<1> QED BY <1>1, <1>2, <1>3, <1>4, SortedByKey

THEOREM NamesSorted ==
    ASSUME NEW C, NEW s, NEW t, IsListOf(s, C), IsListOf(t, C),
           \A a, b \in C : a.name \in String /\ (a.name = b.name => a = b)
    PROVE  StableSort(NameBefore, s) = StableSort(NameBefore, t)
<1> DEFINE key == [x \in C |-> x.name]
           less == {p \in C \X C : NameBefore(p[1], p[2])}
<1>1. key \in [C -> String] /\ \A a, b \in C : key[a] = key[b] => a = b
  OBVIOUS
<1>2. less = {p \in C \X C : Before(key[p[1]], key[p[2]])}
  BY DEF NameBefore
<1>3. StableSort(NameBefore, s) = InsertionSorted(less, s)
  BY DEF StableSort, IsListOf
<1>4. StableSort(NameBefore, t) = InsertionSorted(less, t)
  BY DEF StableSort, IsListOf
<1> HIDE DEF key, less
<1> QED BY <1>1, <1>2, <1>3, <1>4, SortedByKey
=============================================================================
