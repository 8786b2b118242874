----------------------------- MODULE DataLemmas -----------------------------
(***************************************************************************)
(* Induction over natural numbers, stated with a set in place of a         *)
(* predicate, and what follows from it for the operators of Data.          *)
(***************************************************************************)
EXTENDS Data, SequencesExt, FiniteSetTheorems, WellFoundedInduction, SequenceTheorems, TLAPS

(* A non-empty set of naturals has a least element. *)
LEMMA LeastNatural ==
  ASSUME NEW S, S \subseteq Nat, S # {}
  PROVE  \E i \in S : \A j \in S : i <= j
<1> DEFINE Less == OpToRel(<, Nat)
<1>1. \A x, y \in Nat : x < y => <<x, y>> \in Less
  BY DEF OpToRel
<1>2. IsWellFoundedOn(Less, Nat)
  BY NatLessThanWellFounded
<1> HIDE DEF Less
<1>3. PICK i \in S : \A j \in S : ~(<<j, i>> \in Less)
  BY <1>2, WFMin
<1>4. ASSUME NEW j \in S PROVE i <= j
  <2>1. i \in Nat /\ j \in Nat
    OBVIOUS
  <2>2. ~(<<j, i>> \in Less)
    BY <1>3
  <2>3. ~(j < i)
    BY <2>1, <2>2, <1>1
  <2> QED BY <2>1, <2>3
<1> QED BY <1>4

(* Induction: a set of naturals with 0 and with every successor is all. *)
LEMMA Induction ==
  ASSUME NEW P, 0 \in P, \A n \in Nat : n \in P => n + 1 \in P
  PROVE  Nat \subseteq P
<1> SUFFICES ASSUME Nat \ P # {} PROVE FALSE
  OBVIOUS
<1>1. PICK m \in Nat \ P : \A k \in Nat \ P : m <= k
  BY LeastNatural
<1>2. m - 1 \in Nat
  BY <1>1
<1>3. m - 1 \in P
  BY <1>1, <1>2
<1> QED BY <1>1, <1>2, <1>3

(* Induction up to n. *)
LEMMA InductionUpTo ==
  ASSUME NEW n \in Nat, NEW P, 0 \in P, \A i \in 1 .. n : i - 1 \in P => i \in P
  PROVE  0 .. n \subseteq P
<1> DEFINE Q == {m \in Nat : m <= n => m \in P}
<1>1. 0 \in Q
  OBVIOUS
<1>2. ASSUME NEW m \in Nat, m \in Q PROVE m + 1 \in Q
  <2>1. CASE m + 1 <= n
    <3>1. m + 1 \in 1 .. n /\ (m + 1) - 1 = m /\ m \in P
      BY <2>1, <1>2
    <3> QED BY <3>1
  <2>2. CASE ~(m + 1 <= n)
    BY <2>2
  <2> QED BY <2>1, <2>2
<1> HIDE DEF Q
<1>3. Nat \subseteq Q
  BY <1>1, <1>2, Induction
<1> USE DEF Q
<1> QED BY <1>3

-----------------------------------------------------------------------------
(* A recursion over 0 .. n has a solution. *)
Recursion(f, n, S, c, G) ==
  f \in [0 .. n -> S] /\ f[0] = c /\ \A i \in 1 .. n : f[i] = G[<<f[i - 1], i>>]

LEMMA RecursionExists ==
  ASSUME NEW n \in Nat, NEW S, NEW c \in S, NEW G \in [S \X (1 .. n) -> S]
  PROVE  \E f : Recursion(f, n, S, c, G)
<1> DEFINE Solves(f, m) == f[0] = c /\ \A i \in 1 .. m : f[i] = G[<<f[i - 1], i>>]
           P == {m \in 0 .. n : \E f \in [0 .. m -> S] : Solves(f, m)}
<1>1. 0 \in P
  <2> DEFINE g == [i \in 0 .. 0 |-> c]
  <2>1. g \in [0 .. 0 -> S] /\ Solves(g, 0)
    OBVIOUS
  <2> HIDE DEF g, Solves
  <2> QED BY <2>1
<1>2. ASSUME NEW m \in 1 .. n, m - 1 \in P PROVE m \in P
  <2>1. PICK f \in [0 .. m - 1 -> S] : Solves(f, m - 1)
    BY <1>2
  <2> DEFINE v == G[<<f[m - 1], m>>]
             g == [i \in 0 .. m |-> IF i = m THEN v ELSE f[i]]
  <2>2. v \in S
    OBVIOUS
  <2>3. g \in [0 .. m -> S]
    BY <2>2
  <2>4. g[0] = c
    BY <2>1
  <2>5. ASSUME NEW i \in 1 .. m PROVE g[i] = G[<<g[i - 1], i>>]
    <3> HIDE DEF v
    <3>1. CASE i = m
      <4>1. g[i] = v /\ g[i - 1] = f[m - 1]
        BY <3>1
      <4> QED BY <3>1, <4>1 DEF v
    <3>2. CASE i # m
      <4>1. i \in 1 .. m - 1 /\ i - 1 \in 0 .. m - 1
        BY <3>2
      <4>2. g[i] = f[i] /\ g[i - 1] = f[i - 1]
        BY <4>1
      <4> QED BY <4>1, <4>2, <2>1
    <3> QED BY <3>1, <3>2
  <2>6. Solves(g, m)
    BY <2>4, <2>5
  <2> HIDE DEF g, Solves
  <2> QED BY <2>3, <2>6
<1> HIDE DEF P
<1>3. 0 .. n \subseteq P
  BY <1>1, <1>2, InductionUpTo
<1>4. n \in P
  BY <1>3
<1> QED BY <1>4 DEF P, Recursion

(* The partial results of Filter. *)
Filters(f, s, T) ==
  /\ f[0] = <<>>
  /\ \A i \in 1 .. Len(s) :
       f[i] = IF s[i] \in T THEN Append(f[i - 1], s[i]) ELSE f[i - 1]

LEMMA FilterUnfolds ==
  ASSUME NEW S, NEW s \in Seq(S), NEW T
  PROVE  \E f \in [0 .. Len(s) -> Seq(S)] : Filters(f, s, T) /\ Filter(s, T) = f[Len(s)]
<1> DEFINE n == Len(s)
           G == [p \in Seq(S) \X (1 .. n) |->
                   IF s[p[2]] \in T THEN Append(p[1], s[p[2]]) ELSE p[1]]
           Body(f) == [i \in 0 .. n |->
                        IF i = 0 THEN <<>>
                        ELSE IF s[i] \in T THEN Append(f[i - 1], s[i]) ELSE f[i - 1]]
           h == CHOOSE f : f = Body(f)
<1>1. n \in Nat /\ \A i \in 1 .. n : s[i] \in S
  BY LenProperties
<1>2. G \in [Seq(S) \X (1 .. n) -> Seq(S)]
  BY <1>1
<1>3. \A t \in Seq(S), i \in 1 .. n :
        G[<<t, i>>] = IF s[i] \in T THEN Append(t, s[i]) ELSE t
  OBVIOUS
<1> HIDE DEF G
<1>4. <<>> \in Seq(S)
  BY EmptySeq
<1>5. PICK f \in [0 .. n -> Seq(S)] :
        f[0] = <<>> /\ \A i \in 1 .. n : f[i] = G[<<f[i - 1], i>>]
  <2> DEFINE Strings == Seq(S)
  <2>1. G \in [Strings \X (1 .. n) -> Strings] /\ <<>> \in Strings /\ n \in Nat
    BY <1>1, <1>2, <1>4
  <2> HIDE DEF n, Strings
  <2>2. \E f : Recursion(f, n, Strings, <<>>, G)
    BY <2>1, RecursionExists
  <2> QED BY <2>2 DEF Strings, Recursion
<1>6. \A i \in 1 .. n : f[i] = IF s[i] \in T THEN Append(f[i - 1], s[i]) ELSE f[i - 1]
  <2> TAKE i \in 1 .. n
  <2>1. i - 1 \in 0 .. n
    BY <1>1
  <2> QED BY <2>1, <1>3, <1>5
<1>11. f = Body(f)
  <2>1. f = [i \in 0 .. n |-> f[i]]
    OBVIOUS
  <2>2. \A i \in 0 .. n : f[i] = Body(f)[i]
    <3> HIDE DEF n
    <3> TAKE i \in 0 .. n
    <3>1. CASE i = 0
      BY <3>1, <1>5
    <3>2. CASE i # 0
      <4>1. i \in 1 .. n
        BY <1>1, <3>2
      <4> QED BY <1>6, <3>2, <4>1
    <3> QED BY <3>1, <3>2
  <2>3. Body(f) = [i \in 0 .. n |-> Body(f)[i]]
    OBVIOUS
  <2> HIDE DEF Body, n
  <2> QED BY <2>1, <2>2, <2>3
<1>7. h = Body(h)
  <2> HIDE DEF Body
  <2> QED BY <1>11
<1>8. h[0] = <<>> /\ \A i \in 1 .. n :
        h[i] = IF s[i] \in T THEN Append(h[i - 1], s[i]) ELSE h[i - 1]
  <2>1. \A g : Body(g)[0] = <<>> /\ \A i \in 1 .. n : Body(g)[i] =
                 IF s[i] \in T THEN Append(g[i - 1], s[i]) ELSE g[i - 1]
    <3> HIDE DEF n
    <3> QED BY <1>1
  <2> HIDE DEF h, Body
  <2> QED BY <1>7, <2>1
<1>9. \A i \in 0 .. n : h[i] = f[i]
  <2> HIDE DEF n, h
  <2> DEFINE P == {i \in 0 .. n : h[i] = f[i]}
  <2>1. 0 \in P
    BY <1>1, <1>5, <1>8
  <2>2. \A i \in 1 .. n : i - 1 \in P => i \in P
    <3> SUFFICES ASSUME NEW i \in 1 .. n, h[i - 1] = f[i - 1] PROVE h[i] = f[i]
      BY <1>1
    <3> QED BY <1>6, <1>8
  <2> HIDE DEF P
  <2>3. 0 .. n \subseteq P
    BY <1>1, <2>1, <2>2, InductionUpTo
  <2> USE DEF P
  <2> QED BY <2>3
<1>10. Filter(s, T) = h[n]
  BY DEF Filter
<1>12. Filter(s, T) = f[n]
  <2> HIDE DEF h, n
  <2> QED BY <1>1, <1>9, <1>10
<1> QED BY <1>5, <1>6, <1>12 DEF Filters

LEMMA FilterType ==
  ASSUME NEW S, NEW s \in Seq(S), NEW T
  PROVE  Filter(s, T) \in Seq(S)
BY FilterUnfolds, LenProperties

LEMMA FilterEmpty ==
  ASSUME NEW T
  PROVE  Filter(<<>>, T) = <<>>
<1> DEFINE s == <<>>
<1>1. s \in Seq({}) /\ Len(s) = 0
  BY EmptySeq
<1> HIDE DEF s
<1>2. PICK f : Filters(f, s, T) /\ Filter(s, T) = f[Len(s)]
  BY <1>1, FilterUnfolds
<1>3. Filter(s, T) = <<>>
  BY <1>1, <1>2 DEF Filters
<1> QED BY <1>3 DEF s

(* Equal beginnings have equal results. *)
SameUpTo(s, t, n) ==
  /\ n \in Nat /\ Len(s) \in Nat /\ Len(t) \in Nat /\ n <= Len(s) /\ n <= Len(t)
  /\ \A i \in 1 .. n : s[i] = t[i]

LEMMA FiltersAgree ==
  ASSUME NEW s, NEW t, NEW T, NEW f, NEW g, NEW n,
         SameUpTo(s, t, n), Filters(f, s, T), Filters(g, t, T)
  PROVE  f[n] = g[n]
<1> USE DEF SameUpTo
<1> DEFINE P == {i \in 0 .. n : f[i] = g[i]}
<1>1. 0 \in P
  BY DEF Filters
<1>2. ASSUME NEW i \in 1 .. n, i - 1 \in P PROVE i \in P
  <2>1. i \in 1 .. Len(s) /\ i \in 1 .. Len(t) /\ s[i] = t[i]
    OBVIOUS
  <2> QED BY <1>2, <2>1 DEF Filters
<1> HIDE DEF P
<1>3. 0 .. n \subseteq P
  BY <1>1, <1>2, InductionUpTo
<1>4. n \in P
  BY <1>3
<1> QED BY <1>4 DEF P

LEMMA FilterAppend ==
  ASSUME NEW S, NEW s \in Seq(S), NEW x \in S, NEW T
  PROVE  Filter(Append(s, x), T) = IF x \in T THEN Append(Filter(s, T), x) ELSE Filter(s, T)
<1> DEFINE t == Append(s, x)
           n == Len(s)
<1>1. /\ t \in Seq(S) /\ Len(t) = n + 1 /\ n \in Nat /\ Len(s) = n
      /\ \A i \in 1 .. n : t[i] = s[i]
      /\ t[n + 1] = x
  BY AppendProperties, LenProperties
<1> HIDE DEF t, n
<1>2. PICK f : Filters(f, s, T) /\ Filter(s, T) = f[n]
  BY <1>1, FilterUnfolds
<1>3. PICK g : Filters(g, t, T) /\ Filter(t, T) = g[n + 1]
  BY <1>1, FilterUnfolds
<1>4. f[n] = g[n]
  <2>1. SameUpTo(s, t, n)
    BY <1>1 DEF SameUpTo
  <2> QED BY <1>2, <1>3, <2>1, FiltersAgree
<1>5. n + 1 \in 1 .. Len(t) /\ (n + 1) - 1 = n
  BY <1>1
<1>6. g[n + 1] = IF t[n + 1] \in T THEN Append(g[n], t[n + 1]) ELSE g[n]
  BY <1>3, <1>5 DEF Filters
<1> QED BY <1>1, <1>2, <1>3, <1>4, <1>6 DEF t

(* Equations between sequences, as relations that the provers leave alone. *)
IsConcat(c, a, b) == c = a \o b
IsAppend(c, a, x) == c = Append(a, x)

LEMMA AppendConcat ==
  ASSUME NEW S, NEW a \in Seq(S), NEW b \in Seq(S), NEW x \in S,
         NEW c, NEW d, NEW e, IsConcat(c, a, b), IsAppend(d, b, x), IsAppend(e, c, x)
  PROVE  IsConcat(e, a, d)
<1> USE DEF IsConcat, IsAppend
<1>1. <<x>> \in Seq(S) /\ a \o b \in Seq(S)
  BY ConcatProperties
<1>2. Append(a \o b, x) = (a \o b) \o <<x>> /\ Append(b, x) = b \o <<x>>
  BY <1>1, AppendIsConcat
<1>3. (a \o b) \o <<x>> = a \o (b \o <<x>>)
  BY <1>1, ConcatAssociative
<1> QED BY <1>2, <1>3

LEMMA FilterConcat ==
  ASSUME NEW S, NEW s \in Seq(S), NEW t \in Seq(S), NEW T
  PROVE  Filter(s \o t, T) = Filter(s, T) \o Filter(t, T)
<1> DEFINE u(k) == SubSeq(t, 1, k)
           n == Len(t)
           P == {k \in 0 .. n : Filter(s \o u(k), T) = Filter(s, T) \o Filter(u(k), T)}
<1>1. n \in Nat /\ \A i \in 1 .. n : t[i] \in S
  BY LenProperties
<1>2. 0 \in P
  <2>1. u(0) = <<>>
    BY SubSeqEmpty
  <2>2. s \o <<>> = s /\ Filter(s, T) \o <<>> = Filter(s, T)
    BY FilterType, ConcatEmptySeq
  <2>3. Filter(u(0), T) = <<>> /\ s \o u(0) = s
    BY <2>1, <2>2, FilterEmpty
  <2>4. Filter(s \o u(0), T) = Filter(s, T) \o Filter(u(0), T)
    BY <2>2, <2>3
  <2> HIDE DEF u
  <2> QED BY <1>1, <2>4
<1>3. ASSUME NEW k \in 1 .. n, k - 1 \in P PROVE k \in P
  <2> DEFINE v == u(k - 1)
             w == s \o v
             x == t[k]
             a == Filter(s, T)
             b == Filter(v, T)
  <2>1. v \in Seq(S) /\ x \in S /\ w \in Seq(S) /\ <<x>> \in Seq(S)
    <3>1. v \in Seq(S)
      BY <1>1, SubSeqProperties
    <3> HIDE DEF v
    <3> QED BY <1>1, <3>1, ConcatProperties
  <2>2. u(k) = v \o <<x>>
    BY <1>1, SubSeqRecursiveSecond
  <2>3. Filter(w, T) = a \o b
    BY <1>3
  <2> HIDE DEF u, v, x
  <2>4. u(k) = Append(v, x)
    BY <2>1, <2>2, AppendIsConcat
  <2>5. s \o u(k) = Append(w, x)
    <3>1. s \o (v \o <<x>>) = w \o <<x>>
      BY <2>1, ConcatAssociative
    <3> HIDE DEF w
    <3> QED BY <2>1, <2>2, <3>1, AppendIsConcat
  <2> HIDE DEF w
  <2>6. a \in Seq(S) /\ b \in Seq(S)
    BY <2>1, FilterType
  <2>7. Filter(Append(w, x), T) = IF x \in T THEN Append(Filter(w, T), x) ELSE Filter(w, T)
    BY <2>1, FilterAppend
  <2>8. Filter(Append(v, x), T) = IF x \in T THEN Append(b, x) ELSE b
    BY <2>1, FilterAppend
  <2> HIDE DEF a, b
  <2>9. Append(a \o b, x) = a \o Append(b, x)
    <3>1. /\ IsConcat(a \o b, a, b) /\ IsAppend(Append(b, x), b, x)
          /\ IsAppend(Append(a \o b, x), a \o b, x)
      BY DEF IsConcat, IsAppend
    <3>2. IsConcat(Append(a \o b, x), a, Append(b, x))
      BY <2>1, <2>6, <3>1, AppendConcat
    <3> QED BY <3>2 DEF IsConcat
  <2>10. Filter(s \o u(k), T) = a \o Filter(u(k), T)
    BY <2>3, <2>4, <2>5, <2>7, <2>8, <2>9
  <2> QED BY <2>10 DEF a
<1> HIDE DEF P
<1>4. 0 .. n \subseteq P
  BY <1>1, <1>2, <1>3, InductionUpTo
<1>5. n \in P
  BY <1>1, <1>4
<1>6. u(n) = t
  BY SubSeqFull
<1> QED BY <1>5, <1>6 DEF P

(* e gives the places in the first k elements of s where t was taken from. *)
Picks(e, t, s, T, k) ==
  /\ e \in [1 .. Len(t) -> 1 .. k]
  /\ \A i, j \in 1 .. Len(t) : i < j => e[i] < e[j]
  /\ \A j \in 1 .. Len(t) : t[j] = s[e[j]]
  /\ \A i \in 1 .. k : s[i] \in T <=> \E j \in 1 .. Len(t) : e[j] = i

LEMMA FilterPicks ==
  ASSUME NEW S, NEW s \in Seq(S), NEW T
  PROVE  \E e : Picks(e, Filter(s, T), s, T, Len(s))
<1> DEFINE n == Len(s)
<1>1. n \in Nat /\ \A i \in 1 .. n : s[i] \in S
  BY LenProperties
<1>2. PICK f \in [0 .. n -> Seq(S)] : Filters(f, s, T) /\ Filter(s, T) = f[n]
  BY FilterUnfolds
<1> DEFINE P == {k \in 0 .. n : \E e : Picks(e, f[k], s, T, k)}
<1>3. 0 \in P
  <2>1. f[0] = <<>> /\ Len(f[0]) = 0
    BY <1>2, EmptySeq DEF Filters
  <2>2. Picks([i \in 1 .. 0 |-> i], f[0], s, T, 0)
    BY <2>1 DEF Picks
  <2> HIDE DEF n
  <2> QED BY <1>1, <2>2
<1>4. ASSUME NEW k \in 1 .. n, k - 1 \in P PROVE k \in P
  <2>1. PICK e : Picks(e, f[k - 1], s, T, k - 1)
    BY <1>4
  <2>2. /\ f[k - 1] \in Seq(S) /\ f[k] \in Seq(S) /\ k - 1 \in Nat /\ s[k] \in S
        /\ f[k] = IF s[k] \in T THEN Append(f[k - 1], s[k]) ELSE f[k - 1]
    <3>1. k - 1 \in 0 .. n /\ k \in 0 .. n /\ k - 1 \in Nat /\ s[k] \in S
      BY <1>1
    <3>2. f[k] = IF s[k] \in T THEN Append(f[k - 1], s[k]) ELSE f[k - 1]
      BY <1>2 DEF Filters
    <3> QED BY <3>1, <3>2
  <2> DEFINE m == Len(f[k - 1])
  <2>3. m \in Nat
    BY <2>2, LenProperties
  <2>4. CASE s[k] \in T
    <3> DEFINE g == [j \in 1 .. m + 1 |-> IF j = m + 1 THEN k ELSE e[j]]
    <3>1. /\ Len(f[k]) = m + 1 /\ f[k][m + 1] = s[k]
          /\ \A j \in 1 .. m : f[k][j] = f[k - 1][j]
      BY <2>2, <2>4, AppendProperties
    <3> HIDE DEF m
    <3>2. /\ \A j \in 1 .. m : e[j] \in 1 .. k - 1 /\ f[k - 1][j] = s[e[j]]
          /\ \A i, j \in 1 .. m : i < j => e[i] < e[j]
          /\ \A i \in 1 .. k - 1 : s[i] \in T <=> \E j \in 1 .. m : e[j] = i
      BY <2>1 DEF Picks, m
    <3>3. g \in [1 .. m + 1 -> 1 .. k]
      BY <2>3, <3>2, <1>1
    <3>4. \A j \in 1 .. m : g[j] = e[j] /\ j # m + 1
      BY <2>3
    <3>5. g[m + 1] = k
      BY <2>3
    <3> HIDE DEF g
    <3>6. ASSUME NEW i \in 1 .. m + 1, NEW j \in 1 .. m + 1, i < j PROVE g[i] < g[j]
      <4>1. i \in 1 .. m
        BY <2>3, <3>6
      <4>2. CASE j = m + 1
        <5>1. e[i] \in 1 .. k - 1 /\ g[i] = e[i]
          BY <3>2, <3>4, <4>1
        <5> QED BY <1>1, <3>5, <4>2, <5>1
      <4>3. CASE j # m + 1
        <5>1. j \in 1 .. m
          BY <2>3, <4>3
        <5> QED BY <3>2, <3>4, <3>6, <4>1, <5>1
      <4> QED BY <4>2, <4>3
    <3>7. ASSUME NEW j \in 1 .. m + 1 PROVE f[k][j] = s[g[j]]
      <4>1. CASE j = m + 1
        BY <3>1, <3>5, <4>1
      <4>2. CASE j # m + 1
        <5>1. j \in 1 .. m
          BY <2>3, <4>2
        <5> QED BY <3>1, <3>2, <3>4, <5>1
      <4> QED BY <4>1, <4>2
    <3>8. ASSUME NEW i \in 1 .. k PROVE s[i] \in T <=> \E j \in 1 .. m + 1 : g[j] = i
      <4>1. CASE i = k
        <5>1. m + 1 \in 1 .. m + 1
          BY <2>3
        <5> QED BY <2>4, <3>5, <4>1, <5>1
      <4>2. CASE i # k
        <5>1. i \in 1 .. k - 1
          BY <4>2
        <5>2. \A j \in 1 .. m + 1 : g[j] = i => j \in 1 .. m
          BY <2>3, <3>5, <4>2
        <5>3. \A j \in 1 .. m : j \in 1 .. m + 1
          BY <2>3
        <5> QED BY <3>2, <3>4, <5>1, <5>2, <5>3
      <4> QED BY <4>1, <4>2
    <3>9. Picks(g, f[k], s, T, k)
      BY <3>1, <3>3, <3>6, <3>7, <3>8 DEF Picks
    <3> QED BY <1>1, <3>9
  <2>5. CASE s[k] \notin T
    <3>1. f[k] = f[k - 1]
      BY <2>2, <2>5
    <3> HIDE DEF m
    <3>2. /\ e \in [1 .. m -> 1 .. k - 1]
          /\ \A j \in 1 .. m : e[j] \in 1 .. k - 1 /\ f[k - 1][j] = s[e[j]]
          /\ \A i, j \in 1 .. m : i < j => e[i] < e[j]
          /\ \A i \in 1 .. k - 1 : s[i] \in T <=> \E j \in 1 .. m : e[j] = i
      BY <2>1 DEF Picks, m
    <3>3. e \in [1 .. m -> 1 .. k]
      BY <1>1, <3>2
    <3>4. ASSUME NEW i \in 1 .. k PROVE s[i] \in T <=> \E j \in 1 .. m : e[j] = i
      <4>1. CASE i = k
        <5>1. \A j \in 1 .. m : e[j] # k
          BY <1>1, <3>2
        <5> QED BY <2>5, <4>1, <5>1
      <4>2. CASE i # k
        <5>1. i \in 1 .. k - 1
          BY <4>2
        <5> QED BY <3>2, <5>1
      <4> QED BY <4>1, <4>2
    <3>5. Picks(e, f[k], s, T, k)
      BY <3>1, <3>2, <3>3, <3>4 DEF Picks, m
    <3> QED BY <1>1, <3>5
  <2> QED BY <2>4, <2>5
<1> HIDE DEF P
<1>5. 0 .. n \subseteq P
  BY <1>1, <1>3, <1>4, InductionUpTo
<1>6. n \in P
  BY <1>1, <1>5
<1> QED BY <1>2, <1>6 DEF P

(* What a filter keeps, and that it keeps nothing twice. *)
LEMMA FilterFrom ==
  ASSUME NEW S, NEW s \in Seq(S), NEW T
  PROVE  \E e \in [1 .. Len(Filter(s, T)) -> 1 .. Len(s)] :
           /\ \A i, j \in 1 .. Len(Filter(s, T)) : e[i] = e[j] => i = j
           /\ \A j \in 1 .. Len(Filter(s, T)) : Filter(s, T)[j] = s[e[j]] /\ s[e[j]] \in T
           /\ \A i \in 1 .. Len(s) :
                s[i] \in T => \E j \in 1 .. Len(Filter(s, T)) : e[j] = i
<1> DEFINE t == Filter(s, T)
<1>1. PICK e : Picks(e, t, s, T, Len(s))
  BY FilterPicks
<1>2. Len(t) \in Nat /\ Len(s) \in Nat
  BY FilterType, LenProperties
<1> HIDE DEF t
<1>3. e \in [1 .. Len(t) -> 1 .. Len(s)]
  BY <1>1 DEF Picks
<1>4. ASSUME NEW i \in 1 .. Len(t), NEW j \in 1 .. Len(t), e[i] = e[j] PROVE i = j
  <2>1. e[i] \in Nat /\ (i < j => e[i] < e[j]) /\ (j < i => e[j] < e[i])
    BY <1>1, <1>2, <1>3 DEF Picks
  <2> QED BY <1>2, <1>4, <2>1
<1>5. ASSUME NEW j \in 1 .. Len(t) PROVE t[j] = s[e[j]] /\ s[e[j]] \in T
  BY <1>1, <1>3 DEF Picks
<1>6. ASSUME NEW i \in 1 .. Len(s), s[i] \in T PROVE \E j \in 1 .. Len(t) : e[j] = i
  BY <1>1, <1>6 DEF Picks
<1> QED BY <1>3, <1>4, <1>5, <1>6 DEF t

-----------------------------------------------------------------------------
(* The last element of a sequence and the others. *)
LEMMA LastAndFront ==
  ASSUME NEW S, NEW s \in Seq(S), s # <<>>
  PROVE  /\ Last(s) \in S /\ Front(s) \in Seq(S) /\ Len(Front(s)) = Len(s) - 1
         /\ Len(s) \in Nat \ {0} /\ Last(s) = s[Len(s)]
         /\ \A i \in 1 .. Len(s) - 1 : Front(s)[i] = s[i]
<1>1. Len(s) \in Nat \ {0} /\ \A i \in 1 .. Len(s) : s[i] \in S
  BY EmptySeq, LenProperties
<1> DEFINE n == Len(s) - 1
<1>2. n \in Int /\ 1 \in Int /\ \A i \in 1 .. n : s[i] \in S
  BY <1>1
<1>3. /\ SubSeq(s, 1, n) \in Seq(S) /\ Len(SubSeq(s, 1, n)) = IF 1 <= n THEN n - 1 + 1 ELSE 0
      /\ \A i \in 1 .. n - 1 + 1 : SubSeq(s, 1, n)[i] = s[1 + i - 1]
  <2> HIDE DEF n
  <2> QED BY <1>2, SubSeqProperties
<1>4. \A i \in 1 .. n : i \in 1 .. n - 1 + 1 /\ 1 + i - 1 = i
  BY <1>1
<1>5. Len(s) \in 1 .. Len(s) /\ Last(s) = s[Len(s)] /\ Front(s) = SubSeq(s, 1, n)
  BY <1>1 DEF Last, Front
<1>6. Len(Front(s)) = Len(s) - 1
  <2>1. n \in Nat
    BY <1>1
  <2> HIDE DEF n
  <2>4. Len(SubSeq(s, 1, n)) = IF 1 <= n THEN n - 1 + 1 ELSE 0
    BY <1>3
  <2>2. Len(SubSeq(s, 1, n)) = n
    BY <2>1, <2>4
  <2>3. Len(Front(s)) = n
    BY <1>5, <2>2
  <2> QED BY <2>3 DEF n
<1>7. \A i \in 1 .. Len(s) - 1 : Front(s)[i] = s[i]
  BY <1>3, <1>4, <1>5
<1> QED BY <1>1, <1>3, <1>5, <1>6, <1>7

(* An element of a sequence is taken out. *)
LEMMA RemoveAtIs ==
  ASSUME NEW S, NEW s \in Seq(S), NEW i \in 1 .. Len(s)
  PROVE  /\ RemoveAt(s, i) \in Seq(S) /\ Len(RemoveAt(s, i)) = Len(s) - 1 /\ Len(s) \in Nat \ {0}
         /\ \A j \in 1 .. Len(s) - 1 : RemoveAt(s, i)[j] = s[IF j < i THEN j ELSE j + 1]
<1> DEFINE n == Len(s)
           a == SubSeq(s, 1, i - 1)
           b == SubSeq(s, i + 1, n)
<1>1. n \in Nat /\ i \in 1 .. n /\ \A j \in 1 .. n : s[j] \in S
  BY LenProperties
<1>2. a \in Seq(S) /\ Len(a) = i - 1 /\ \A j \in 1 .. i - 1 : a[j] = s[j]
  <2> DEFINE m == i - 1
  <2>1. m \in Int /\ 1 \in Int /\ \A j \in 1 .. m : s[j] \in S
    BY <1>1
  <2> HIDE DEF m
  <2>2. /\ SubSeq(s, 1, m) \in Seq(S) /\ Len(SubSeq(s, 1, m)) = IF 1 <= m THEN m - 1 + 1 ELSE 0
        /\ \A j \in 1 .. m - 1 + 1 : SubSeq(s, 1, m)[j] = s[1 + j - 1]
    BY <2>1, SubSeqProperties
  <2>3. \A j \in 1 .. m : j \in 1 .. m - 1 + 1 /\ 1 + j - 1 = j
    BY <2>1
  <2> HIDE DEF n
  <2> QED BY <1>1, <2>1, <2>2, <2>3 DEF m
<1>3. b \in Seq(S) /\ Len(b) = n - i /\ \A j \in 1 .. n - i : b[j] = s[i + j]
  <2> DEFINE m == i + 1
  <2> HIDE DEF n
  <2>1. m \in Int /\ n \in Int /\ \A j \in m .. n : s[j] \in S
    BY <1>1
  <2>2. i \in Int /\ i \in 1 .. n
    BY <1>1
  <2> HIDE DEF m
  <2>3. /\ SubSeq(s, m, n) \in Seq(S) /\ Len(SubSeq(s, m, n)) = IF m <= n THEN n - m + 1 ELSE 0
        /\ \A j \in 1 .. n - m + 1 : SubSeq(s, m, n)[j] = s[m + j - 1]
    BY <2>1, SubSeqProperties
  <2>4. n - m + 1 = n - i /\ (m <= n <=> i < n) /\ \A j \in 1 .. n - i : j \in 1 .. n - m + 1 /\ m + j - 1 = i + j
    BY <2>1, <2>2 DEF m
  <2>5. Len(SubSeq(s, m, n)) = n - i
    BY <2>1, <2>2, <2>3, <2>4
  <2>6. \A j \in 1 .. n - i : SubSeq(s, m, n)[j] = s[i + j]
    BY <2>3, <2>4
  <2> QED BY <2>3, <2>5, <2>6 DEF m
<1>4. RemoveAt(s, i) = a \o b
  BY DEF RemoveAt
<1> HIDE DEF a, b, n
<1>5. /\ a \o b \in Seq(S) /\ Len(a \o b) = n - 1
      /\ \A j \in 1 .. n - 1 : (a \o b)[j] = IF j <= i - 1 THEN a[j] ELSE b[j - (i - 1)]
  <2>1. Len(a) + Len(b) = n - 1 /\ Len(a) = i - 1
    BY <1>1, <1>2, <1>3
  <2> QED BY <1>2, <1>3, <2>1, ConcatProperties
<1>6. ASSUME NEW j \in 1 .. n - 1 PROVE (a \o b)[j] = s[IF j < i THEN j ELSE j + 1]
  <2>1. CASE j < i
    <3>1. j <= i - 1 /\ j \in 1 .. i - 1
      BY <1>1, <2>1
    <3> QED BY <1>2, <1>5, <2>1, <3>1
  <2>2. CASE ~(j < i)
    <3>1. ~(j <= i - 1) /\ j - (i - 1) \in 1 .. n - i /\ i + (j - (i - 1)) = j + 1
      BY <1>1, <2>2
    <3>2. b[j - (i - 1)] = s[j + 1]
      BY <1>3, <3>1
    <3> QED BY <1>5, <2>2, <3>1, <3>2
  <2> QED BY <2>1, <2>2
<1> QED BY <1>1, <1>4, <1>5, <1>6 DEF n

-----------------------------------------------------------------------------
(* Parts of a sequence, in any order, nothing twice. *)
PartOf(t, s) ==
  \E e \in [1 .. Len(t) -> 1 .. Len(s)] :
    /\ \A i, j \in 1 .. Len(t) : e[i] = e[j] => i = j
    /\ \A j \in 1 .. Len(t) : t[j] = s[e[j]]

LEMMA FilterIsPart ==
  ASSUME NEW S, NEW s \in Seq(S), NEW T
  PROVE  /\ Filter(s, T) \in Seq(S) /\ PartOf(Filter(s, T), s)
         /\ \A j \in 1 .. Len(Filter(s, T)) : Filter(s, T)[j] \in T
         /\ \A i \in 1 .. Len(s) : s[i] \in T =>
              \E j \in 1 .. Len(Filter(s, T)) : Filter(s, T)[j] = s[i]
<1> DEFINE t == Filter(s, T)
<1>1. PICK e \in [1 .. Len(t) -> 1 .. Len(s)] :
        /\ \A i, j \in 1 .. Len(t) : e[i] = e[j] => i = j
        /\ \A j \in 1 .. Len(t) : t[j] = s[e[j]] /\ s[e[j]] \in T
        /\ \A i \in 1 .. Len(s) : s[i] \in T => \E j \in 1 .. Len(t) : e[j] = i
  BY FilterFrom
<1>2. t \in Seq(S)
  BY FilterType
<1> HIDE DEF t
<1>3. PartOf(t, s)
  BY <1>1 DEF PartOf
<1>4. \A i \in 1 .. Len(s) : s[i] \in T => \E j \in 1 .. Len(t) : t[j] = s[i]
  BY <1>1
<1> QED BY <1>1, <1>2, <1>3, <1>4 DEF t

LEMMA RemoveAtIsPart ==
  ASSUME NEW S, NEW s \in Seq(S), NEW i \in 1 .. Len(s)
  PROVE  /\ PartOf(RemoveAt(s, i), s)
         /\ \A j \in 1 .. Len(s) : j # i =>
              \E k \in 1 .. Len(RemoveAt(s, i)) : RemoveAt(s, i)[k] = s[j]
<1> DEFINE t == RemoveAt(s, i)
           n == Len(s)
           e == [j \in 1 .. n - 1 |-> IF j < i THEN j ELSE j + 1]
<1>1. /\ t \in Seq(S) /\ Len(t) = n - 1 /\ n \in Nat \ {0} /\ i \in 1 .. n
      /\ \A j \in 1 .. n - 1 : t[j] = s[IF j < i THEN j ELSE j + 1]
  BY RemoveAtIs
<1> HIDE DEF t, n
<1>2. e \in [1 .. n - 1 -> 1 .. n]
  BY <1>1
<1>3. \A j, k \in 1 .. n - 1 : e[j] = e[k] => j = k
  BY <1>1
<1>4. \A j \in 1 .. n - 1 : t[j] = s[e[j]]
  BY <1>1
<1>5. PartOf(t, s)
  <2> HIDE DEF e
  <2>1. /\ e \in [1 .. Len(t) -> 1 .. n]
        /\ \A j, k \in 1 .. Len(t) : e[j] = e[k] => j = k
        /\ \A j \in 1 .. Len(t) : t[j] = s[e[j]]
    BY <1>1, <1>2, <1>3, <1>4
  <2> QED BY <2>1 DEF PartOf, n
<1>6. ASSUME NEW j \in 1 .. n, j # i PROVE \E k \in 1 .. n - 1 : t[k] = s[j]
  <2>1. CASE j < i
    <3>1. j \in 1 .. n - 1 /\ t[j] = s[j]
      BY <1>1, <2>1
    <3> QED BY <3>1
  <2>2. CASE ~(j < i)
    <3>1. j - 1 \in 1 .. n - 1 /\ ~(j - 1 < i) /\ (j - 1) + 1 = j
      BY <1>1, <1>6, <2>2
    <3>2. t[j - 1] = s[j]
      BY <1>1, <3>1
    <3> QED BY <3>1, <3>2
  <2> QED BY <2>1, <2>2
<1> QED BY <1>1, <1>5, <1>6 DEF t, n

LEMMA PartItself ==
  ASSUME NEW S, NEW s \in Seq(S)
  PROVE  PartOf(s, s)
<1> DEFINE e == [i \in 1 .. Len(s) |-> i]
<1>1. /\ e \in [1 .. Len(s) -> 1 .. Len(s)]
      /\ \A i, j \in 1 .. Len(s) : e[i] = e[j] => i = j
      /\ \A j \in 1 .. Len(s) : s[j] = s[e[j]]
  OBVIOUS
<1> QED BY <1>1 DEF PartOf

-----------------------------------------------------------------------------
(* Numbers held in rows, h[x] of length L[x]: none above n, and each of     *)
(* 1 .. n in one place.                                                     *)
Rows(h, L, H) == L \in [H -> Nat] /\ \A x \in H : h[x] \in [1 .. L[x] -> Nat]

IsHeld(h, L, H, v) == \E x \in H : \E i \in 1 .. L[x] : h[x][i] = v

IsAlone(h, L, H, v) ==
  \A x, y \in H : \A i \in 1 .. L[x], j \in 1 .. L[y] :
    h[x][i] = v /\ h[y][j] = v => x = y /\ i = j

Tally(h, L, H, n) ==
  /\ Rows(h, L, H)
  /\ \A v \in 1 .. n : IsHeld(h, L, H, v) /\ IsAlone(h, L, H, v)
  /\ \A x \in H : \A i \in 1 .. L[x] : h[x][i] <= n

LEMMA TallyIsHeldOnce ==
  ASSUME NEW h, NEW L, NEW H, NEW n, Tally(h, L, H, n)
  PROVE  HeldOnce(h, H, n)
<1> DEFINE P(v) == {p \in UNION {{x} \X DOMAIN h[x] : x \in H} : h[p[1]][p[2]] = v}
<1>1. \A x \in H : DOMAIN h[x] = 1 .. L[x]
  BY DEF Tally, Rows
<1>2. ASSUME NEW v, NEW p
      PROVE  p \in P(v) <=> \E x \in H : \E i \in 1 .. L[x] : p = <<x, i>> /\ h[x][i] = v
  <2>1. p \in P(v) <=> (\E x \in H : p \in {x} \X DOMAIN h[x]) /\ h[p[1]][p[2]] = v
    OBVIOUS
  <2>2. ASSUME NEW x \in H PROVE p \in {x} \X DOMAIN h[x] <=> \E i \in 1 .. L[x] : p = <<x, i>>
    <3> DEFINE D == DOMAIN h[x]
    <3>1. D = 1 .. L[x]
      BY <1>1
    <3> HIDE DEF D, P
    <3>2. p \in {x} \X D <=> \E i \in D : p = <<x, i>>
      OBVIOUS
    <3>3. p \in {x} \X D <=> \E i \in 1 .. L[x] : p = <<x, i>>
      BY <3>1, <3>2
    <3> QED BY <3>3 DEF D
  <2>3. ASSUME NEW x, NEW i, p = <<x, i>> PROVE h[p[1]][p[2]] = h[x][i]
    BY <2>3
  <2> HIDE DEF P
  <2> QED BY <2>1, <2>2, <2>3
<1>3. HeldOnce(h, H, n) <=> \A v \in 1 .. n : \E p \in P(v) : P(v) = {p}
  BY DEF HeldOnce
<1> HIDE DEF P
<1>4. ASSUME NEW v \in 1 .. n PROVE \E p \in P(v) : P(v) = {p}
  <2>1. PICK x \in H : \E i \in 1 .. L[x] : h[x][i] = v
    BY DEF Tally, IsHeld
  <2>2. PICK i \in 1 .. L[x] : h[x][i] = v
    BY <2>1
  <2>3. <<x, i>> \in P(v)
    BY <1>2, <2>2
  <2>4. ASSUME NEW q \in P(v) PROVE q = <<x, i>>
    <3>1. PICK y \in H : \E j \in 1 .. L[y] : q = <<y, j>> /\ h[y][j] = v
      BY <1>2
    <3>2. PICK j \in 1 .. L[y] : q = <<y, j>> /\ h[y][j] = v
      BY <3>1
    <3> QED BY <2>2, <3>2 DEF Tally, IsAlone
  <2> QED BY <2>3, <2>4
<1> QED BY <1>3, <1>4

(* The places of g come from places of h, as A and B say, each from one; and *)
(* nothing but zeros has no place any more.                                 *)
Comes(g, h, L, H, A, B, y, j) ==
  g[y][j] = 0 \/ (A[y][j] \in H /\ B[y][j] \in 1 .. L[A[y][j]] /\ h[A[y][j]][B[y][j]] = g[y][j])

Rearranged(g, M, h, L, H, A, B) ==
  /\ \A y \in H : \A j \in 1 .. M[y] : Comes(g, h, L, H, A, B, y, j)
  /\ \A y, z \in H : \A j \in 1 .. M[y], k \in 1 .. M[z] :
       A[y][j] = A[z][k] /\ B[y][j] = B[z][k] => y = z /\ j = k
  /\ \A x \in H : \A i \in 1 .. L[x] : IsHeld(g, M, H, h[x][i])

LEMMA Rearrange ==
  ASSUME NEW H, NEW n \in Nat, NEW h, NEW L, Tally(h, L, H, n), NEW g, NEW M, Rows(g, M, H),
         NEW A, NEW B, Rearranged(g, M, h, L, H, A, B)
  PROVE  Tally(g, M, H, n)
<1>1. ASSUME NEW y \in H, NEW j \in 1 .. M[y] PROVE g[y][j] <= n
  <2>1. Comes(g, h, L, H, A, B, y, j)
    BY DEF Rearranged
  <2> QED BY <2>1 DEF Tally, Comes
<1>2. ASSUME NEW v \in 1 .. n PROVE IsHeld(g, M, H, v)
  <2>1. PICK x \in H : \E i \in 1 .. L[x] : h[x][i] = v
    BY DEF Tally, IsHeld
  <2>2. PICK i \in 1 .. L[x] : h[x][i] = v
    BY <2>1
  <2> QED BY <2>2 DEF Rearranged
<1>3. ASSUME NEW v \in 1 .. n, NEW y \in H, NEW z \in H, NEW j \in 1 .. M[y], NEW k \in 1 .. M[z],
             g[y][j] = v, g[z][k] = v
      PROVE  y = z /\ j = k
  <2>1. v # 0
    OBVIOUS
  <2>2. Comes(g, h, L, H, A, B, y, j) /\ Comes(g, h, L, H, A, B, z, k)
    BY DEF Rearranged
  <2>3. /\ A[y][j] \in H /\ B[y][j] \in 1 .. L[A[y][j]] /\ h[A[y][j]][B[y][j]] = v
        /\ A[z][k] \in H /\ B[z][k] \in 1 .. L[A[z][k]] /\ h[A[z][k]][B[z][k]] = v
    BY <1>3, <2>1, <2>2 DEF Comes
  <2>4. IsAlone(h, L, H, v)
    BY DEF Tally
  <2>5. A[y][j] = A[z][k] /\ B[y][j] = B[z][k]
    BY <2>3, <2>4 DEF IsAlone
  <2> QED BY <2>5 DEF Rearranged
<1>4. \A v \in 1 .. n : IsAlone(g, M, H, v)
  BY <1>3 DEF IsAlone
<1> QED BY <1>1, <1>2, <1>4 DEF Tally

(* One number goes from its place in one row to the end of another. *)
MovesOne(h, L, g, M, H, x, y, p) ==
  /\ x \in H /\ y \in H /\ x # y /\ p \in 1 .. L[x]
  /\ M[x] = L[x] - 1 /\ M[y] = L[y] + 1
  /\ \A z \in H : z # x /\ z # y => M[z] = L[z] /\ g[z] = h[z]
  /\ \A i \in 1 .. L[x] - 1 : g[x][i] = h[x][IF i < p THEN i ELSE i + 1]
  /\ \A i \in 1 .. L[y] : g[y][i] = h[y][i]
  /\ g[y][L[y] + 1] = h[x][p]

LEMMA MoveOne ==
  ASSUME NEW H, NEW n \in Nat, NEW h, NEW L, Tally(h, L, H, n), NEW g, NEW M, Rows(g, M, H),
         NEW x, NEW y, NEW p, MovesOne(h, L, g, M, H, x, y, p)
  PROVE  Tally(g, M, H, n)
<1> DEFINE k == L[x]
           l == L[y]
           A == [z \in H |-> [i \in Nat |-> IF z = y /\ i = l + 1 THEN x ELSE z]]
           B == [z \in H |-> [i \in Nat |-> IF z = y /\ i = l + 1 THEN p
                                            ELSE IF z = x /\ i >= p THEN i + 1 ELSE i]]
<1>1. L \in [H -> Nat] /\ M \in [H -> Nat]
  BY DEF Tally, Rows
<1>2. k \in Nat /\ l \in Nat /\ p \in 1 .. k /\ x \in H /\ y \in H /\ x # y /\ k = L[x] /\ l = L[y]
  BY <1>1 DEF MovesOne
<1>3. M[x] = k - 1 /\ M[y] = l + 1 /\ \A z \in H : z # x /\ z # y => M[z] = L[z] /\ g[z] = h[z]
  BY DEF MovesOne
<1>4. \A z \in H : \A i \in Nat :
        /\ A[z][i] = IF z = y /\ i = l + 1 THEN x ELSE z
        /\ B[z][i] = IF z = y /\ i = l + 1 THEN p ELSE IF z = x /\ i >= p THEN i + 1 ELSE i
  OBVIOUS
<1>9. /\ \A i \in 1 .. k - 1 : g[x][i] = h[x][IF i < p THEN i ELSE i + 1]
      /\ \A i \in 1 .. l : g[y][i] = h[y][i]
      /\ g[y][l + 1] = h[x][p]
  BY DEF MovesOne
<1> HIDE DEF A, B, k, l
<1>5. ASSUME NEW z \in H, NEW i \in 1 .. M[z] PROVE Comes(g, h, L, H, A, B, z, i)
  <2>0. i \in Nat
    BY <1>1
  <2>1. CASE z = y /\ i = l + 1
    <3>1. A[z][i] = x /\ B[z][i] = p
      BY <1>4, <2>0, <2>1
    <3> QED BY <1>2, <1>9, <2>1, <3>1 DEF Comes
  <2>2. CASE z = y /\ i # l + 1
    <3>1. i \in 1 .. l
      BY <1>2, <1>3, <2>2
    <3>2. A[z][i] = y /\ B[z][i] = i
      BY <1>2, <1>4, <2>0, <2>2
    <3> QED BY <1>2, <1>9, <2>2, <3>1, <3>2 DEF Comes
  <2>3. CASE z = x
    <3>1. i \in 1 .. k - 1
      BY <1>2, <1>3, <2>3
    <3>2. A[z][i] = x /\ B[z][i] = IF i < p THEN i ELSE i + 1
      BY <1>2, <1>4, <2>0, <2>3
    <3>3. (IF i < p THEN i ELSE i + 1) \in 1 .. k
      BY <1>2, <3>1
    <3> QED BY <1>2, <1>9, <2>3, <3>1, <3>2, <3>3 DEF Comes
  <2>4. CASE z # x /\ z # y
    <3>1. A[z][i] = z /\ B[z][i] = i /\ M[z] = L[z] /\ g[z] = h[z]
      BY <1>3, <1>4, <2>0, <2>4
    <3> QED BY <3>1 DEF Comes
  <2> QED BY <2>1, <2>2, <2>3, <2>4
<1>6. ASSUME NEW z \in H, NEW u \in H, NEW i \in 1 .. M[z], NEW j \in 1 .. M[u],
             A[z][i] = A[u][j], B[z][i] = B[u][j]
      PROVE  z = u /\ i = j
  <2>1. /\ i \in Nat /\ j \in Nat
        /\ (z = x => i <= k - 1) /\ (u = x => j <= k - 1) /\ p \in Nat
        /\ (z = y => i <= l + 1) /\ (u = y => j <= l + 1)
    BY <1>1, <1>2, <1>3
  <2>2. /\ A[z][i] = IF z = y /\ i = l + 1 THEN x ELSE z
        /\ B[z][i] = IF z = y /\ i = l + 1 THEN p ELSE IF z = x /\ i >= p THEN i + 1 ELSE i
        /\ A[u][j] = IF u = y /\ j = l + 1 THEN x ELSE u
        /\ B[u][j] = IF u = y /\ j = l + 1 THEN p ELSE IF u = x /\ j >= p THEN j + 1 ELSE j
    BY <1>4, <2>1
  <2>3. x # y /\ l \in Nat
    BY <1>2
  <2>4. A[z][i] = A[u][j] /\ B[z][i] = B[u][j]
    BY <1>6
  <2>5. CASE z = y /\ i = l + 1
    <3>1. A[z][i] = x /\ B[z][i] = p
      BY <2>2, <2>5
    <3>2. ~(u = y /\ j # l + 1) /\ ~(u # x /\ u # y)
      BY <2>2, <2>3, <2>4, <3>1
    <3>3. u # x
      BY <2>1, <2>2, <2>3, <2>4, <3>1
    <3> QED BY <2>5, <3>2, <3>3
  <2>6. CASE u = y /\ j = l + 1
    <3>1. A[u][j] = x /\ B[u][j] = p
      BY <2>2, <2>6
    <3>2. ~(z = y /\ i # l + 1) /\ ~(z # x /\ z # y)
      BY <2>2, <2>3, <2>4, <3>1
    <3>3. z # x
      BY <2>1, <2>2, <2>3, <2>4, <3>1
    <3> QED BY <2>6, <3>2, <3>3
  <2>7. CASE ~(z = y /\ i = l + 1) /\ ~(u = y /\ j = l + 1)
    <3>1. A[z][i] = z /\ A[u][j] = u
      BY <2>2, <2>7
    <3>2. /\ B[z][i] = IF z = x /\ i >= p THEN i + 1 ELSE i
          /\ B[u][j] = IF u = x /\ j >= p THEN j + 1 ELSE j
      BY <2>2, <2>7
    <3>3. z = u
      BY <2>4, <3>1
    <3>4. CASE z = x
      <4>1. (IF i >= p THEN i + 1 ELSE i) = IF j >= p THEN j + 1 ELSE j
        BY <2>4, <3>2, <3>3, <3>4
      <4>2. i = j
        BY <2>1, <4>1
      <4> QED BY <3>3, <4>2
    <3>5. CASE z # x
      BY <2>4, <3>2, <3>3, <3>5
    <3> QED BY <3>4, <3>5
  <2> QED BY <2>5, <2>6, <2>7
<1>7. ASSUME NEW z \in H, NEW i \in 1 .. L[z] PROVE IsHeld(g, M, H, h[z][i])
  <2>1. CASE z = x /\ i = p
    <3>1. l + 1 \in 1 .. M[y]
      BY <1>2, <1>3
    <3> QED BY <1>2, <1>9, <2>1, <3>1 DEF IsHeld
  <2>2. CASE z = x /\ i < p
    <3>1. i \in 1 .. k - 1
      BY <1>2, <2>2
    <3>2. g[x][i] = h[x][i]
      BY <1>9, <2>2, <3>1
    <3> QED BY <1>2, <1>3, <2>2, <3>1, <3>2 DEF IsHeld
  <2>3. CASE z = x /\ i > p
    <3>1. i - 1 \in 1 .. k - 1 /\ ~(i - 1 < p) /\ (i - 1) + 1 = i
      BY <1>2, <2>3
    <3>2. g[x][i - 1] = h[x][i]
      BY <1>9, <3>1
    <3> QED BY <1>2, <1>3, <2>3, <3>1, <3>2 DEF IsHeld
  <2>4. CASE z = y
    <3>1. i \in 1 .. M[y] /\ g[y][i] = h[y][i]
      BY <1>2, <1>3, <1>9, <2>4
    <3> QED BY <1>2, <2>4, <3>1 DEF IsHeld
  <2>5. CASE z # x /\ z # y
    BY <1>3, <2>5 DEF IsHeld
  <2>6. z = x => (i = p \/ i < p \/ i > p)
    BY <1>2
  <2> QED BY <2>6, <2>1, <2>2, <2>3, <2>4, <2>5
<1>8. Rearranged(g, M, h, L, H, A, B)
  BY <1>5, <1>6, <1>7 DEF Rearranged
<1> QED BY <1>8, Rearrange

(* All numbers of one row go to the end of another. *)
MovesAll(h, L, g, M, H, x, y) ==
  /\ x \in H /\ y \in H /\ x # y
  /\ M[x] = 0 /\ M[y] = L[y] + L[x]
  /\ \A z \in H : z # x /\ z # y => M[z] = L[z] /\ g[z] = h[z]
  /\ \A i \in 1 .. L[y] : g[y][i] = h[y][i]
  /\ \A i \in 1 .. L[x] : g[y][L[y] + i] = h[x][i]

LEMMA MoveAll ==
  ASSUME NEW H, NEW n \in Nat, NEW h, NEW L, Tally(h, L, H, n), NEW g, NEW M, Rows(g, M, H),
         NEW x, NEW y, MovesAll(h, L, g, M, H, x, y)
  PROVE  Tally(g, M, H, n)
<1> DEFINE k == L[x]
           l == L[y]
           A == [z \in H |-> [i \in Nat |-> IF z = y /\ i > l THEN x ELSE z]]
           B == [z \in H |-> [i \in Nat |-> IF z = y /\ i > l THEN i - l ELSE i]]
<1>1. L \in [H -> Nat] /\ M \in [H -> Nat]
  BY DEF Tally, Rows
<1>2. k \in Nat /\ l \in Nat /\ x \in H /\ y \in H /\ x # y /\ k = L[x] /\ l = L[y]
  BY <1>1 DEF MovesAll
<1>3. M[x] = 0 /\ M[y] = l + k /\ \A z \in H : z # x /\ z # y => M[z] = L[z] /\ g[z] = h[z]
  BY DEF MovesAll
<1>9. /\ \A i \in 1 .. l : g[y][i] = h[y][i]
      /\ \A i \in 1 .. k : g[y][l + i] = h[x][i]
  BY DEF MovesAll
<1>4. \A z \in H : \A i \in Nat :
        /\ A[z][i] = IF z = y /\ i > l THEN x ELSE z
        /\ B[z][i] = IF z = y /\ i > l THEN i - l ELSE i
  OBVIOUS
<1> HIDE DEF A, B, k, l
<1>5. ASSUME NEW z \in H, NEW i \in 1 .. M[z] PROVE Comes(g, h, L, H, A, B, z, i)
  <2>0. i \in Nat
    BY <1>1
  <2>1. CASE z = y /\ i > l
    <3>1. i - l \in 1 .. k /\ l + (i - l) = i
      BY <1>2, <1>3, <2>1
    <3>2. g[y][l + (i - l)] = h[x][i - l]
      BY <1>9, <3>1
    <3>3. A[z][i] = x /\ B[z][i] = i - l
      BY <1>4, <2>0, <2>1
    <3> QED BY <1>2, <2>1, <3>1, <3>2, <3>3 DEF Comes
  <2>2. CASE z = y /\ ~(i > l)
    <3>1. i \in 1 .. l
      BY <1>2, <1>3, <2>2
    <3>2. A[z][i] = y /\ B[z][i] = i
      BY <1>4, <2>0, <2>2
    <3> QED BY <1>2, <1>9, <2>2, <3>1, <3>2 DEF Comes
  <2>3. CASE z = x
    BY <1>3, <2>3
  <2>4. CASE z # x /\ z # y
    <3>1. A[z][i] = z /\ B[z][i] = i /\ M[z] = L[z] /\ g[z] = h[z]
      BY <1>3, <1>4, <2>0, <2>4
    <3> QED BY <3>1 DEF Comes
  <2> QED BY <2>1, <2>2, <2>3, <2>4
<1>6. ASSUME NEW z \in H, NEW u \in H, NEW i \in 1 .. M[z], NEW j \in 1 .. M[u],
             A[z][i] = A[u][j], B[z][i] = B[u][j]
      PROVE  z = u /\ i = j
  <2>1. i \in Nat /\ j \in Nat /\ z # x /\ u # x
    BY <1>1, <1>3
  <2>2. /\ A[z][i] = IF z = y /\ i > l THEN x ELSE z
        /\ B[z][i] = IF z = y /\ i > l THEN i - l ELSE i
        /\ A[u][j] = IF u = y /\ j > l THEN x ELSE u
        /\ B[u][j] = IF u = y /\ j > l THEN j - l ELSE j
    BY <1>4, <2>1
  <2>3. A[z][i] = A[u][j] /\ B[z][i] = B[u][j] /\ x # y /\ l \in Nat
    BY <1>2, <1>6
  <2>4. CASE z = y /\ i > l
    <3>1. A[z][i] = x /\ B[z][i] = i - l
      BY <2>2, <2>4
    <3>2. u = y /\ j > l
      BY <2>1, <2>2, <2>3, <3>1
    <3>3. B[u][j] = j - l
      BY <2>2, <3>2
    <3> QED BY <2>1, <2>3, <2>4, <3>1, <3>2, <3>3
  <2>5. CASE ~(z = y /\ i > l)
    <3>1. A[z][i] = z /\ B[z][i] = i
      BY <2>2, <2>5
    <3>2. ~(u = y /\ j > l)
      BY <2>1, <2>2, <2>3, <3>1
    <3>3. A[u][j] = u /\ B[u][j] = j
      BY <2>2, <3>2
    <3> QED BY <2>3, <3>1, <3>3
  <2> QED BY <2>4, <2>5
<1>7. ASSUME NEW z \in H, NEW i \in 1 .. L[z] PROVE IsHeld(g, M, H, h[z][i])
  <2>1. CASE z = x
    <3>1. l + i \in 1 .. M[y] /\ i \in 1 .. k
      BY <1>2, <1>3, <2>1
    <3> QED BY <1>2, <1>9, <2>1, <3>1 DEF IsHeld
  <2>2. CASE z = y
    <3>1. i \in 1 .. M[y] /\ i \in 1 .. l
      BY <1>2, <1>3, <2>2
    <3> QED BY <1>2, <1>9, <2>2, <3>1 DEF IsHeld
  <2>3. CASE z # x /\ z # y
    BY <1>3, <2>3 DEF IsHeld
  <2> QED BY <2>1, <2>2, <2>3
<1>8. Rearranged(g, M, h, L, H, A, B)
  BY <1>5, <1>6, <1>7 DEF Rearranged
<1> QED BY <1>8, Rearrange

(* Zeros come at the end of a row. *)
AddsZeros(h, L, g, M, H, x) ==
  /\ x \in H /\ L[x] <= M[x]
  /\ \A z \in H : z # x => M[z] = L[z] /\ g[z] = h[z]
  /\ \A i \in 1 .. L[x] : g[x][i] = h[x][i]
  /\ \A i \in 1 .. M[x] : i > L[x] => g[x][i] = 0

LEMMA AddZeros ==
  ASSUME NEW H, NEW n \in Nat, NEW h, NEW L, Tally(h, L, H, n), NEW g, NEW M, Rows(g, M, H),
         NEW x, AddsZeros(h, L, g, M, H, x)
  PROVE  Tally(g, M, H, n)
<1>1. L \in [H -> Nat] /\ M \in [H -> Nat]
  BY DEF Tally, Rows
<1> DEFINE A == [z \in H |-> [i \in Nat |-> z]]
           B == [z \in H |-> [i \in Nat |-> i]]
<1>4. \A z \in H : \A i \in Nat : A[z][i] = z /\ B[z][i] = i
  OBVIOUS
<1> HIDE DEF A, B
<1>5. ASSUME NEW z \in H, NEW i \in 1 .. M[z]
      PROVE  Comes(g, h, L, H, A, B, z, i) /\ A[z][i] = z /\ B[z][i] = i
  <2>1. A[z][i] = z /\ B[z][i] = i
    BY <1>1, <1>4
  <2>2. CASE z = x /\ i > L[x]
    BY <2>1, <2>2 DEF AddsZeros, Comes
  <2>3. CASE z = x /\ ~(i > L[x])
    <3>1. i \in 1 .. L[x]
      BY <1>1, <2>3
    <3> QED BY <2>1, <2>3, <3>1 DEF AddsZeros, Comes
  <2>4. CASE z # x
    <3>1. M[z] = L[z] /\ g[z] = h[z]
      BY <2>4 DEF AddsZeros
    <3> QED BY <2>1, <3>1 DEF Comes
  <2> QED BY <2>2, <2>3, <2>4
<1>7. ASSUME NEW z \in H, NEW i \in 1 .. L[z] PROVE IsHeld(g, M, H, h[z][i])
  <2>1. i \in 1 .. M[z] /\ g[z][i] = h[z][i]
    BY <1>1 DEF AddsZeros
  <2> QED BY <2>1 DEF IsHeld
<1>6. \A y, z \in H : \A j \in 1 .. M[y], k \in 1 .. M[z] :
       A[y][j] = A[z][k] /\ B[y][j] = B[z][k] => y = z /\ j = k
  BY <1>5
<1>8. Rearranged(g, M, h, L, H, A, B)
  BY <1>5, <1>6, <1>7 DEF Rearranged
<1> QED BY <1>8, Rearrange

(* The numbers after n come at the end of a row. *)
AddsNew(h, L, g, M, H, x, n, k) ==
  /\ x \in H /\ k \in Nat /\ M[x] = L[x] + k
  /\ \A z \in H : z # x => M[z] = L[z] /\ g[z] = h[z]
  /\ \A i \in 1 .. L[x] : g[x][i] = h[x][i]
  /\ \A i \in 1 .. k : g[x][L[x] + i] = n + i

LEMMA AddNew ==
  ASSUME NEW H, NEW n \in Nat, NEW h, NEW L, Tally(h, L, H, n), NEW g, NEW M, Rows(g, M, H),
         NEW x, NEW k, AddsNew(h, L, g, M, H, x, n, k)
  PROVE  Tally(g, M, H, n + k)
<1> DEFINE l == L[x]
<1>1. L \in [H -> Nat] /\ M \in [H -> Nat]
  BY DEF Tally, Rows
<1>2. l \in Nat /\ k \in Nat /\ x \in H /\ l = L[x] /\ M[x] = l + k
  BY <1>1 DEF AddsNew
<1>9. \A i \in 1 .. k : g[x][l + i] = n + i
  BY DEF AddsNew
<1> HIDE DEF l
<1>3. ASSUME NEW z \in H, NEW i \in 1 .. L[z] PROVE i \in 1 .. M[z] /\ g[z][i] = h[z][i]
  BY <1>1, <1>2 DEF AddsNew
<1>4. ASSUME NEW z \in H, NEW i \in 1 .. M[z]
      PROVE  \/ i \in 1 .. L[z] /\ g[z][i] = h[z][i] /\ g[z][i] <= n
             \/ z = x /\ i - l \in 1 .. k /\ g[z][i] = n + (i - l)
  <2>1. CASE z # x
    BY <2>1 DEF Tally, AddsNew
  <2>2. CASE z = x /\ i <= l
    <3>1. i \in 1 .. L[z]
      BY <1>1, <1>2, <2>2
    <3>2. g[z][i] = h[z][i]
      BY <1>3, <3>1
    <3> QED BY <3>1, <3>2 DEF Tally
  <2>3. CASE z = x /\ ~(i <= l)
    <3>1. i - l \in 1 .. k /\ l + (i - l) = i
      BY <1>1, <1>2, <2>3
    <3>2. g[x][l + (i - l)] = n + (i - l)
      BY <1>9, <3>1
    <3> QED BY <2>3, <3>1, <3>2
  <2> QED BY <2>1, <2>2, <2>3
<1>5. ASSUME NEW v \in 1 .. n + k PROVE IsHeld(g, M, H, v)
  <2>1. CASE v <= n
    <3>1. v \in 1 .. n
      BY <1>2, <2>1
    <3>2. PICK z \in H : \E i \in 1 .. L[z] : h[z][i] = v
      BY <3>1 DEF Tally, IsHeld
    <3>3. PICK i \in 1 .. L[z] : h[z][i] = v
      BY <3>2
    <3> QED BY <1>3, <3>3 DEF IsHeld
  <2>2. CASE ~(v <= n)
    <3>1. v - n \in 1 .. k /\ l + (v - n) \in 1 .. M[x] /\ n + (v - n) = v
      BY <1>2, <2>2
    <3>2. g[x][l + (v - n)] = v
      BY <1>9, <3>1
    <3> QED BY <1>2, <3>1, <3>2 DEF IsHeld
  <2> QED BY <2>1, <2>2
<1>6. ASSUME NEW v \in 1 .. n + k, NEW y \in H, NEW z \in H, NEW i \in 1 .. M[y], NEW j \in 1 .. M[z],
             g[y][i] = v, g[z][j] = v
      PROVE  y = z /\ i = j
  <2>3. /\ \/ i \in 1 .. L[y] /\ g[y][i] = h[y][i] /\ g[y][i] <= n
           \/ y = x /\ i - l \in 1 .. k /\ g[y][i] = n + (i - l)
        /\ \/ j \in 1 .. L[z] /\ g[z][j] = h[z][j] /\ g[z][j] <= n
           \/ z = x /\ j - l \in 1 .. k /\ g[z][j] = n + (j - l)
        /\ i \in Int /\ j \in Int
    BY <1>1, <1>4
  <2>1. CASE v <= n
    <3>1. i \in 1 .. L[y] /\ j \in 1 .. L[z] /\ h[y][i] = v /\ h[z][j] = v /\ v \in 1 .. n
      BY <1>2, <1>6, <2>1, <2>3
    <3>2. IsAlone(h, L, H, v)
      BY <3>1 DEF Tally
    <3> QED BY <3>1, <3>2 DEF IsAlone
  <2>2. CASE ~(v <= n)
    <3>1. y = x /\ z = x /\ v = n + (i - l) /\ v = n + (j - l)
      BY <1>6, <2>2, <2>3
    <3> QED BY <1>2, <2>3, <3>1
  <2> QED BY <2>1, <2>2
<1>7. \A v \in 1 .. n + k : IsAlone(g, M, H, v)
  BY <1>6 DEF IsAlone
<1>8. ASSUME NEW z \in H, NEW i \in 1 .. M[z] PROVE g[z][i] <= n + k
  <2>1. CASE i \in 1 .. L[z] /\ g[z][i] = h[z][i] /\ g[z][i] <= n
    <3>1. g[z][i] \in Nat
      BY DEF Rows
    <3> QED BY <1>2, <2>1, <3>1
  <2>2. CASE z = x /\ i - l \in 1 .. k /\ g[z][i] = n + (i - l)
    BY <1>2, <2>2
  <2> QED BY <1>4, <2>1, <2>2
<1> QED BY <1>5, <1>7, <1>8 DEF Tally

-----------------------------------------------------------------------------
(* The elements of a sequence, and sequences without duplicates. *)

\* No element is at two places.
Distinct(s) == \A i, j \in 1 .. Len(s) : s[i] = s[j] => i = j

Elements(s) == {s[i] : i \in 1 .. Len(s)}

LEMMA EmptyElements == Elements(<<>>) = {} /\ Distinct(<<>>) /\ \A S : <<>> \in Seq(S)
BY DEF Elements, Distinct

LEMMA ElementsAre ==
  ASSUME NEW S, NEW s \in Seq(S)
  PROVE  ToSet(s) = Elements(s)
BY LenProperties DEF ToSet, Elements

\* The places of a concatenation.
LEMMA ConcatPlaces ==
  ASSUME NEW S, NEW a \in Seq(S), NEW b \in Seq(S)
  PROVE  /\ a \o b \in Seq(S) /\ Len(a) \in Nat /\ Len(b) \in Nat
         /\ Len(a \o b) = Len(a) + Len(b)
         /\ \A i \in 1 .. Len(a) : i \in 1 .. Len(a \o b) /\ (a \o b)[i] = a[i]
         /\ \A j \in 1 .. Len(b) :
              Len(a) + j \in 1 .. Len(a \o b) /\ (a \o b)[Len(a) + j] = b[j]
         /\ \A k \in 1 .. Len(a \o b) :
              k \in 1 .. Len(a) \/ \E j \in 1 .. Len(b) : k = Len(a) + j
<1>1. Len(a) \in Nat /\ Len(b) \in Nat
  BY LenProperties
<1> DEFINE m == Len(a)
           n == Len(b)
           c == a \o b
<1>2. /\ c \in Seq(S) /\ Len(c) = m + n
      /\ \A i \in 1 .. m + n : c[i] = IF i <= m THEN a[i] ELSE b[i - m]
  BY ConcatProperties
<1> HIDE DEF m, n, c
<1>3. \A i \in 1 .. m : i \in 1 .. Len(c) /\ c[i] = a[i]
  BY <1>1, <1>2 DEF m, n
<1>4. ASSUME NEW j \in 1 .. n PROVE m + j \in 1 .. Len(c) /\ c[m + j] = b[j]
  <2>1. m + j \in 1 .. m + n /\ ~(m + j <= m) /\ (m + j) - m = j
    BY <1>1 DEF m, n
  <2> QED BY <1>2, <2>1
<1>5. ASSUME NEW k \in 1 .. Len(c), k \notin 1 .. m PROVE \E j \in 1 .. n : k = m + j
  <2>1. k - m \in 1 .. n /\ k = m + (k - m)
    BY <1>1, <1>2, <1>5 DEF m, n
  <2> QED BY <2>1
<1> QED BY <1>1, <1>2, <1>3, <1>4, <1>5 DEF m, n, c

LEMMA ConcatElements ==
  ASSUME NEW S, NEW a \in Seq(S), NEW b \in Seq(S)
  PROVE  /\ Elements(a \o b) = Elements(a) \cup Elements(b)
         /\ Distinct(a) /\ Distinct(b) /\ Elements(a) \cap Elements(b) = {} => Distinct(a \o b)
<1> DEFINE c == a \o b
           m == Len(a)
<1>1. /\ Len(a) \in Nat /\ Len(b) \in Nat
      /\ \A i \in 1 .. Len(a) : i \in 1 .. Len(c) /\ c[i] = a[i]
      /\ \A j \in 1 .. Len(b) : m + j \in 1 .. Len(c) /\ c[m + j] = b[j]
      /\ \A k \in 1 .. Len(c) : k \in 1 .. Len(a) \/ \E j \in 1 .. Len(b) : k = m + j
  BY ConcatPlaces
<1> HIDE DEF c, m
<1>2. Elements(c) = Elements(a) \cup Elements(b)
  <2>1. ASSUME NEW k \in 1 .. Len(c) PROVE c[k] \in Elements(a) \cup Elements(b)
    <3>1. CASE k \in 1 .. Len(a)
      BY <1>1, <3>1 DEF Elements
    <3>2. CASE k \notin 1 .. Len(a)
      BY <1>1, <3>2 DEF Elements
    <3> QED BY <3>1, <3>2
  <2>2. ASSUME NEW i \in 1 .. Len(a) PROVE a[i] \in Elements(c)
    BY <1>1 DEF Elements
  <2>3. ASSUME NEW j \in 1 .. Len(b) PROVE b[j] \in Elements(c)
    BY <1>1 DEF Elements
  <2> QED BY <2>1, <2>2, <2>3 DEF Elements
<1>3. ASSUME Distinct(a), Distinct(b), Elements(a) \cap Elements(b) = {},
             NEW i \in 1 .. Len(c), NEW j \in 1 .. Len(c), c[i] = c[j]
      PROVE  i = j
  <2>0. ASSUME NEW x \in 1 .. Len(a), NEW y \in 1 .. Len(b) PROVE a[x] # b[y]
    BY <1>3 DEF Elements
  <2>1. CASE i \in 1 .. Len(a) /\ j \in 1 .. Len(a)
    BY <1>1, <1>3, <2>1 DEF Distinct
  <2>2. CASE i \in 1 .. Len(a) /\ j \notin 1 .. Len(a)
    BY <1>1, <1>3, <2>0, <2>2
  <2>3. CASE i \notin 1 .. Len(a) /\ j \in 1 .. Len(a)
    BY <1>1, <1>3, <2>0, <2>3
  <2>4. CASE i \notin 1 .. Len(a) /\ j \notin 1 .. Len(a)
    BY <1>1, <1>3, <2>4 DEF Distinct
  <2> QED BY <2>1, <2>2, <2>3, <2>4
<1> QED BY <1>2, <1>3 DEF c, Distinct

\* The partial results of FlattenSeq.
Flattens(f, q) ==
  /\ f[0] = <<>>
  /\ \A i \in 1 .. Len(q) : f[i] = f[i - 1] \o q[i]

LEMMA FlattenUnfolds ==
  ASSUME NEW S, NEW q \in Seq(Seq(S))
  PROVE  \E f \in [0 .. Len(q) -> Seq(S)] : Flattens(f, q) /\ FlattenSeq(q) = f[Len(q)]
<1> DEFINE n == Len(q)
           T == Seq(S)
           G == [p \in T \X (1 .. n) |-> p[1] \o q[p[2]]]
           Body(f) == [i \in 1 .. n |-> IF i = 1 THEN q[i] ELSE f[i - 1] \o q[i]]
           h == CHOOSE f : f = Body(f)
<1>1. n \in Nat /\ \A i \in 1 .. n : q[i] \in T
  BY LenProperties
<1>2. <<>> \in T /\ Len(<<>>) = 0
  BY EmptySeq
<1>3. ASSUME NEW t \in T, NEW u \in T
      PROVE  t \o u \in T /\ <<>> \o u = u
  BY ConcatProperties, ConcatEmptySeq
<1> HIDE DEF T, n
<1>4. G \in [T \X (1 .. n) -> T] /\ \A t \in T, i \in 1 .. n : G[<<t, i>>] = t \o q[i]
  BY <1>1, <1>3
<1> HIDE DEF G
<1>5. PICK f : Recursion(f, n, T, <<>>, G)
  BY <1>1, <1>2, <1>4, RecursionExists
<1>6. /\ \A i \in 1 .. n : f[i - 1] \in T /\ f[i] \in T /\ f[i] = f[i - 1] \o q[i]
      /\ f[0] = <<>>
  <2>1. ASSUME NEW i \in 1 .. n PROVE f[i - 1] \in T /\ f[i] \in T /\ f[i] = f[i - 1] \o q[i]
    <3>1. i - 1 \in 0 .. n /\ i \in 0 .. n
      BY <1>1
    <3> QED BY <1>4, <1>5, <3>1 DEF Recursion
  <2> QED BY <1>5, <2>1 DEF Recursion
<1>7. \A i \in 1 .. n : f[i] = IF i = 1 THEN q[i] ELSE f[i - 1] \o q[i]
  <2> TAKE i \in 1 .. n
  <2>1. CASE i = 1
    <3>1. f[i - 1] = <<>>
      BY <1>6, <2>1
    <3> QED BY <1>1, <1>3, <1>6, <2>1, <3>1
  <2>2. CASE i # 1
    BY <1>6, <2>2
  <2> QED BY <2>1, <2>2
<1>8. h = Body(h)
  <2> DEFINE g == [i \in 1 .. n |-> f[i]]
  <2>1. g = Body(g)
    <3>1. \A i \in 1 .. n : f[i] = IF i = 1 THEN q[i] ELSE g[i - 1] \o q[i]
      <4> TAKE i \in 1 .. n
      <4>1. CASE i = 1
        BY <1>7, <4>1
      <4>2. CASE i # 1
        <5>1. i - 1 \in 1 .. n
          BY <1>1, <4>2
        <5> QED BY <1>7, <4>2, <5>1
      <4> QED BY <4>1, <4>2
    <3> DEFINE b == [i \in 1 .. n |-> IF i = 1 THEN q[i] ELSE g[i - 1] \o q[i]]
    <3> HIDE DEF g
    <3>2. \A i \in 1 .. n : f[i] = b[i]
      BY <3>1
    <3>3. g = b
      <4> HIDE DEF b
      <4>1. b = [i \in 1 .. n |-> b[i]]
        BY DEF b
      <4> QED BY <3>2, <4>1 DEF g
    <3> QED BY <3>3
  <2> HIDE DEF g, Body
  <2> QED BY <2>1
<1>9. \A i \in 1 .. n : h[i] = IF i = 1 THEN q[i] ELSE h[i - 1] \o q[i]
  <2>1. \A g : \A i \in 1 .. n : Body(g)[i] = IF i = 1 THEN q[i] ELSE g[i - 1] \o q[i]
    OBVIOUS
  <2> HIDE DEF h, Body
  <2> QED BY <1>8, <2>1
<1> DEFINE P == {i \in 0 .. n : i = 0 \/ h[i] = f[i]}
<1>10. 0 .. n \subseteq P
  <2> HIDE DEF h, Body
  <2>1. 0 \in P
    BY <1>1
  <2>2. ASSUME NEW i \in 1 .. n, i - 1 \in P PROVE i \in P
    <3>1. CASE i = 1
      BY <1>1, <1>7, <1>9, <3>1
    <3>2. CASE i # 1
      BY <1>1, <1>7, <1>9, <2>2, <3>2
    <3> QED BY <3>1, <3>2
  <2> HIDE DEF P
  <2> QED BY <1>1, <2>1, <2>2, InductionUpTo
<1>11. FlattenSeq(q) = f[n]
  <2>1. CASE n = 0
    <3>1. q = <<>> /\ FlattenSeq(q) = q
      BY <2>1, EmptySeq DEF n, FlattenSeq
    <3> QED BY <1>6, <2>1, <3>1
  <2>2. CASE n # 0
    <3>1. FlattenSeq(q) = h[n]
      BY <2>2 DEF h, Body, FlattenSeq, n
    <3>2. n \in P
      <4> HIDE DEF P
      <4> QED BY <1>1, <1>10
    <3> QED BY <2>2, <3>1, <3>2
  <2> QED BY <2>1, <2>2
<1> QED BY <1>5, <1>6, <1>11 DEF Flattens, Recursion, T, n

\* What FlattenSeq makes of sequences that have no element in common.
LEMMA FlattenElements ==
  ASSUME NEW S, NEW q \in Seq(Seq(S))
  PROVE  /\ FlattenSeq(q) \in Seq(S)
         /\ Elements(FlattenSeq(q)) = UNION {Elements(q[i]) : i \in 1 .. Len(q)}
         /\ (\A i \in 1 .. Len(q) : Distinct(q[i]))
              /\ (\A i, j \in 1 .. Len(q) : i # j => Elements(q[i]) \cap Elements(q[j]) = {})
            => Distinct(FlattenSeq(q))
<1> DEFINE n == Len(q)
           T == Seq(S)
<1>1. n \in Nat /\ \A i \in 1 .. n : q[i] \in T
  BY LenProperties
<1>2. ASSUME NEW t \in T, NEW u \in T
      PROVE  /\ Elements(t \o u) = Elements(t) \cup Elements(u)
             /\ Distinct(t) /\ Distinct(u) /\ Elements(t) \cap Elements(u) = {} => Distinct(t \o u)
  BY ConcatElements
<1>3. PICK f \in [0 .. n -> T] : Flattens(f, q) /\ FlattenSeq(q) = f[n]
  BY FlattenUnfolds
<1>4. f[0] = <<>> /\ \A i \in 1 .. n : f[i - 1] \in T /\ f[i] \in T /\ f[i] = f[i - 1] \o q[i]
  <2>1. ASSUME NEW i \in 1 .. n PROVE i - 1 \in 0 .. n /\ i \in 0 .. n
    BY <1>1
  <2> HIDE DEF T
  <2> QED BY <1>3, <2>1 DEF Flattens
<1> DEFINE Apart == /\ \A i \in 1 .. n : Distinct(q[i])
                    /\ \A i, j \in 1 .. n : i # j => Elements(q[i]) \cap Elements(q[j]) = {}
           Good(t, k) == /\ Elements(t) = UNION {Elements(q[i]) : i \in 1 .. k}
                         /\ Apart => Distinct(t)
           P == {k \in 0 .. n : Good(f[k], k)}
<1> HIDE DEF T, n
<1>5. 0 .. n \subseteq P
  <2>1. 0 \in P
    <3>1. Good(<<>>, 0)
      BY EmptyElements
    <3> HIDE DEF Good
    <3> QED BY <1>1, <1>4, <3>1
  <2>2. ASSUME NEW k \in 1 .. n, k - 1 \in P PROVE k \in P
    <3>1. 1 .. k = (1 .. k - 1) \cup {k} /\ k \notin 1 .. k - 1 /\ k \in 0 .. n
          /\ 1 .. k - 1 \subseteq 1 .. n
      BY <1>1
    <3>2. f[k] = f[k - 1] \o q[k] /\ q[k] \in T /\ f[k - 1] \in T
      BY <1>1, <1>4
    <3>3. Good(f[k - 1], k - 1)
      BY <2>2
    <3>4. Elements(f[k]) = Elements(f[k - 1]) \cup Elements(q[k])
      BY <1>2, <3>2
    <3>5. Elements(f[k]) = UNION {Elements(q[i]) : i \in 1 .. k}
      BY <3>1, <3>3, <3>4
    <3>6. ASSUME Apart PROVE Distinct(f[k])
      <4>1. Elements(f[k - 1]) \cap Elements(q[k]) = {}
        <5> SUFFICES ASSUME NEW x \in Elements(f[k - 1]) PROVE x \notin Elements(q[k])
          OBVIOUS
        <5>1. PICK i \in 1 .. k - 1 : x \in Elements(q[i])
          BY <3>3
        <5>2. i \in 1 .. n /\ i # k
          BY <3>1
        <5> QED BY <3>6, <5>1, <5>2
      <4>2. Distinct(f[k - 1]) /\ Distinct(q[k])
        BY <3>3, <3>6
      <4> HIDE DEF Apart, Good
      <4> QED BY <1>2, <3>2, <4>1, <4>2
    <3> QED BY <3>1, <3>5, <3>6
  <2> HIDE DEF P
  <2> QED BY <1>1, <2>1, <2>2, InductionUpTo
<1>6. Good(f[n], n)
  <2>1. n \in P
    <3> HIDE DEF P
    <3> QED BY <1>1, <1>5
  <2> QED BY <2>1
<1>7. f[n] \in T
  BY <1>1, <1>3
<1> QED BY <1>3, <1>6, <1>7 DEF T, n

\* Where the parts of a concatenation begin: the part i behind o[i - 1].
PartsAt(o, q, t) ==
  /\ o[0] = 0 /\ Len(t) = o[Len(q)]
  /\ \A i \in 1 .. Len(q) : o[i] = o[i - 1] + Len(q[i])
  /\ \A i \in 1 .. Len(q) : \A j \in 1 .. Len(q[i]) :
       o[i - 1] + j \in 1 .. Len(t) /\ t[o[i - 1] + j] = q[i][j]
  /\ \A p \in 1 .. Len(t) :
       \E i \in 1 .. Len(q) : \E j \in 1 .. Len(q[i]) : p = o[i - 1] + j

LEMMA FlattenPlaces ==
  ASSUME NEW S, NEW q \in Seq(Seq(S))
  PROVE  /\ FlattenSeq(q) \in Seq(S)
         /\ \E o \in [0 .. Len(q) -> Nat] : PartsAt(o, q, FlattenSeq(q))
<1> DEFINE n == Len(q)
           T == Seq(S)
<1>1. n \in Nat /\ \A i \in 1 .. n : q[i] \in T
  BY LenProperties
<1>2. PICK f \in [0 .. n -> T] : Flattens(f, q) /\ FlattenSeq(q) = f[n]
  BY FlattenUnfolds
<1>3. f[0] = <<>> /\ \A i \in 1 .. n : f[i - 1] \in T /\ f[i] \in T /\ f[i] = f[i - 1] \o q[i]
  <2>1. ASSUME NEW i \in 1 .. n PROVE i - 1 \in 0 .. n /\ i \in 0 .. n
    BY <1>1
  <2> HIDE DEF T
  <2> QED BY <1>2, <2>1 DEF Flattens
<1> DEFINE o == [i \in 0 .. n |-> Len(f[i])]
           Good(k) == /\ \A i \in 1 .. k : \A j \in 1 .. Len(q[i]) :
                           o[i - 1] + j \in 1 .. Len(f[k]) /\ f[k][o[i - 1] + j] = q[i][j]
                      /\ \A p \in 1 .. Len(f[k]) :
                           \E i \in 1 .. k : \E j \in 1 .. Len(q[i]) : p = o[i - 1] + j
           P == {k \in 0 .. n : Good(k)}
<1>4. o \in [0 .. n -> Nat] /\ o[0] = 0 /\ \A i \in 0 .. n : o[i] = Len(f[i])
  <2>1. \A i \in 0 .. n : Len(f[i]) \in Nat
    BY LenProperties
  <2>2. Len(f[0]) = 0
    BY <1>3
  <2> QED BY <1>1, <2>1, <2>2
<1> HIDE DEF T, n, o
<1>5. \A i \in 1 .. n : i \in 0 .. n /\ i - 1 \in 0 .. n
  BY <1>1
<1>6. ASSUME NEW k \in 1 .. n
      PROVE  /\ o[k - 1] \in Nat /\ Len(q[k]) \in Nat /\ o[k] = o[k - 1] + Len(q[k])
             /\ Len(f[k - 1]) = o[k - 1] /\ Len(f[k]) = o[k]
             /\ \A i \in 1 .. o[k - 1] : i \in 1 .. Len(f[k]) /\ f[k][i] = f[k - 1][i]
             /\ \A j \in 1 .. Len(q[k]) :
                  o[k - 1] + j \in 1 .. Len(f[k]) /\ f[k][o[k - 1] + j] = q[k][j]
             /\ \A p \in 1 .. Len(f[k]) :
                  p \in 1 .. o[k - 1] \/ \E j \in 1 .. Len(q[k]) : p = o[k - 1] + j
  <2>1. f[k] = f[k - 1] \o q[k] /\ q[k] \in T /\ f[k - 1] \in T
    BY <1>1, <1>3
  <2>2. Len(f[k - 1]) = o[k - 1] /\ Len(f[k]) = o[k] /\ o[k - 1] \in Nat
    BY <1>4, <1>5
  <2> DEFINE Joint(c, a, b) ==
               /\ Len(b) \in Nat /\ Len(c) = Len(a) + Len(b)
               /\ \A i \in 1 .. Len(a) : i \in 1 .. Len(c) /\ c[i] = a[i]
               /\ \A j \in 1 .. Len(b) : Len(a) + j \in 1 .. Len(c) /\ c[Len(a) + j] = b[j]
               /\ \A p \in 1 .. Len(c) : p \in 1 .. Len(a) \/ \E j \in 1 .. Len(b) : p = Len(a) + j
  <2>3. \A a, b \in T : Joint(a \o b, a, b)
    <3> SUFFICES ASSUME NEW a \in T, NEW b \in T PROVE Joint(a \o b, a, b)
      OBVIOUS
    <3>1. a \in Seq(S) /\ b \in Seq(S)
      BY DEF T
    <3> DEFINE c == a \o b
    <3>2. /\ Len(b) \in Nat /\ Len(c) = Len(a) + Len(b)
          /\ \A i \in 1 .. Len(a) : i \in 1 .. Len(c) /\ c[i] = a[i]
          /\ \A j \in 1 .. Len(b) : Len(a) + j \in 1 .. Len(c) /\ c[Len(a) + j] = b[j]
          /\ \A p \in 1 .. Len(c) : p \in 1 .. Len(a) \/ \E j \in 1 .. Len(b) : p = Len(a) + j
      BY <3>1, ConcatPlaces
    <3> QED BY <3>2
  <2> HIDE DEF Joint
  <2>4. Joint(f[k], f[k - 1], q[k])
    BY <2>1, <2>3
  <2> USE DEF Joint
  <2> QED BY <2>2, <2>4
<1>7. 0 .. n \subseteq P
  <2>1. 0 \in P
    BY <1>1, <1>3
  <2>2. ASSUME NEW k \in 1 .. n, k - 1 \in P PROVE k \in P
    <3>0. k \in 0 .. n /\ \A i \in 1 .. k : i = k \/ i \in 1 .. k - 1
      BY <1>1
    <3>1. Good(k - 1)
      BY <2>2
    <3>2. ASSUME NEW i \in 1 .. k, NEW j \in 1 .. Len(q[i])
          PROVE  o[i - 1] + j \in 1 .. Len(f[k]) /\ f[k][o[i - 1] + j] = q[i][j]
      <4>1. CASE i = k
        BY <1>6, <4>1
      <4>2. CASE i \in 1 .. k - 1
        <5>1. o[i - 1] + j \in 1 .. Len(f[k - 1]) /\ f[k - 1][o[i - 1] + j] = q[i][j]
          BY <3>1, <4>2
        <5> QED BY <1>6, <5>1
      <4> QED BY <3>0, <4>1, <4>2
    <3>3. ASSUME NEW p \in 1 .. Len(f[k])
          PROVE  \E i \in 1 .. k : \E j \in 1 .. Len(q[i]) : p = o[i - 1] + j
      <4>1. CASE p \in 1 .. o[k - 1]
        <5>1. p \in 1 .. Len(f[k - 1])
          BY <1>6, <4>1
        <5>2. PICK i \in 1 .. k - 1 : \E j \in 1 .. Len(q[i]) : p = o[i - 1] + j
          BY <3>1, <5>1
        <5>3. i \in 1 .. k
          BY <1>1
        <5> QED BY <5>2, <5>3
      <4>2. CASE \E j \in 1 .. Len(q[k]) : p = o[k - 1] + j
        <5>1. k \in 1 .. k
          BY <1>1
        <5> QED BY <4>2, <5>1
      <4> QED BY <1>6, <4>1, <4>2
    <3> QED BY <3>0, <3>2, <3>3
  <2> HIDE DEF P
  <2> QED BY <1>1, <2>1, <2>2, InductionUpTo
<1>8. n \in P
  <2> HIDE DEF P
  <2> QED BY <1>1, <1>7
<1>9. Good(n) /\ Len(f[n]) = o[n]
  BY <1>1, <1>4, <1>8
<1> HIDE DEF P
<1>10. PartsAt(o, q, f[n])
  BY <1>4, <1>6, <1>9 DEF PartsAt, n
<1>11. f[n] \in T
  BY <1>1, <1>2
<1> QED BY <1>2, <1>4, <1>10, <1>11 DEF n, T

LEMMA FilterElements ==
  ASSUME NEW S, NEW s \in Seq(S), NEW T
  PROVE  /\ Filter(s, T) \in Seq(S) /\ Elements(Filter(s, T)) = Elements(s) \cap T
         /\ Distinct(s) => Distinct(Filter(s, T))
<1> DEFINE t == Filter(s, T)
<1>1. /\ t \in Seq(S) /\ PartOf(t, s)
      /\ \A j \in 1 .. Len(t) : t[j] \in T
      /\ \A i \in 1 .. Len(s) : s[i] \in T => \E j \in 1 .. Len(t) : t[j] = s[i]
  BY FilterIsPart
<1> HIDE DEF t
<1>2. PICK e \in [1 .. Len(t) -> 1 .. Len(s)] :
        /\ \A i, j \in 1 .. Len(t) : e[i] = e[j] => i = j
        /\ \A j \in 1 .. Len(t) : t[j] = s[e[j]]
  BY <1>1 DEF PartOf
<1>3. Elements(t) = Elements(s) \cap T
  <2>1. ASSUME NEW j \in 1 .. Len(t) PROVE t[j] \in Elements(s) \cap T
    BY <1>1, <1>2 DEF Elements
  <2>2. ASSUME NEW i \in 1 .. Len(s), s[i] \in T PROVE s[i] \in Elements(t)
    BY <1>1, <2>2 DEF Elements
  <2> QED BY <2>1, <2>2 DEF Elements
<1>4. ASSUME Distinct(s) PROVE Distinct(t)
  <2> SUFFICES ASSUME NEW i \in 1 .. Len(t), NEW j \in 1 .. Len(t), t[i] = t[j]
               PROVE  i = j
    BY DEF Distinct
  <2>1. e[i] \in 1 .. Len(s) /\ e[j] \in 1 .. Len(s) /\ s[e[i]] = s[e[j]]
    BY <1>2
  <2> QED BY <1>2, <1>4, <2>1 DEF Distinct
<1> QED BY <1>1, <1>3, <1>4 DEF t

LEMMA AppendElements ==
  ASSUME NEW S, NEW s \in Seq(S), NEW x \in S
  PROVE  /\ Append(s, x) \in Seq(S) /\ Elements(Append(s, x)) = Elements(s) \cup {x}
         /\ Distinct(s) /\ x \notin Elements(s) => Distinct(Append(s, x))
<1>1. Append(s, x) = s \o <<x>>
  BY AppendIsConcat
<1>2. /\ <<x>> \in Seq(S) /\ Elements(<<x>>) = {x} /\ Distinct(<<x>>)
  BY DEF Elements, Distinct
<1>3. /\ Elements(s \o <<x>>) = Elements(s) \cup Elements(<<x>>)
      /\ Distinct(s) /\ Distinct(<<x>>) /\ Elements(s) \cap Elements(<<x>>) = {} => Distinct(s \o <<x>>)
      /\ s \o <<x>> \in Seq(S)
  BY <1>2, ConcatElements, ConcatProperties, ZenonT(30)
<1> QED BY <1>1, <1>2, <1>3

\* The first of distinct elements is not among the rest.
LEMMA HeadAndRest ==
  ASSUME NEW S, NEW s \in Seq(S), s # <<>>, Distinct(s)
  PROVE  /\ Head(s) \in S /\ Tail(s) \in Seq(S) /\ Distinct(Tail(s))
         /\ Head(s) \in Elements(s) /\ Elements(Tail(s)) = Elements(s) \ {Head(s)}
<1>1. /\ Head(s) = s[1] /\ Tail(s) \in Seq(S) /\ Len(s) \in Nat /\ Len(s) # 0
      /\ Len(Tail(s)) = Len(s) - 1
      /\ \A i \in 1 .. Len(s) - 1 : Tail(s)[i] = s[i + 1]
  BY LenProperties, HeadTailProperties, EmptySeq
<1>2. 1 \in 1 .. Len(s) /\ \A i \in 1 .. Len(s) : s[i] \in S
  BY <1>1
<1>3. \A i \in 1 .. Len(s) - 1 : i + 1 \in 1 .. Len(s) /\ i + 1 # 1
  BY <1>1
<1>4. Distinct(Tail(s))
  <2> SUFFICES ASSUME NEW i \in 1 .. Len(s) - 1, NEW j \in 1 .. Len(s) - 1, s[i + 1] = s[j + 1]
               PROVE  i = j
    BY <1>1 DEF Distinct
  <2>1. i + 1 = j + 1
    BY <1>3 DEF Distinct
  <2> QED BY <2>1
<1>5. ASSUME NEW i \in 1 .. Len(s) - 1 PROVE Tail(s)[i] \in Elements(s) \ {Head(s)}
  <2>1. Tail(s)[i] = s[i + 1] /\ i + 1 \in 1 .. Len(s) /\ s[i + 1] # s[1]
    BY <1>1, <1>2, <1>3 DEF Distinct
  <2> QED BY <1>1, <2>1 DEF Elements
<1>6. ASSUME NEW i \in 1 .. Len(s), s[i] # s[1] PROVE s[i] \in Elements(Tail(s))
  <2>1. i - 1 \in 1 .. Len(s) - 1 /\ (i - 1) + 1 = i
    BY <1>1, <1>6
  <2>2. Tail(s)[i - 1] = s[i]
    BY <1>1, <2>1
  <2> QED BY <1>1, <2>1, <2>2 DEF Elements
<1>7. Elements(Tail(s)) = Elements(s) \ {Head(s)}
  BY <1>1, <1>5, <1>6, SMTT(30) DEF Elements
<1> QED BY <1>1, <1>2, <1>4, <1>7 DEF Elements

\* A sequence that SetToSeqs makes of a finite set.
LEMMA OrderingIs ==
  ASSUME NEW S, IsFiniteSet(S), NEW order \in SetToSeqs(S)
  PROVE  order \in Seq(S) /\ Distinct(order) /\ Elements(order) = S
<1> DEFINE n == Cardinality(S)
           D == 1 .. n
<1>1. n \in Nat
  BY FS_CardinalityType
<1>2. order \in [D -> S] /\ \A i, j \in D : i # j => order[i] # order[j]
  BY Zenon DEF SetToSeqs
<1>3. IsFiniteSet(D) /\ Cardinality(D) = n
  <2>1. /\ IsFiniteSet(1 .. n)
        /\ Cardinality(1 .. n) = IF 1 > n THEN 0 ELSE n - 1 + 1
    BY <1>1, FS_Interval
  <2>2. (IF 1 > n THEN 0 ELSE n - 1 + 1) = n
    BY <1>1
  <2> QED BY <2>1, <2>2
<1> HIDE DEF n, D
<1>4. order \in Surjection(D, S)
  <2>1. order \in Injection(D, S)
    BY <1>2 DEF Injection, IsInjective
  <2>2. Cardinality(D) = Cardinality(S) <=> order \in Surjection(D, S)
    BY <2>1, FS_Injection
  <2> QED BY <1>3, <2>2 DEF n
<1>5. order \in Seq(S) /\ Len(order) = n
  BY <1>1, <1>2 DEF D
<1>6. Distinct(order)
  BY <1>2, <1>5 DEF Distinct, D
<1>7. \A x \in S : \E i \in D : order[i] = x
  BY <1>4 DEF Surjection
<1>8. Elements(order) = S
  BY <1>2, <1>5, <1>7 DEF Elements, D
<1> QED BY <1>5, <1>6, <1>8

LEMMA FiniteElements ==
  ASSUME NEW S, NEW q \in Seq(S)
  PROVE  IsFiniteSet(ToSet(q))
<1>1. Len(q) \in Nat /\ ToSet(q) = {q[i] : i \in 1 .. Len(q)}
  BY LenProperties DEF ToSet
<1>2. IsFiniteSet(1 .. Len(q))
  BY <1>1, FS_Interval
<1> DEFINE f == [i \in 1 .. Len(q) |-> q[i]]
<1>3. f \in Surjection(1 .. Len(q), ToSet(q))
  BY <1>1 DEF Surjection
<1> HIDE DEF f
<1> QED BY <1>2, <1>3, FS_Surjection

\* Associativity of concatenation, behind a name for the provers.
Regrouped(a, b, c) == (a \o b) \o c = a \o (b \o c)

LEMMA Regroup ==
  ASSUME NEW S, NEW a \in Seq(S), NEW b \in Seq(S), NEW c \in Seq(S)
  PROVE  Regrouped(a, b, c)
BY ConcatAssociative DEF Regrouped

-----------------------------------------------------------------------------
(* Induction over the subsets of a finite set. *)
LEMMA SubsetInduction ==
  ASSUME NEW S, IsFiniteSet(S), NEW P, {} \in P,
         \A T \in SUBSET S : T # {} /\ (\A x \in T : T \ {x} \in P) => T \in P
  PROVE  SUBSET S \subseteq P
<1> DEFINE Q == {n \in Nat : \A T \in SUBSET S : Cardinality(T) = n => T \in P}
<1>1. ASSUME NEW T \in SUBSET S
      PROVE  /\ IsFiniteSet(T) /\ Cardinality(T) \in Nat /\ (Cardinality(T) = 0 <=> T = {})
             /\ \A x \in T : Cardinality(T \ {x}) = Cardinality(T) - 1
  BY FS_Subset, FS_CardinalityType, FS_EmptySet, FS_RemoveElement
<1>2. 0 \in Q
  BY <1>1
<1>3. ASSUME NEW n \in Nat, n \in Q PROVE n + 1 \in Q
  <2> SUFFICES ASSUME NEW T \in SUBSET S, Cardinality(T) = n + 1 PROVE T \in P
    OBVIOUS
  <2>1. T # {}
    BY <1>1
  <2>2. ASSUME NEW x \in T PROVE T \ {x} \in P
    <3>1. T \ {x} \in SUBSET S /\ Cardinality(T \ {x}) = n
      BY <1>1
    <3> QED BY <1>3, <3>1
  <2> QED BY <2>1, <2>2
<1> HIDE DEF Q
<1>4. Nat \subseteq Q
  BY <1>2, <1>3, Induction
<1> USE DEF Q
<1> QED BY <1>1, <1>4

(* The partial results of Total. *)
Sums(g, f, S) ==
  \A T \in SUBSET S : g[T] = IF T = {} THEN 0 ELSE f[One(T)] + g[T \ {One(T)}]

LEMMA OneIsIn ==
  ASSUME NEW T, T # {}
  PROVE  One(T) \in T
BY DEF One

LEMMA SumsExist ==
  ASSUME NEW S, IsFiniteSet(S), NEW f, \A x \in S : f[x] \in Nat
  PROVE  \E g \in [SUBSET S -> Nat] : Sums(g, f, S)
<1> DEFINE UpTo(g, n) == \A T \in SUBSET S : Cardinality(T) <= n =>
                           g[T] = IF T = {} THEN 0 ELSE f[One(T)] + g[T \ {One(T)}]
           P == {n \in Nat : \E g \in [SUBSET S -> Nat] : UpTo(g, n)}
<1>1. ASSUME NEW T \in SUBSET S
      PROVE  /\ Cardinality(T) \in Nat /\ (Cardinality(T) = 0 <=> T = {})
             /\ \A x \in T : Cardinality(T \ {x}) = Cardinality(T) - 1
             /\ Cardinality(T) <= Cardinality(S)
  BY FS_Subset, FS_CardinalityType, FS_EmptySet, FS_RemoveElement
<1>2. 0 \in P
  <2> DEFINE g == [T \in SUBSET S |-> 0]
  <2>1. g \in [SUBSET S -> Nat] /\ \A T \in SUBSET S : g[T] = 0
    OBVIOUS
  <2> HIDE DEF g
  <2>2. UpTo(g, 0)
    <3> SUFFICES ASSUME NEW T \in SUBSET S, Cardinality(T) <= 0
                 PROVE  g[T] = 0 /\ T = {}
      OBVIOUS
    <3> QED BY <1>1, <2>1
  <2> HIDE DEF UpTo
  <2> QED BY <2>1, <2>2
<1>3. ASSUME NEW n \in Nat, n \in P PROVE n + 1 \in P
  <2>1. PICK g \in [SUBSET S -> Nat] : UpTo(g, n)
    BY <1>3
  <2> DEFINE v(T) == f[One(T)] + g[T \ {One(T)}]
             h == [T \in SUBSET S |-> IF Cardinality(T) = n + 1 THEN v(T) ELSE g[T]]
  <2>2. ASSUME NEW T \in SUBSET S, T # {}
        PROVE  v(T) \in Nat /\ One(T) \in T /\ T \ {One(T)} \in SUBSET S
    <3>1. One(T) \in T /\ One(T) \in S /\ T \ {One(T)} \in SUBSET S
      BY <2>2, OneIsIn
    <3>2. f[One(T)] \in Nat /\ g[T \ {One(T)}] \in Nat
      BY <3>1
    <3> QED BY <3>1, <3>2
  <2>3. h \in [SUBSET S -> Nat]
    <3> SUFFICES ASSUME NEW T \in SUBSET S
                 PROVE  (IF Cardinality(T) = n + 1 THEN v(T) ELSE g[T]) \in Nat
      OBVIOUS
    <3>1. CASE Cardinality(T) = n + 1
      <4>1. T # {}
        BY <1>1, <3>1
      <4> HIDE DEF v
      <4> QED BY <2>2, <3>1, <4>1
    <3>2. CASE Cardinality(T) # n + 1
      BY <3>2
    <3> QED BY <3>1, <3>2
  <2>4. \A T \in SUBSET S : h[T] = IF Cardinality(T) = n + 1 THEN v(T) ELSE g[T]
    OBVIOUS
  <2> HIDE DEF h
  <2>5. UpTo(h, n + 1)
    <3> SUFFICES ASSUME NEW T \in SUBSET S, Cardinality(T) <= n + 1
                 PROVE  h[T] = IF T = {} THEN 0 ELSE f[One(T)] + h[T \ {One(T)}]
      OBVIOUS
    <3>1. CASE T = {}
      <4>1. Cardinality(T) = 0 /\ Cardinality(T) <= n /\ Cardinality(T) # n + 1
        BY <1>1, <3>1
      <4>2. g[T] = 0
        BY <2>1, <3>1, <4>1
      <4> QED BY <2>4, <3>1, <4>1, <4>2
    <3>2. CASE T # {}
      <4> DEFINE U == T \ {One(T)}
      <4>1. U \in SUBSET S /\ Cardinality(U) = Cardinality(T) - 1 /\ Cardinality(T) \in Nat
        BY <1>1, <2>2, <3>2
      <4>2. h[U] = g[U]
        <5> HIDE DEF U, v
        <5>1. Cardinality(U) # n + 1
          BY <4>1
        <5>2. h[U] = IF Cardinality(U) = n + 1 THEN v(U) ELSE g[U]
          BY <2>4, <4>1
        <5> QED BY <5>1, <5>2
      <4>3. h[T] = f[One(T)] + g[U]
        <5>1. CASE Cardinality(T) = n + 1
          BY <2>4, <5>1
        <5>2. CASE Cardinality(T) # n + 1
          <6>1. Cardinality(T) <= n
            BY <4>1, <5>2
          <6>2. h[T] = g[T]
            BY <2>4, <5>2
          <6> QED BY <2>1, <3>2, <6>1, <6>2
        <5> QED BY <5>1, <5>2
      <4> QED BY <3>2, <4>2, <4>3
    <3> QED BY <3>1, <3>2
  <2> HIDE DEF UpTo
  <2> QED BY <2>3, <2>5
<1> HIDE DEF P
<1>4. Nat \subseteq P
  BY <1>2, <1>3, Induction
<1>5. Cardinality(S) \in P
  BY <1>4, FS_CardinalityType
<1>6. PICK g \in [SUBSET S -> Nat] : UpTo(g, Cardinality(S))
  BY <1>5 DEF P
<1>7. Sums(g, f, S)
  BY <1>1, <1>6 DEF Sums
<1> QED BY <1>7

(* Two functions that agree on U have the same partial results there. *)
LEMMA SumsAgree ==
  ASSUME NEW S, NEW R, NEW U, U \subseteq S, U \subseteq R, IsFiniteSet(U),
         NEW e, NEW f, \A x \in U : e[x] = f[x],
         NEW g, NEW h, Sums(g, e, S), Sums(h, f, R)
  PROVE  g[U] = h[U]
<1> DEFINE P == {T \in SUBSET U : g[T] = h[T]}
<1>1. {} \in P
  BY DEF Sums
<1>2. ASSUME NEW T \in SUBSET U, T # {}, \A x \in T : T \ {x} \in P PROVE T \in P
  <2>1. One(T) \in T /\ T \in SUBSET S /\ T \in SUBSET R
    BY <1>2, OneIsIn
  <2>2. e[One(T)] = f[One(T)] /\ g[T \ {One(T)}] = h[T \ {One(T)}]
    BY <1>2, <2>1
  <2>3. g[T] = e[One(T)] + g[T \ {One(T)}] /\ h[T] = f[One(T)] + h[T \ {One(T)}]
    BY <1>2, <2>1 DEF Sums
  <2> QED BY <2>2, <2>3
<1> HIDE DEF P
<1>3. SUBSET U \subseteq P
  BY <1>1, <1>2, SubsetInduction
<1>4. U \in P
  BY <1>3
<1> QED BY <1>4 DEF P

LEMMA TotalUnfolds ==
  ASSUME NEW S, IsFiniteSet(S), NEW f, \A x \in S : f[x] \in Nat
  PROVE  \E g \in [SUBSET S -> Nat] : Sums(g, f, S) /\ Total(f, S) = g[S]
<1> DEFINE Body(g) == [T \in SUBSET S |-> IF T = {} THEN 0 ELSE f[One(T)] + g[T \ {One(T)}]]
           h == CHOOSE g : g = Body(g)
<1>1. PICK g \in [SUBSET S -> Nat] : Sums(g, f, S)
  BY SumsExist
<1>2. g = Body(g)
  <2>1. g = [T \in SUBSET S |-> g[T]]
    OBVIOUS
  <2>2. \A T \in SUBSET S : g[T] = Body(g)[T]
    BY <1>1 DEF Sums
  <2>3. Body(g) = [T \in SUBSET S |-> Body(g)[T]]
    OBVIOUS
  <2> HIDE DEF Body
  <2> QED BY <2>1, <2>2, <2>3
<1>3. h = Body(h)
  <2> HIDE DEF Body
  <2> QED BY <1>2
<1>4. Sums(h, f, S)
  <2>1. \A k : \A T \in SUBSET S :
          Body(k)[T] = IF T = {} THEN 0 ELSE f[One(T)] + k[T \ {One(T)}]
    OBVIOUS
  <2> HIDE DEF Body, h
  <2> QED BY <1>3, <2>1 DEF Sums
<1>5. Total(f, S) = h[S]
  BY DEF Total
<1>6. h[S] = g[S]
  <2> HIDE DEF h
  <2> QED BY <1>1, <1>4, SumsAgree
<1>7. Total(f, S) = g[S]
  <2> HIDE DEF h
  <2> QED BY <1>5, <1>6
<1> QED BY <1>1, <1>7

(* The recursion that Total is: each partial result is a total. *)
LEMMA TotalParts ==
  ASSUME NEW S, IsFiniteSet(S), NEW f, \A x \in S : f[x] \in Nat, NEW T \in SUBSET S
  PROVE  /\ Total(f, T) \in Nat
         /\ Total(f, T) = IF T = {} THEN 0 ELSE f[One(T)] + Total(f, T \ {One(T)})
<1>1. PICK g \in [SUBSET S -> Nat] : Sums(g, f, S)
  BY SumsExist
<1>2. ASSUME NEW U \in SUBSET S PROVE Total(f, U) = g[U]
  <2>1. IsFiniteSet(U) /\ \A x \in U : f[x] \in Nat
    BY FS_Subset
  <2>2. PICK h \in [SUBSET U -> Nat] : Sums(h, f, U) /\ Total(f, U) = h[U]
    BY <2>1, TotalUnfolds
  <2>3. h[U] = g[U]
    BY <1>1, <2>1, <2>2, SumsAgree
  <2> QED BY <2>2, <2>3
<1>3. g[T] \in Nat /\ g[T] = IF T = {} THEN 0 ELSE f[One(T)] + g[T \ {One(T)}]
  BY <1>1 DEF Sums
<1>4. T \ {One(T)} \in SUBSET S
  OBVIOUS
<1> QED BY <1>2, <1>3, <1>4

(* The elements may be added in any order. *)
LEMMA TotalRemove ==
  ASSUME NEW S, IsFiniteSet(S), NEW f, \A x \in S : f[x] \in Nat, NEW y \in S
  PROVE  /\ Total(f, S) \in Nat /\ Total(f, S \ {y}) \in Nat
         /\ Total(f, S) = f[y] + Total(f, S \ {y})
<1> DEFINE P == {T \in SUBSET S : \A x \in T : Total(f, T) = f[x] + Total(f, T \ {x})}
<1>1. ASSUME NEW T \in SUBSET S
      PROVE  /\ Total(f, T) \in Nat
             /\ T # {} => Total(f, T) = f[One(T)] + Total(f, T \ {One(T)})
  <2>1. /\ Total(f, T) \in Nat
        /\ Total(f, T) = IF T = {} THEN 0 ELSE f[One(T)] + Total(f, T \ {One(T)})
    BY TotalParts
  <2> QED BY <2>1
<1>2. {} \in P
  OBVIOUS
<1>3. ASSUME NEW T \in SUBSET S, T # {}, \A x \in T : T \ {x} \in P PROVE T \in P
  <2> SUFFICES ASSUME NEW x \in T PROVE Total(f, T) = f[x] + Total(f, T \ {x})
    OBVIOUS
  <2> DEFINE c == One(T)
             U == T \ {c}
             V == T \ {x}
             W == (T \ {c}) \ {x}
  <2>1. c \in T /\ U \in SUBSET S /\ V \in SUBSET S /\ W \in SUBSET S
    BY <1>3, OneIsIn
  <2>2. Total(f, T) = f[c] + Total(f, U)
    BY <1>1, <1>3
  <2>3. CASE x = c
    BY <2>2, <2>3
  <2>4. CASE x # c
    <3>1. x \in U /\ c \in V /\ W = V \ {c}
      BY <2>1, <2>4
    <3>2. Total(f, U) = f[x] + Total(f, W)
      BY <1>3, <2>1, <3>1
    <3>3. Total(f, V) = f[c] + Total(f, V \ {c})
      BY <1>3, <3>1
    <3>4. f[c] \in Nat /\ f[x] \in Nat /\ Total(f, W) \in Nat
      BY <1>1, <2>1
    <3> HIDE DEF c, U, V, W
    <3>5. Total(f, T) = f[x] + Total(f, V)
      BY <2>2, <3>1, <3>2, <3>3, <3>4
    <3> QED BY <3>5 DEF V
  <2> QED BY <2>3, <2>4
<1> HIDE DEF P
<1>4. SUBSET S \subseteq P
  BY <1>2, <1>3, SubsetInduction
<1>5. S \in P /\ S \ {y} \in SUBSET S
  BY <1>4
<1> QED BY <1>1, <1>5 DEF P

LEMMA TotalSame ==
  ASSUME NEW S, IsFiniteSet(S), NEW e, NEW f, \A x \in S : e[x] \in Nat /\ f[x] = e[x]
  PROVE  Total(e, S) = Total(f, S)
<1>1. PICK g \in [SUBSET S -> Nat] : Sums(g, e, S) /\ Total(e, S) = g[S]
  BY TotalUnfolds
<1>2. PICK h \in [SUBSET S -> Nat] : Sums(h, f, S) /\ Total(f, S) = h[S]
  BY TotalUnfolds
<1>3. g[S] = h[S]
  BY <1>1, <1>2, SumsAgree
<1> QED BY <1>1, <1>2, <1>3

(* One value changes. *)
ChangesAt(e, f, S, y) ==
  /\ y \in S
  /\ \A x \in S : e[x] \in Nat /\ f[x] \in Nat
  /\ \A x \in S \ {y} : f[x] = e[x]

LEMMA TotalChange ==
  ASSUME NEW S, IsFiniteSet(S), NEW e, NEW f, NEW y, ChangesAt(e, f, S, y)
  PROVE  /\ Total(e, S) \in Nat /\ Total(f, S) \in Nat /\ e[y] <= Total(e, S)
         /\ Total(f, S) = Total(e, S) - e[y] + f[y]
<1> USE DEF ChangesAt
<1> DEFINE R == S \ {y}
<1>1. /\ Total(e, S) \in Nat /\ Total(e, R) \in Nat /\ Total(e, S) = e[y] + Total(e, R)
      /\ Total(f, S) \in Nat /\ Total(f, R) \in Nat /\ Total(f, S) = f[y] + Total(f, R)
  BY TotalRemove
<1>2. IsFiniteSet(R) /\ \A x \in R : e[x] \in Nat /\ f[x] = e[x]
  BY FS_RemoveElement
<1>3. Total(e, R) = Total(f, R)
  BY <1>2, TotalSame
<1>4. e[y] \in Nat /\ f[y] \in Nat
  OBVIOUS
<1> HIDE DEF R
<1> QED BY <1>1, <1>3, <1>4

(* Several values become zero. *)
LEMMA TotalZeroed ==
  ASSUME NEW S, IsFiniteSet(S), NEW e, NEW f, NEW G \in SUBSET S,
         \A x \in S : e[x] \in Nat /\ f[x] = IF x \in G THEN 0 ELSE e[x]
  PROVE  /\ Total(e, S) \in Nat /\ Total(f, S) \in Nat /\ Total(e, G) \in Nat
         /\ Total(e, S) = Total(e, G) + Total(f, S)
<1> DEFINE Without(T) == [x \in S |-> IF x \in T THEN 0 ELSE e[x]]
           P == {T \in SUBSET G : Total(e, S) = Total(e, T) + Total(Without(T), S)}
<1>1. ASSUME NEW T \in SUBSET S
      PROVE  /\ IsFiniteSet(T) /\ \A x \in S : Without(T)[x] \in Nat
             /\ Total(e, T) \in Nat /\ Total(Without(T), S) \in Nat
  <2>1. IsFiniteSet(T) /\ \A x \in S : Without(T)[x] \in Nat
    BY FS_Subset
  <2>2. Total(e, T) \in Nat
    BY TotalParts
  <2>3. S \in SUBSET S
    OBVIOUS
  <2> DEFINE w == Without(T)
  <2>4. \A x \in S : w[x] \in Nat
    BY <2>1
  <2> HIDE DEF w
  <2>5. Total(w, S) \in Nat
    BY <2>3, <2>4, TotalParts
  <2> QED BY <2>1, <2>2, <2>5 DEF w
<1>2. {} \in P
  <2> DEFINE w == Without({})
  <2>1. \A x \in S : e[x] \in Nat /\ w[x] = e[x]
    OBVIOUS
  <2> HIDE DEF w
  <2>2. Total(e, S) = Total(w, S)
    BY <2>1, TotalSame
  <2>3. Total(e, {}) = 0 /\ Total(e, S) \in Nat
    BY TotalParts
  <2>4. Total(e, S) = Total(e, {}) + Total(w, S)
    BY <2>2, <2>3
  <2> QED BY <2>4 DEF w
<1>3. ASSUME NEW T \in SUBSET G, T # {}, \A x \in T : T \ {x} \in P PROVE T \in P
  <2> DEFINE y == One(T)
             U == T \ {y}
             v == Without(U)
             w == Without(T)
  <2>1. y \in T /\ y \in S /\ U \in SUBSET S /\ T \in SUBSET S
    BY <1>3, OneIsIn
  <2>2. Total(e, S) = Total(e, U) + Total(v, S)
    BY <1>3, <2>1
  <2>3. IsFiniteSet(T) /\ \A x \in T : e[x] \in Nat
    BY <1>1, <2>1
  <2>4. Total(e, T) = e[y] + Total(e, U)
    BY <2>1, <2>3, TotalRemove
  <2>5. /\ v[y] = e[y] /\ w[y] = 0 /\ \A x \in S \ {y} : w[x] = v[x]
        /\ \A x \in S : v[x] \in Nat /\ w[x] \in Nat
    BY <1>1, <2>1
  <2> HIDE DEF v, w
  <2> HIDE DEF y
  <2>6. Total(v, S) \in Nat /\ Total(w, S) \in Nat /\ Total(w, S) = Total(v, S) - v[y] + w[y]
    <3>1. y \in S /\ (\A x \in S : v[x] \in Nat /\ w[x] \in Nat)
      BY <2>1, <2>5
    <3>2. \A x \in S \ {y} : w[x] = v[x]
      BY <2>5
    <3>3. ChangesAt(v, w, S, y)
      BY <3>1, <3>2 DEF ChangesAt
    <3> QED BY <3>3, TotalChange
  <2>7. Total(e, U) \in Nat /\ e[y] \in Nat
    BY <1>1, <2>1
  <2> HIDE DEF U, y
  <2>8. Total(e, S) = Total(e, T) + Total(w, S)
    BY <2>2, <2>4, <2>5, <2>6, <2>7
  <2> QED BY <2>8 DEF w
<1> HIDE DEF P
<1>4. SUBSET G \subseteq P
  BY <1>1, <1>2, <1>3, SubsetInduction
<1>5. Total(e, S) = Total(e, G) + Total(Without(G), S)
  BY <1>4 DEF P
<1> DEFINE w == Without(G)
<1>6. \A x \in S : w[x] \in Nat /\ f[x] = w[x]
  OBVIOUS
<1>7. Total(e, S) = Total(e, G) + Total(w, S) /\ Total(e, G) \in Nat /\ Total(w, S) \in Nat
  BY <1>1, <1>5
<1> HIDE DEF w
<1>8. Total(w, S) = Total(f, S)
  BY <1>6, TotalSame
<1> QED BY <1>7, <1>8
=============================================================================
