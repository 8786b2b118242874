----------------------------- MODULE RespProofs -----------------------------
(***************************************************************************)
(* Proofs about RespStream and its parser, for any arguments (also such as *)
(* look like the protocol), any pieces and any wrong byte.  The argument:  *)
(* whatever follows it, the bytes of a request are parsed to the request,  *)
(* and a beginning of them, or of them with a wrong byte to come, is found *)
(* incomplete; so the buffer always begins where a request begins.         *)
(***************************************************************************)
EXTENDS RespStream, DataLemmas

Figure == DOMAIN Digit

\* The bytes of a stream.
Sign == {"*", "$", "\r", "\n", "\"", "\\", " ", "x"}

Byte == (UNION {ToSet(arg) : arg \in Argument}) \cup Figure \cup Sign

LEMMA SignsAreBytes == Sign \subseteq Byte /\ Figure \subseteq Byte
BY DEF Byte

-----------------------------------------------------------------------------
(* Numbers and their digits. *)

LEMMA TheFigures ==
  /\ Figure = {"0", "1", "2", "3", "4", "5", "6", "7", "8", "9"}
  /\ \A d \in Figure : Digit[d] \in Nat /\ Digit[d] <= 9 /\ d # "-" /\ d # "\r" /\ d # "\n"
  /\ \A k \in 0 .. 9 : DigitOf(k) \in Figure /\ Digit[DigitOf(k)] = k
<1>1. Figure = {"0", "1", "2", "3", "4", "5", "6", "7", "8", "9"}
  BY DEF Figure, Digit
<1>2. /\ Digit["0"] = 0 /\ Digit["1"] = 1 /\ Digit["2"] = 2 /\ Digit["3"] = 3 /\ Digit["4"] = 4
      /\ Digit["5"] = 5 /\ Digit["6"] = 6 /\ Digit["7"] = 7 /\ Digit["8"] = 8 /\ Digit["9"] = 9
  BY DEF Digit
<1>3. \A d \in Figure : Digit[d] \in 0 .. 9
  <2>1. \A d \in Figure : \/ d = "0" \/ d = "1" \/ d = "2" \/ d = "3" \/ d = "4"
                          \/ d = "5" \/ d = "6" \/ d = "7" \/ d = "8" \/ d = "9"
    BY <1>1
  <2> HIDE DEF Figure
  <2> TAKE d \in Figure
  <2> QED BY <1>2, <2>1
<1>4. \A d \in Figure : d # "-" /\ d # "\r" /\ d # "\n"
  BY <1>1
<1>5. \A k \in 0 .. 9 : k = 0 \/ k = 1 \/ k = 2 \/ k = 3 \/ k = 4 \/ k = 5 \/ k = 6 \/ k = 7 \/ k = 8 \/ k = 9
  OBVIOUS
<1>6. \A k \in 0 .. 9 : \E d \in Figure : Digit[d] = k
  BY <1>1, <1>2, <1>5
<1>7. \A k \in 0 .. 9 : DigitOf(k) \in Figure /\ Digit[DigitOf(k)] = k
  BY <1>6 DEF DigitOf, Figure
<1>8. \A d \in Figure : Digit[d] \in Nat /\ Digit[d] <= 9
  <2> HIDE DEF Figure
  <2> QED BY <1>3
<1> QED BY <1>1, <1>4, <1>7, <1>8

LEMMA Tenth ==
  ASSUME NEW k \in Nat, ~(k < 10)
  PROVE  k \div 10 \in 0 .. k - 1 /\ k % 10 \in 0 .. 9 /\ 10 * (k \div 10) + (k % 10) = k
<1>1. k \in Int /\ k \div 10 \in Int
  OBVIOUS
<1>2. k % 10 = k - 10 * (k \div 10)
  BY <1>1
<1>3. k % 10 \in 0 .. 9
  OBVIOUS
<1> DEFINE q == k \div 10
           m == k % 10
<1>4. k \in Int /\ q \in Int /\ m \in Int /\ m = k - 10 * q /\ m >= 0 /\ m <= 9 /\ k >= 10
  BY <1>1, <1>2, <1>3
<1> HIDE DEF q, m
<1>5. q \in 0 .. k - 1 /\ 10 * q + m = k
  BY <1>4
<1> QED BY <1>3, <1>5 DEF q, m

\* The texts of the numbers up to n.
IsDigits(f, n) ==
  \A k \in 0 .. n : f[k] = IF k < 10 THEN <<DigitOf(k)>> ELSE Append(f[k \div 10], DigitOf(k % 10))

LEMMA DigitsExist ==
  ASSUME NEW n \in Nat
  PROVE  \E f \in [0 .. n -> Seq(Figure)] : IsDigits(f, n)
<1> DEFINE Text == Seq(Figure)
           P == {m \in 0 .. n : \E f \in [0 .. m -> Text] : IsDigits(f, m)}
<1>1. \A k \in 0 .. 9 : <<DigitOf(k)>> \in Text
  BY TheFigures
<1>2. \A t \in Text, k \in 0 .. 9 : Append(t, DigitOf(k)) \in Text
  BY TheFigures, AppendProperties
<1> HIDE DEF Text
<1>3. 0 \in P
  <2> DEFINE f == [k \in 0 .. 0 |-> <<DigitOf(k)>>]
  <2>1. f \in [0 .. 0 -> Text] /\ f[0] = <<DigitOf(0)>>
    BY <1>1
  <2> HIDE DEF f
  <2>2. IsDigits(f, 0)
    BY <2>1 DEF IsDigits
  <2> QED BY <2>1, <2>2
<1>4. ASSUME NEW m \in 1 .. n, m - 1 \in P PROVE m \in P
  <2>1. PICK f \in [0 .. m - 1 -> Text] : IsDigits(f, m - 1)
    BY <1>4
  <2> DEFINE v == IF m < 10 THEN <<DigitOf(m)>> ELSE Append(f[m \div 10], DigitOf(m % 10))
             g == [k \in 0 .. m |-> IF k = m THEN v ELSE f[k]]
  <2>2. v \in Text
    <3>1. CASE m < 10
      <4>1. m \in 0 .. 9
        BY <3>1
      <4> QED BY <1>1, <3>1, <4>1
    <3>2. CASE ~(m < 10)
      <4>1. m \div 10 \in 0 .. m - 1 /\ m % 10 \in 0 .. 9
        BY <3>2, Tenth
      <4> QED BY <1>2, <3>2, <4>1
    <3> QED BY <3>1, <3>2
  <2> HIDE DEF v
  <2>3. g \in [0 .. m -> Text] /\ g[m] = v /\ \A k \in 0 .. m - 1 : g[k] = f[k]
    BY <2>2
  <2> HIDE DEF g
  <2>4. IsDigits(g, m)
    <3> SUFFICES ASSUME NEW k \in 0 .. m
                 PROVE  g[k] = IF k < 10 THEN <<DigitOf(k)>> ELSE Append(g[k \div 10], DigitOf(k % 10))
      BY DEF IsDigits
    <3>1. ~(k < 10) => k \div 10 \in 0 .. k - 1 /\ k \div 10 \in 0 .. m - 1
      <4>1. k \in Nat /\ k <= m /\ m \in Nat
        OBVIOUS
      <4>2. ~(k < 10) => k \div 10 \in 0 .. k - 1
        BY <4>1, Tenth
      <4> QED BY <4>1, <4>2
    <3>2. CASE k = m
      BY <2>3, <3>1, <3>2 DEF v
    <3>3. CASE k # m
      <4>1. k \in 0 .. m - 1
        BY <3>3
      <4>2. f[k] = IF k < 10 THEN <<DigitOf(k)>> ELSE Append(f[k \div 10], DigitOf(k % 10))
        BY <2>1, <4>1 DEF IsDigits
      <4> QED BY <2>3, <3>1, <4>1, <4>2
    <3> QED BY <3>2, <3>3
  <2> QED BY <2>3, <2>4
<1> HIDE DEF P
<1>5. 0 .. n \subseteq P
  BY <1>3, <1>4, InductionUpTo
<1>6. n \in P
  BY <1>5
<1> QED BY <1>6 DEF P, Text

LEMMA DigitsUnfold ==
  ASSUME NEW n \in Nat
  PROVE  \E f \in [0 .. n -> Seq(Figure)] : IsDigits(f, n) /\ Digits(n) = f[n]
<1> DEFINE Body(f) == [k \in 0 .. n |-> IF k < 10 THEN <<DigitOf(k)>>
                                        ELSE Append(f[k \div 10], DigitOf(k % 10))]
           h == CHOOSE f : f = Body(f)
<1>1. PICK f \in [0 .. n -> Seq(Figure)] : IsDigits(f, n)
  BY DigitsExist
<1>2. f = Body(f)
  <2>1. f = [k \in 0 .. n |-> f[k]]
    BY <1>1
  <2>2. \A k \in 0 .. n : f[k] = Body(f)[k]
    BY <1>1 DEF IsDigits
  <2> QED BY <2>1, <2>2
<1>3. h = Body(h)
  <2> HIDE DEF Body
  <2> QED BY <1>2
<1>4. IsDigits(h, n)
  <2>1. \A g : \A k \in 0 .. n :
          Body(g)[k] = IF k < 10 THEN <<DigitOf(k)>> ELSE Append(g[k \div 10], DigitOf(k % 10))
    OBVIOUS
  <2> HIDE DEF h, Body
  <2>2. \A k \in 0 .. n : h[k] = Body(h)[k]
    BY <1>3
  <2>3. \A k \in 0 .. n :
          Body(h)[k] = IF k < 10 THEN <<DigitOf(k)>> ELSE Append(h[k \div 10], DigitOf(k % 10))
    BY <2>1
  <2> QED BY <2>2, <2>3 DEF IsDigits
<1> DEFINE P == {m \in 0 .. n : \A k \in 0 .. m : h[k] = f[k]}
<1> HIDE DEF h
<1>5. 0 \in P
  BY <1>1, <1>4 DEF IsDigits
<1>6. ASSUME NEW m \in 1 .. n, m - 1 \in P PROVE m \in P
  <2>1. \A k \in 0 .. m - 1 : h[k] = f[k]
    BY <1>6
  <2>2. h[m] = f[m]
    <3>1. m \in Nat /\ m \in 0 .. n
      OBVIOUS
    <3>2. ~(m < 10) => m \div 10 \in 0 .. m - 1
      BY <3>1, Tenth
    <3> QED BY <1>1, <1>4, <2>1, <3>1, <3>2 DEF IsDigits
  <2>3. \A k \in 0 .. m : k \in 0 .. m - 1 \/ k = m
    OBVIOUS
  <2> QED BY <2>1, <2>2, <2>3
<1> HIDE DEF P
<1>7. 0 .. n \subseteq P
  BY <1>5, <1>6, InductionUpTo
<1>8. n \in P
  BY <1>7
<1>9. h[n] = f[n]
  BY <1>8 DEF P
<1>10. Digits(n) = h[n]
  BY DEF Digits, h
<1> QED BY <1>1, <1>9, <1>10

\* The values of the beginnings of ds.
Values(v, ds) ==
  v[0] = 0 /\ \A i \in 1 .. Len(ds) : v[i] = 10 * v[i - 1] + Digit[ds[i]]

LEMMA ValueUnfolds ==
  ASSUME NEW ds \in Seq(Figure)
  PROVE  \E v \in [0 .. Len(ds) -> Nat] : Values(v, ds) /\ Value(ds) = v[Len(ds)]
<1> DEFINE n == Len(ds)
           G == [p \in Nat \X (1 .. n) |-> 10 * p[1] + Digit[ds[p[2]]]]
           Body(v) == [i \in 0 .. n |-> IF i = 0 THEN 0 ELSE 10 * v[i - 1] + Digit[ds[i]]]
           h == CHOOSE v : v = Body(v)
<1>1. n \in Nat /\ \A i \in 1 .. n : ds[i] \in Figure /\ Digit[ds[i]] \in Nat
  <2>1. n \in Nat /\ \A i \in 1 .. n : ds[i] \in Figure
    BY LenProperties
  <2> HIDE DEF n
  <2> QED BY <2>1, TheFigures
<1>2. G \in [Nat \X (1 .. n) -> Nat] /\ \A t \in Nat, i \in 1 .. n : G[<<t, i>>] = 10 * t + Digit[ds[i]]
  <2>1. \A t \in Nat, i \in 1 .. n : 10 * t + Digit[ds[i]] \in Nat
    BY <1>1
  <2> HIDE DEF n
  <2> QED BY ONLY <2>1 DEF G
<1> HIDE DEF n, G
<1>3. PICK v \in [0 .. n -> Nat] : v[0] = 0 /\ \A i \in 1 .. n : v[i] = G[<<v[i - 1], i>>]
  <2>1. \E v : Recursion(v, n, Nat, 0, G)
    BY <1>1, <1>2, RecursionExists
  <2> QED BY <2>1 DEF Recursion
<1>4. \A i \in 1 .. n : v[i] = 10 * v[i - 1] + Digit[ds[i]]
  <2> TAKE i \in 1 .. n
  <2>1. i - 1 \in 0 .. n
    BY <1>1
  <2> QED BY <1>2, <1>3, <2>1
<1>5. v = Body(v)
  <2>1. v = [i \in 0 .. n |-> v[i]]
    BY <1>3
  <2>2. \A i \in 0 .. n : v[i] = Body(v)[i]
    <3> TAKE i \in 0 .. n
    <3>1. i = 0 \/ i \in 1 .. n
      BY <1>1
    <3> QED BY <1>3, <1>4, <3>1
  <2> QED BY <2>1, <2>2
<1>6. h = Body(h)
  <2> HIDE DEF Body
  <2> QED BY <1>5
<1>7. h[0] = 0 /\ \A i \in 1 .. n : h[i] = 10 * h[i - 1] + Digit[ds[i]]
  <2>1. \A g : Body(g)[0] = 0 /\ \A i \in 1 .. n : Body(g)[i] = 10 * g[i - 1] + Digit[ds[i]]
    BY <1>1
  <2> HIDE DEF h, Body
  <2>2. h[0] = Body(h)[0] /\ \A i \in 1 .. n : h[i] = Body(h)[i]
    BY <1>6
  <2> QED BY <2>1, <2>2
<1> DEFINE P == {i \in 0 .. n : h[i] = v[i]}
<1> HIDE DEF h
<1>8. 0 \in P
  BY <1>1, <1>3, <1>7
<1>9. \A i \in 1 .. n : i - 1 \in P => i \in P
  <2> SUFFICES ASSUME NEW i \in 1 .. n, h[i - 1] = v[i - 1] PROVE h[i] = v[i]
    BY <1>1
  <2> QED BY <1>4, <1>7
<1> HIDE DEF P
<1>10. 0 .. n \subseteq P
  BY <1>1, <1>8, <1>9, InductionUpTo
<1>11. h[n] = v[n]
  BY <1>1, <1>10 DEF P
<1>12. Value(ds) = h[n]
  BY DEF Value, h, n
<1> QED BY <1>3, <1>4, <1>11, <1>12 DEF Values, n

LEMMA ValueAppend ==
  ASSUME NEW ds \in Seq(Figure), NEW d \in Figure
  PROVE  /\ Value(<<d>>) = Digit[d]
         /\ Value(ds) \in Nat /\ Value(Append(ds, d)) = 10 * Value(ds) + Digit[d]
<1>1. Digit[d] \in Nat
  BY TheFigures
<1>2. Value(<<d>>) = Digit[d]
  <2> DEFINE e == <<d>>
  <2>1. e \in Seq(Figure) /\ Len(e) = 1 /\ e[1] = d
    OBVIOUS
  <2> HIDE DEF e
  <2>2. PICK v \in [0 .. Len(e) -> Nat] : Values(v, e) /\ Value(e) = v[Len(e)]
    BY <2>1, ValueUnfolds
  <2>3. v[0] = 0 /\ v[1] = 10 * v[0] + Digit[d] /\ Value(e) = v[1]
    <3>1. 1 \in 1 .. Len(e) /\ 1 - 1 = 0
      BY <2>1
    <3> QED BY <2>1, <2>2, <3>1 DEF Values
  <2> QED BY <1>1, <2>3 DEF e
<1>3. PICK v \in [0 .. Len(ds) -> Nat] : Values(v, ds) /\ Value(ds) = v[Len(ds)]
  BY ValueUnfolds
<1> DEFINE e == Append(ds, d)
           n == Len(ds)
<1>4. n \in Nat /\ e \in Seq(Figure) /\ Len(e) = n + 1 /\ e[n + 1] = d /\ \A i \in 1 .. n : e[i] = ds[i]
  BY LenProperties, AppendProperties
<1> HIDE DEF e, n
<1>5. PICK w \in [0 .. n + 1 -> Nat] : Values(w, e) /\ Value(e) = w[n + 1]
  BY <1>4, ValueUnfolds
<1> DEFINE P == {i \in 0 .. n : w[i] = v[i]}
<1>6. 0 \in P
  BY <1>3, <1>4, <1>5 DEF Values
<1>7. \A i \in 1 .. n : i - 1 \in P => i \in P
  <2> SUFFICES ASSUME NEW i \in 1 .. n, w[i - 1] = v[i - 1] PROVE w[i] = v[i]
    BY <1>4
  <2>1. i \in 1 .. Len(e) /\ i \in 1 .. Len(ds)
    BY <1>4 DEF n
  <2> QED BY <1>3, <1>4, <1>5, <2>1 DEF Values
<1> HIDE DEF P
<1>8. 0 .. n \subseteq P
  BY <1>4, <1>6, <1>7, InductionUpTo
<1>9. w[n] = v[n]
  BY <1>4, <1>8 DEF P
<1>10. w[n + 1] = 10 * w[n] + Digit[d]
  <2>1. n + 1 \in 1 .. Len(e) /\ (n + 1) - 1 = n
    BY <1>4
  <2> QED BY <1>4, <1>5, <2>1 DEF Values
<1>11. Value(ds) \in Nat
  BY <1>3, <1>4 DEF n
<1> QED BY <1>2, <1>3, <1>5, <1>9, <1>10, <1>11 DEF e, n

\* What is written as a number is read as that number.
LEMMA NumberOfDigits ==
  ASSUME NEW n \in Nat
  PROVE  /\ Digits(n) \in Seq(Figure) /\ Len(Digits(n)) \in Nat \ {0}
         /\ IsNumber(Digits(n)) /\ Number(Digits(n)) = n
<1>1. PICK f \in [0 .. n -> Seq(Figure)] : IsDigits(f, n) /\ Digits(n) = f[n]
  BY DigitsUnfold
<1> DEFINE Good(k) == Value(f[k]) = k /\ Len(f[k]) \in Nat \ {0}
           P == {m \in 0 .. n : \A k \in 0 .. m : Good(k)}
<1>2. \A k \in 0 .. n : k < 10 => Good(k)
  <2> SUFFICES ASSUME NEW k \in 0 .. n, k < 10 PROVE Good(k)
    OBVIOUS
  <2>1. k \in 0 .. 9 /\ f[k] = <<DigitOf(k)>>
    BY <1>1 DEF IsDigits
  <2>2. DigitOf(k) \in Figure /\ Digit[DigitOf(k)] = k
    BY <2>1, TheFigures
  <2>3. Value(<<DigitOf(k)>>) = Digit[DigitOf(k)]
    <3>1. <<>> \in Seq(Figure)
      BY EmptySeq
    <3> QED BY <2>2, <3>1, ValueAppend
  <2>4. Len(f[k]) = 1
    BY <2>1
  <2> QED BY <2>1, <2>2, <2>3, <2>4
<1>3. ASSUME NEW k \in 0 .. n, ~(k < 10), Good(k \div 10) PROVE Good(k)
  <2>1. k \in Nat
    OBVIOUS
  <2>2. k \div 10 \in 0 .. k - 1 /\ k % 10 \in 0 .. 9 /\ 10 * (k \div 10) + (k % 10) = k
    BY <1>3, <2>1, Tenth
  <2> DEFINE q == k \div 10
             d == DigitOf(k % 10)
  <2>3. q \in 0 .. n /\ f[q] \in Seq(Figure) /\ d \in Figure /\ Digit[d] = k % 10
    <3>1. q \in 0 .. n
      BY <2>1, <2>2
    <3> QED BY <2>2, <3>1, TheFigures
  <2>4. f[k] = Append(f[q], d)
    BY <1>1, <1>3 DEF IsDigits
  <2>5. Value(f[q]) = q /\ 10 * q + Digit[d] = k
    BY <1>3, <2>2, <2>3
  <2> HIDE DEF q, d
  <2>6. Value(Append(f[q], d)) = 10 * Value(f[q]) + Digit[d]
    BY <2>3, ValueAppend
  <2>7. Value(f[k]) = k
    BY <2>4, <2>5, <2>6
  <2>8. Len(f[k]) = Len(f[q]) + 1 /\ Len(f[q]) \in Nat
    BY <2>3, <2>4, LenProperties, AppendProperties
  <2> QED BY <2>7, <2>8
<1> HIDE DEF Good
<1>4. 0 \in P
  BY <1>2
<1>5. ASSUME NEW m \in 1 .. n, m - 1 \in P PROVE m \in P
  <2>1. \A k \in 0 .. m - 1 : Good(k)
    BY <1>5
  <2>2. m \in Nat /\ m \in 0 .. n
    OBVIOUS
  <2>3. ~(m < 10) => m \div 10 \in 0 .. m - 1
    BY <2>2, Tenth
  <2>4. Good(m)
    BY <1>2, <1>3, <2>1, <2>2, <2>3
  <2>5. \A k \in 0 .. m : k \in 0 .. m - 1 \/ k = m
    OBVIOUS
  <2> QED BY <2>1, <2>2, <2>4, <2>5
<1> HIDE DEF P
<1>6. 0 .. n \subseteq P
  BY <1>4, <1>5, InductionUpTo
<1>7. n \in P
  BY <1>6
<1>8. Good(n)
  BY <1>7 DEF P
<1> DEFINE ds == Digits(n)
<1>9. ds \in Seq(Figure) /\ Value(ds) = n /\ Len(ds) \in Nat \ {0}
  BY <1>1, <1>8 DEF Good
<1> HIDE DEF ds
<1>10. ds[1] \in Figure /\ ds[1] # "-" /\ ds # <<>>
  <2>1. 1 \in 1 .. Len(ds) /\ \A i \in 1 .. Len(ds) : ds[i] \in Figure
    BY <1>9, LenProperties
  <2>2. Len(<<>>) = 0
    OBVIOUS
  <2> QED BY <1>9, <2>1, <2>2, TheFigures
<1>11. Number(ds) = n
  BY <1>9, <1>10 DEF Number
<1>12. IsNumber(ds)
  <2>1. ToSet(ds) \subseteq Figure
    BY <1>9, LenProperties DEF ToSet
  <2> QED BY <1>10, <2>1 DEF IsNumber, Figure
<1> QED BY <1>9, <1>11, <1>12 DEF ds

-----------------------------------------------------------------------------
(* Texts in the buffer. *)

\* What of t has arrived in b stands behind the place p.
Begins(t, b, p) == \A j \in 1 .. Len(t) : p + j <= Len(b) => b[p + j] = t[j]

LEMMA CutIs ==
  ASSUME NEW S, NEW s \in Seq(S), NEW m \in Nat \ {0}, NEW n \in Nat, m <= n + 1, n <= Len(s)
  PROVE  /\ SubSeq(s, m, n) \in Seq(S) /\ Len(SubSeq(s, m, n)) = n - m + 1
         /\ \A i \in 1 .. n - m + 1 : SubSeq(s, m, n)[i] = s[m + i - 1]
<1>1. Len(s) \in Nat /\ \A i \in 1 .. Len(s) : s[i] \in S
  BY LenProperties
<1>2. \A i \in m .. n : s[i] \in S
  BY <1>1
<1>3. /\ SubSeq(s, m, n) \in Seq(S)
      /\ Len(SubSeq(s, m, n)) = IF m <= n THEN n - m + 1 ELSE 0
      /\ \A i \in 1 .. n - m + 1 : SubSeq(s, m, n)[i] = s[m + i - 1]
  BY <1>2, SubSeqProperties
<1>4. (IF m <= n THEN n - m + 1 ELSE 0) = n - m + 1
  OBVIOUS
<1> QED BY <1>3, <1>4

LEMMA OneMore ==
  ASSUME NEW S, NEW s \in Seq(S), NEW i \in 1 .. Len(s)
  PROVE  Append(SubSeq(s, 1, i - 1), s[i]) = SubSeq(s, 1, i)
<1>1. Len(s) \in Nat /\ i \in Nat /\ i - 1 \in Nat /\ s[i] \in S
  BY LenProperties
<1> DEFINE a == SubSeq(s, 1, i - 1)
           c == SubSeq(s, 1, i)
           d == Append(a, s[i])
<1>2. a \in Seq(S) /\ Len(a) = i - 1 /\ \A j \in 1 .. i - 1 : a[j] = s[j]
  <2>1. /\ a \in Seq(S) /\ Len(a) = (i - 1) - 1 + 1
        /\ \A j \in 1 .. (i - 1) - 1 + 1 : a[j] = s[1 + j - 1]
    BY <1>1, CutIs
  <2>2. (i - 1) - 1 + 1 = i - 1 /\ \A j \in 1 .. i - 1 : 1 + j - 1 = j
    BY <1>1
  <2> HIDE DEF a
  <2> QED BY <2>1, <2>2
<1>3. c \in Seq(S) /\ Len(c) = i /\ \A j \in 1 .. i : c[j] = s[j]
  <2>1. c \in Seq(S) /\ Len(c) = i - 1 + 1 /\ \A j \in 1 .. i - 1 + 1 : c[j] = s[1 + j - 1]
    BY <1>1, CutIs
  <2>2. i - 1 + 1 = i /\ \A j \in 1 .. i : 1 + j - 1 = j
    BY <1>1
  <2> HIDE DEF c
  <2> QED BY <2>1, <2>2
<1> HIDE DEF a, c
<1>4. /\ d \in Seq(S) /\ Len(d) = Len(a) + 1 /\ d[Len(a) + 1] = s[i]
      /\ \A j \in 1 .. Len(a) : d[j] = a[j]
  BY <1>1, <1>2, AppendProperties
<1> HIDE DEF d
<1>5. \A j \in 1 .. Len(d) : d[j] = c[j]
  <2> TAKE j \in 1 .. Len(d)
  <2>1. j \in 1 .. i - 1 \/ j = i
    BY <1>1, <1>2, <1>4
  <2> QED BY <1>1, <1>2, <1>3, <1>4, <2>1
<1>6. d = c
  BY <1>1, <1>2, <1>3, <1>4, <1>5, SeqEqual
<1> QED BY <1>6 DEF a, c, d

LEMMA BeginsConcat ==
  ASSUME NEW S, NEW a \in Seq(S), NEW c \in Seq(S), NEW b \in Seq(S), NEW p \in Nat,
         Begins(a \o c, b, p)
  PROVE  Begins(a, b, p) /\ Begins(c, b, p + Len(a))
<1>1. /\ Len(a) \in Nat /\ Len(b) \in Nat /\ Len(c) \in Nat
      /\ \A i \in 1 .. Len(a) : i \in 1 .. Len(a \o c) /\ (a \o c)[i] = a[i]
      /\ \A j \in 1 .. Len(c) : Len(a) + j \in 1 .. Len(a \o c) /\ (a \o c)[Len(a) + j] = c[j]
  <2>1. a \in Seq(S) /\ c \in Seq(S)
    OBVIOUS
  <2>2. Len(b) \in Nat
    BY LenProperties
  <2> QED BY ONLY <2>1, <2>2, ConcatPlaces
<1>2. Begins(a, b, p)
  BY <1>1 DEF Begins
<1>3. Begins(c, b, p + Len(a))
  <2> SUFFICES ASSUME NEW j \in 1 .. Len(c), (p + Len(a)) + j <= Len(b)
               PROVE  b[(p + Len(a)) + j] = c[j]
    BY DEF Begins
  <2>1. (p + Len(a)) + j = p + (Len(a) + j)
    BY <1>1
  <2>2. Len(a) + j \in 1 .. Len(a \o c) /\ (a \o c)[Len(a) + j] = c[j]
    BY <1>1
  <2> QED BY <2>1, <2>2 DEF Begins
<1> QED BY <1>2, <1>3

LEMMA BeginsParts ==
  ASSUME NEW S, NEW q \in Seq(Seq(S)), NEW o \in [0 .. Len(q) -> Nat], NEW t, PartsAt(o, q, t),
         NEW b, NEW p \in Nat, Begins(t, b, p), NEW i \in 1 .. Len(q)
  PROVE  Begins(q[i], b, p + o[i - 1])
<1>1. Len(q) \in Nat
  BY LenProperties
<1>2. o[i - 1] \in Nat
  <2>1. i - 1 \in 0 .. Len(q)
    BY <1>1
  <2> QED BY <2>1
<1>3. q[i] \in Seq(S)
  BY LenProperties
<1>4. Len(q[i]) \in Nat
  BY <1>3, LenProperties
<1> SUFFICES ASSUME NEW j \in 1 .. Len(q[i]), (p + o[i - 1]) + j <= Len(b)
             PROVE  b[(p + o[i - 1]) + j] = q[i][j]
  BY DEF Begins
<1>5. o[i - 1] + j \in 1 .. Len(t) /\ t[o[i - 1] + j] = q[i][j]
  BY DEF PartsAt
<1>6. (p + o[i - 1]) + j = p + (o[i - 1] + j)
  BY <1>2, <1>4
<1> QED BY <1>5, <1>6 DEF Begins

\* A text that has arrived as a whole.
LEMMA ArrivedIs ==
  ASSUME NEW S, NEW t \in Seq(S), NEW b \in Seq(S), NEW p \in Nat,
         Begins(t, b, p), p + Len(t) <= Len(b)
  PROVE  SubSeq(b, p + 1, p + Len(t)) = t
<1>1. Len(t) \in Nat /\ Len(b) \in Nat
  BY LenProperties
<1> DEFINE m == p + 1
           n == p + Len(t)
<1>2. m \in Nat \ {0} /\ n \in Nat /\ m <= n + 1 /\ n <= Len(b) /\ n - m + 1 = Len(t)
  BY <1>1
<1>3. /\ SubSeq(b, m, n) \in Seq(S) /\ Len(SubSeq(b, m, n)) = n - m + 1
      /\ \A i \in 1 .. n - m + 1 : SubSeq(b, m, n)[i] = b[m + i - 1]
  BY <1>2, CutIs
<1>4. \A i \in 1 .. Len(t) : SubSeq(b, m, n)[i] = t[i]
  <2> TAKE i \in 1 .. Len(t)
  <2>1. m + i - 1 = p + i /\ p + i <= Len(b)
    BY <1>1
  <2> QED BY <1>2, <1>3, <2>1 DEF Begins
<1> HIDE DEF m, n
<1>5. SubSeq(b, m, n) = t
  BY <1>2, <1>3, <1>4, SeqEqual
<1> QED BY <1>5 DEF m, n

-----------------------------------------------------------------------------
(* The ends of lines. *)

\* CR LF is at the place p.
LineEnd(b, p) == p + 1 <= Len(b) /\ b[p] = "\r" /\ b[p + 1] = "\n"

LEMMA CrLf == CRLF \in Seq(Byte) /\ Len(CRLF) = 2 /\ CRLF[1] = "\r" /\ CRLF[2] = "\n"
<1>1. "\r" \in Byte /\ "\n" \in Byte
  BY SignsAreBytes DEF Sign
<1> QED BY <1>1 DEF CRLF

LEMMA LineEndIs ==
  ASSUME NEW b \in Seq(Byte), NEW p \in Nat \ {0}, p + 1 <= Len(b)
  PROVE  SubSeq(b, p, p + 1) = CRLF <=> LineEnd(b, p)
<1> DEFINE s == SubSeq(b, p, p + 1)
<1>1. Len(b) \in Nat
  BY LenProperties
<1>2. s \in Seq(Byte) /\ Len(s) = (p + 1) - p + 1 /\ \A i \in 1 .. (p + 1) - p + 1 : s[i] = b[p + i - 1]
  BY <1>1, CutIs
<1>3. Len(s) = 2 /\ s[1] = b[p] /\ s[2] = b[p + 1]
  <2>1. (p + 1) - p + 1 = 2 /\ p + 1 - 1 = p /\ p + 2 - 1 = p + 1
    OBVIOUS
  <2> QED BY <1>2, <2>1
<1> HIDE DEF s
<1>4. ASSUME s[1] = "\r", s[2] = "\n" PROVE s = CRLF
  <2>1. \A i \in 1 .. 2 : i = 1 \/ i = 2
    OBVIOUS
  <2>2. \A i \in 1 .. Len(s) : s[i] = CRLF[i]
    BY <1>3, <1>4, <2>1, CrLf
  <2> QED BY <1>2, <1>3, <2>2, CrLf, SeqEqual
<1>5. s = CRLF <=> s[1] = "\r" /\ s[2] = "\n"
  BY <1>4, CrLf
<1> QED BY <1>3, <1>5 DEF s, LineEnd

LEMMA FindCRLF ==
  ASSUME NEW b \in Seq(Byte), NEW i \in Nat \ {0}
  PROVE  /\ \A p \in Nat : i <= p /\ LineEnd(b, p) /\ (\A r \in i .. p - 1 : ~LineEnd(b, r))
                             => Find(b, CRLF, i) = p
         /\ (\A p \in Nat : i <= p => ~LineEnd(b, p)) => Find(b, CRLF, i) = 0
<1> DEFINE places == {p \in i .. Len(b) - Len(CRLF) + 1 : SubSeq(b, p, p + Len(CRLF) - 1) = CRLF}
<1>1. Len(b) \in Nat
  BY LenProperties
<1>2. \A p \in Nat : p \in places <=> i <= p /\ LineEnd(b, p)
  <2> TAKE p \in Nat
  <2>1. Len(b) - Len(CRLF) + 1 = Len(b) - 1 /\ p + Len(CRLF) - 1 = p + 1
    BY <1>1, CrLf
  <2>2. p \in i .. Len(b) - 1 <=> i <= p /\ p + 1 <= Len(b)
    BY <1>1
  <2>3. i <= p => p \in Nat \ {0}
    OBVIOUS
  <2>4. i <= p /\ p + 1 <= Len(b) => (SubSeq(b, p, p + 1) = CRLF <=> LineEnd(b, p))
    BY <2>3, LineEndIs
  <2>5. LineEnd(b, p) => p + 1 <= Len(b)
    BY DEF LineEnd
  <2>6. p \in places <=> p \in i .. Len(b) - 1 /\ SubSeq(b, p, p + 1) = CRLF
    BY <2>1
  <2> HIDE DEF places
  <2> QED BY <2>2, <2>4, <2>5, <2>6
<1>3. Find(b, CRLF, i) = IF places = {} THEN 0 ELSE Min(places)
  BY DEF Find
<1>4. places \subseteq Nat
  OBVIOUS
<1> HIDE DEF places
<1>5. ASSUME NEW p \in Nat, i <= p, LineEnd(b, p), \A r \in i .. p - 1 : ~LineEnd(b, r)
      PROVE  Find(b, CRLF, i) = p
  <2>1. p \in places
    BY <1>2, <1>5
  <2>2. \A r \in places : p <= r
    <3> TAKE r \in places
    <3>1. r \in Nat /\ i <= r /\ LineEnd(b, r)
      BY <1>2, <1>4
    <3>2. r \notin i .. p - 1
      BY <1>5, <3>1
    <3> QED BY <3>1, <3>2
  <2>3. Min(places) = p
    <3>1. \A x \in places : (\A y \in places : x <= y) => x = p
      BY <1>4, <2>1, <2>2
    <3> QED BY <2>1, <2>2, <3>1 DEF Min
  <2> QED BY <1>3, <2>1, <2>3
<1>6. ASSUME \A p \in Nat : i <= p => ~LineEnd(b, p) PROVE Find(b, CRLF, i) = 0
  <2>1. places = {}
    BY <1>2, <1>4, <1>6
  <2> QED BY <1>3, <2>1
<1> QED BY <1>5, <1>6

LEMMA FindLF ==
  ASSUME NEW S, NEW b \in Seq(S)
  PROVE  Find(b, <<"\n">>, 1) = 0 <=> \A p \in 1 .. Len(b) : b[p] # "\n"
<1> DEFINE places == {p \in 1 .. Len(b) - Len(<<"\n">>) + 1 : SubSeq(b, p, p + Len(<<"\n">>) - 1) = <<"\n">>}
<1>1. Len(b) \in Nat
  BY LenProperties
<1>2. \A p \in Nat : p \in places <=> p \in 1 .. Len(b) /\ b[p] = "\n"
  <2> TAKE p \in Nat
  <2>1. Len(b) - Len(<<"\n">>) + 1 = Len(b) /\ p + Len(<<"\n">>) - 1 = p
    BY <1>1
  <2>2. ASSUME p \in 1 .. Len(b) PROVE SubSeq(b, p, p) = <<"\n">> <=> b[p] = "\n"
    <3> DEFINE s == SubSeq(b, p, p)
    <3>1. s \in Seq(S) /\ Len(s) = p - p + 1 /\ \A j \in 1 .. p - p + 1 : s[j] = b[p + j - 1]
      BY <1>1, <2>2, CutIs
    <3>2. Len(s) = 1 /\ s[1] = b[p]
      <4>1. p - p + 1 = 1 /\ p + 1 - 1 = p
        OBVIOUS
      <4> QED BY <3>1, <4>1
    <3>3. s = <<b[p]>>
      <4> DEFINE u == <<b[p]>>
      <4>1. b[p] \in S
        BY <2>2, LenProperties
      <4>2. u \in Seq(S) /\ Len(u) = 1 /\ u[1] = b[p]
        BY <4>1
      <4> HIDE DEF s, u
      <4>3. \A j \in 1 .. 1 : s[j] = u[j]
        BY <3>2, <4>2
      <4>4. s = u
        BY <3>1, <3>2, <4>2, <4>3, SeqEqual
      <4> QED BY <4>4 DEF u
    <3> QED BY <3>3
  <2> QED BY <2>1, <2>2
<1>3. Find(b, <<"\n">>, 1) = IF places = {} THEN 0 ELSE Min(places)
  BY DEF Find
<1>4. places \subseteq Nat \ {0}
  OBVIOUS
<1> HIDE DEF places
<1>5. places # {} => Min(places) \in places
  <2> SUFFICES ASSUME places # {} PROVE Min(places) \in places
    OBVIOUS
  <2>1. \E x \in places : \A y \in places : x <= y
    BY <1>4, LeastNatural
  <2> QED BY <2>1 DEF Min
<1>6. places = {} <=> \A p \in 1 .. Len(b) : b[p] # "\n"
  BY <1>1, <1>2, <1>4
<1> QED BY <1>3, <1>4, <1>5, <1>6

-----------------------------------------------------------------------------
(* A request that is an array. *)

\* The line in front of an array or of a string.
Header(ch, n) == <<ch>> \o Digits(n) \o CRLF

\* What the parser makes of the line that starts behind the place p.
HeaderRead(b, p, ch, n) ==
  /\ Header(ch, n) \in Seq(Byte) /\ Len(Header(ch, n)) \in Nat \ {0, 1, 2}
  /\ Len(b) < p + Len(Header(ch, n)) => Find(b, CRLF, p + 1) = 0
  /\ p + Len(Header(ch, n)) <= Len(b) =>
       /\ Find(b, CRLF, p + 1) = p + Len(Header(ch, n)) - 1
       /\ SubSeq(b, p + 2, p + Len(Header(ch, n)) - 2) = Digits(n)
  /\ p + 1 <= Len(b) => b[p + 1] = ch

LEMMA HeaderIs ==
  ASSUME NEW ch \in Byte, NEW n \in Nat
  PROVE  Header(ch, n) \in Seq(Byte) /\ Len(Header(ch, n)) = Len(Digits(n)) + 3
<1>1. Digits(n) \in Seq(Byte) /\ Len(Digits(n)) \in Nat
  <2>1. Digits(n) \in Seq(Figure) /\ Figure \subseteq Byte
    BY NumberOfDigits, SignsAreBytes
  <2> QED BY <2>1, SeqMonotonic, LenProperties
<1>2. <<ch>> \in Seq(Byte) /\ Len(<<ch>>) = 1
  OBVIOUS
<1>3. <<ch>> \o Digits(n) \in Seq(Byte) /\ Len(<<ch>> \o Digits(n)) = 1 + Len(Digits(n))
  BY <1>1, <1>2, ConcatPlaces
<1>4. /\ (<<ch>> \o Digits(n)) \o CRLF \in Seq(Byte)
      /\ Len((<<ch>> \o Digits(n)) \o CRLF) = (1 + Len(Digits(n))) + 2
  <2> DEFINE u == <<ch>> \o Digits(n)
  <2> HIDE DEF u
  <2>1. u \in Seq(Byte)
    BY <1>3 DEF u
  <2>2. u \o CRLF \in Seq(Byte) /\ Len(u \o CRLF) = Len(u) + Len(CRLF)
    BY <2>1, CrLf, ConcatPlaces
  <2> QED BY <1>3, <2>2, CrLf DEF u
<1> QED BY <1>1, <1>4 DEF Header

LEMMA HeaderParsed ==
  ASSUME NEW b \in Seq(Byte), NEW p \in Nat, NEW ch \in Byte, ch # "\r", NEW n \in Nat,
         Begins(Header(ch, n), b, p)
  PROVE  HeaderRead(b, p, ch, n)
<1> DEFINE ds == Digits(n)
           d == Len(ds)
           h == Len(Header(ch, n))
<1>1. ds \in Seq(Byte) /\ d \in Nat \ {0} /\ \A i \in 1 .. d : ds[i] # "\r"
  <2>1. ds \in Seq(Figure) /\ Figure \subseteq Byte /\ d \in Nat \ {0}
    BY NumberOfDigits, SignsAreBytes
  <2>2. ds \in Seq(Byte)
    BY <2>1, SeqMonotonic
  <2>3. \A i \in 1 .. d : ds[i] \in Figure
    BY <2>1, LenProperties
  <2> QED BY <2>1, <2>2, <2>3, TheFigures
<1>2. Header(ch, n) \in Seq(Byte) /\ h = d + 3
  BY HeaderIs
<1>3. Begins(<<ch>>, b, p) /\ Begins(ds, b, p + 1) /\ Begins(CRLF, b, p + (1 + d))
  <2> DEFINE c == <<ch>>
  <2>1. c \in Seq(Byte) /\ Len(c) = 1
    OBVIOUS
  <2> HIDE DEF c, ds
  <2>2. c \o ds \in Seq(Byte) /\ Len(c \o ds) = 1 + d
    <3>1. c \o ds \in Seq(Byte) /\ Len(c \o ds) = Len(c) + Len(ds)
      <4>1. c \in Seq(Byte) /\ ds \in Seq(Byte)
        BY <1>1, <2>1
      <4> QED BY ONLY <4>1, ConcatPlaces
    <3> QED BY <2>1, <3>1
  <2>3. Begins((c \o ds) \o CRLF, b, p)
    BY DEF Header, c, ds
  <2>4. Begins(c \o ds, b, p) /\ Begins(CRLF, b, p + Len(c \o ds))
    BY <2>2, <2>3, CrLf, BeginsConcat
  <2>5. Begins(c, b, p) /\ Begins(ds, b, p + Len(c))
    BY <1>1, <2>1, <2>4, BeginsConcat
  <2> QED BY <2>1, <2>2, <2>4, <2>5 DEF c
<1>4. Len(b) \in Nat
  BY LenProperties
<1>5. p + 1 <= Len(b) => b[p + 1] = ch
  <2> DEFINE c == <<ch>>
  <2>1. Len(c) = 1 /\ c[1] = ch
    OBVIOUS
  <2> HIDE DEF c
  <2>2. Begins(c, b, p)
    BY <1>3 DEF c
  <2> QED BY <2>1, <2>2 DEF Begins
<1> HIDE DEF ds, d, h
<1>6. \A r \in p + 1 .. p + 1 + d : r <= Len(b) => b[r] # "\r"
  <2> SUFFICES ASSUME NEW r \in p + 1 .. p + 1 + d, r <= Len(b) PROVE b[r] # "\r"
    OBVIOUS
  <2>1. CASE r = p + 1
    BY <1>5, <2>1
  <2>2. CASE r # p + 1
    <3> DEFINE j == r - (p + 1)
    <3>1. j \in 1 .. d /\ (p + 1) + j = r
      BY <1>1, <2>2
    <3> HIDE DEF j
    <3>2. b[r] = ds[j]
      BY <1>3, <3>1 DEF Begins, d
    <3> QED BY <1>1, <3>1, <3>2
  <2> QED BY <2>1, <2>2
<1>7. /\ p + d + 2 <= Len(b) => b[p + d + 2] = "\r"
      /\ p + d + 3 <= Len(b) => b[p + d + 3] = "\n"
  <2>1. p + (1 + d) + 1 = p + d + 2 /\ p + (1 + d) + 2 = p + d + 3
    BY <1>1
  <2>2. 1 \in 1 .. Len(CRLF) /\ 2 \in 1 .. Len(CRLF)
    BY CrLf
  <2> QED BY <1>3, <2>1, <2>2, CrLf DEF Begins
<1>8. ASSUME Len(b) < p + h PROVE Find(b, CRLF, p + 1) = 0
  <2>1. \A r \in Nat : p + 1 <= r => ~LineEnd(b, r)
    <3> SUFFICES ASSUME NEW r \in Nat, p + 1 <= r, LineEnd(b, r) PROVE FALSE
      OBVIOUS
    <3>1. r \in p + 1 .. p + 1 + d /\ r <= Len(b)
      BY <1>1, <1>2, <1>4, <1>8 DEF LineEnd
    <3> QED BY <1>6, <3>1 DEF LineEnd
  <2> QED BY <2>1, FindCRLF
<1>9. ASSUME p + h <= Len(b) PROVE Find(b, CRLF, p + 1) = p + h - 1 /\ SubSeq(b, p + 2, p + h - 2) = ds
  <2> DEFINE e == p + d + 2
  <2>1. e \in Nat /\ p + 1 <= e /\ e = p + h - 1 /\ e + 1 = p + d + 3 /\ e + 1 <= Len(b)
    BY <1>1, <1>2, <1>4, <1>9
  <2>2. LineEnd(b, e)
    BY <1>4, <1>7, <2>1 DEF LineEnd
  <2>3. \A r \in p + 1 .. e - 1 : ~LineEnd(b, r)
    <3> TAKE r \in p + 1 .. e - 1
    <3>1. r \in p + 1 .. p + 1 + d /\ r <= Len(b)
      BY <1>1, <1>4, <2>1
    <3> QED BY <1>6, <3>1 DEF LineEnd
  <2> HIDE DEF e
  <2>4. Find(b, CRLF, p + 1) = e
    BY <2>1, <2>2, <2>3, FindCRLF
  <2>5. SubSeq(b, (p + 1) + 1, (p + 1) + Len(ds)) = ds
    <3>1. (p + 1) + Len(ds) <= Len(b) /\ p + 1 \in Nat
      BY <1>1, <1>2, <1>4, <1>9 DEF d
    <3> QED BY <1>1, <1>3, <3>1, ArrivedIs
  <2>6. (p + 1) + 1 = p + 2 /\ (p + 1) + Len(ds) = p + h - 2
    BY <1>1, <1>2 DEF d
  <2> QED BY <2>1, <2>4, <2>5, <2>6
<1>10. h \in Nat \ {0, 1, 2}
  BY <1>1, <1>2
<1> QED BY <1>2, <1>5, <1>8, <1>9, <1>10 DEF HeaderRead, h, ds

LEMMA BulkIs ==
  ASSUME NEW arg \in Seq(Byte)
  PROVE  /\ Bulk(arg) \in Seq(Byte) /\ Len(arg) \in Nat
         /\ Bulk(arg) = (Header("$", Len(arg)) \o arg) \o CRLF
         /\ Header("$", Len(arg)) \in Seq(Byte) /\ Header("$", Len(arg)) \o arg \in Seq(Byte)
         /\ Len(Header("$", Len(arg)) \o arg) = Len(Header("$", Len(arg))) + Len(arg)
         /\ Len(Bulk(arg)) = Len(Header("$", Len(arg))) + Len(arg) + 2
<1> DEFINE H == Header("$", Len(arg))
<1>1. Bulk(arg) = (H \o arg) \o CRLF
  BY DEF Bulk, Header
<1>2. H \in Seq(Byte) /\ Len(arg) \in Nat
  <2>1. "$" \in Byte
    BY SignsAreBytes DEF Sign
  <2> QED BY <2>1, HeaderIs, LenProperties
<1> HIDE DEF H
<1>3. H \o arg \in Seq(Byte) /\ Len(H \o arg) = Len(H) + Len(arg)
  BY <1>2, ConcatPlaces
<1> DEFINE u == H \o arg
<1> HIDE DEF u
<1>4. u \o CRLF \in Seq(Byte) /\ Len(u \o CRLF) = Len(u) + Len(CRLF)
  <2>1. u \in Seq(Byte) /\ CRLF \in Seq(Byte)
    BY <1>3, CrLf DEF u
  <2> QED BY ONLY <2>1, ConcatPlaces
<1> QED BY <1>1, <1>2, <1>3, <1>4, CrLf DEF H, u

\* One argument more: the parser takes it as it was written, or asks for more.
LEMMA ItemParsed ==
  ASSUME NEW b \in Seq(Byte), NEW p \in Nat, NEW arg \in Seq(Byte), Begins(Bulk(arg), b, p), NEW before
  PROVE  Item(b, Success(before, {}, p)) =
           IF p + Len(Bulk(arg)) <= Len(b)
           THEN Success(Append(before, arg), {}, p + Len(Bulk(arg))) ELSE Incomplete
<1> DEFINE H == Header("$", Len(arg))
           n == Len(arg)
           h == Len(H)
           P == Success(before, {}, p)
           eol == Find(b, CRLF, p + 1)
           size == SubSeq(b, p + 2, eol - 1)
           last == eol + 1 + Number(size)
<1>1. /\ Bulk(arg) = (H \o arg) \o CRLF /\ H \in Seq(Byte) /\ H \o arg \in Seq(Byte)
      /\ n \in Nat /\ Len(H \o arg) = h + n /\ Len(Bulk(arg)) = h + n + 2
  BY BulkIs
<1>2. Begins(H, b, p) /\ Begins(arg, b, p + h) /\ Begins(CRLF, b, p + (h + n))
  <2> HIDE DEF H, h, n
  <2>1. Begins(H \o arg, b, p) /\ Begins(CRLF, b, p + Len(H \o arg))
    BY <1>1, CrLf, BeginsConcat
  <2>2. Begins(H, b, p) /\ Begins(arg, b, p + Len(H))
    BY <1>1, <2>1, BeginsConcat
  <2> QED BY <1>1, <2>1, <2>2 DEF h
<1>3. /\ h \in Nat \ {0, 1, 2}
      /\ Len(b) < p + h => eol = 0
      /\ p + h <= Len(b) => eol = p + h - 1 /\ SubSeq(b, p + 2, p + h - 2) = Digits(n)
      /\ p + 1 <= Len(b) => b[p + 1] = "$"
  <2>1. "$" \in Byte /\ "$" # "\r"
    BY SignsAreBytes DEF Sign
  <2>2. HeaderRead(b, p, "$", n)
    BY <1>1, <1>2, <2>1, HeaderParsed
  <2> QED BY <2>2 DEF HeaderRead
<1>4. Item(b, P) =
        IF p + 1 > Len(b) THEN Incomplete
        ELSE IF b[p + 1] # "$" THEN Error
        ELSE IF eol = 0 THEN Incomplete
        ELSE IF ~IsNumber(size) THEN Error
        ELSE IF Number(size) < 0 THEN Success(Append(before, <<>>), {}, eol + 1)
        ELSE IF Len(b) < last + 2 THEN Incomplete
        ELSE IF SubSeq(b, last + 1, last + 2) # CRLF THEN Error
        ELSE Success(Append(before, SubSeq(b, eol + 2, last)), {}, last + 2)
  <2>1. P.consumed = p /\ P.args = before
    BY DEF Success
  <2>2. p + 1 + 1 = p + 2
    OBVIOUS
  <2> HIDE DEF P
  <2> QED BY <2>1, <2>2 DEF Item
<1>5. Len(b) \in Nat
  BY LenProperties
<1> HIDE DEF H, h, n, P, eol
<1>6. CASE Len(b) < p + h
  <2>1. p + 1 > Len(b) \/ (p + 1 <= Len(b) /\ b[p + 1] = "$" /\ eol = 0)
    BY <1>3, <1>5, <1>6
  <2>2. ~(p + Len(Bulk(arg)) <= Len(b))
    BY <1>1, <1>3, <1>5, <1>6
  <2>3. Item(b, P) = Incomplete
    <3> HIDE DEF size, last
    <3> QED BY <1>4, <1>5, <2>1
  <2> QED BY <2>2, <2>3 DEF P
<1>7. CASE p + h <= Len(b)
  <2>1. /\ p + 1 <= Len(b) /\ b[p + 1] = "$" /\ eol = p + h - 1 /\ eol # 0 /\ eol + 1 = p + h
        /\ eol - 1 = p + h - 2 /\ eol + 2 = p + h + 1
    BY <1>3, <1>5, <1>7
  <2>2. size = Digits(n)
    BY <1>3, <1>7, <2>1
  <2>3. IsNumber(size) /\ Number(size) = n
    BY <1>1, <2>2, NumberOfDigits
  <2>4. last = p + h + n
    BY <2>1, <2>3
  <2>5. Item(b, P) = IF Len(b) < last + 2 THEN Incomplete
                     ELSE IF SubSeq(b, last + 1, last + 2) # CRLF THEN Error
                     ELSE Success(Append(before, SubSeq(b, eol + 2, last)), {}, last + 2)
    <3> HIDE DEF size, last
    <3>1. ~(p + 1 > Len(b)) /\ ~(Number(size) < 0)
      BY <1>1, <1>5, <2>1, <2>3
    <3> QED BY <1>4, <2>1, <2>3, <3>1
  <2> HIDE DEF size, last
  <2>6. CASE Len(b) < last + 2
    <3>1. ~(p + Len(Bulk(arg)) <= Len(b))
      BY <1>1, <1>3, <1>5, <2>4, <2>6
    <3> QED BY <2>5, <2>6, <3>1 DEF P
  <2>7. CASE ~(Len(b) < last + 2)
    <3>1. p + Len(Bulk(arg)) <= Len(b) /\ last + 2 = p + Len(Bulk(arg))
      BY <1>1, <1>3, <1>5, <2>4, <2>7
    <3>2. SubSeq(b, last + 1, last + 2) = CRLF
      <4>1. p + (h + n) \in Nat /\ p + (h + n) + Len(CRLF) <= Len(b)
        BY <1>1, <1>3, <1>5, <2>4, <2>7, CrLf
      <4>2. SubSeq(b, p + (h + n) + 1, p + (h + n) + Len(CRLF)) = CRLF
        BY <1>2, <4>1, CrLf, ArrivedIs
      <4>3. p + (h + n) + 1 = last + 1 /\ p + (h + n) + Len(CRLF) = last + 2
        BY <1>1, <1>3, <2>4, CrLf
      <4> QED BY <4>2, <4>3
    <3>3. SubSeq(b, eol + 2, last) = arg
      <4>1. p + h \in Nat /\ p + h + Len(arg) <= Len(b)
        BY <1>1, <1>3, <1>5, <2>4, <2>7 DEF n
      <4>2. SubSeq(b, p + h + 1, p + h + Len(arg)) = arg
        BY <1>2, <4>1, ArrivedIs
      <4> QED BY <2>1, <2>4, <4>2 DEF n
    <3> QED BY <2>5, <2>7, <3>1, <3>2, <3>3 DEF P
  <2> QED BY <2>6, <2>7
<1> QED BY <1>1, <1>3, <1>5, <1>6, <1>7

\* The results after each argument.
ReadsItems(f, b, p, n) ==
  /\ f = [i \in 0 .. n |-> f[i]] /\ f[0] = p
  /\ \A i \in 1 .. n : f[i] = IF f[i - 1].status = "success" THEN Item(b, f[i - 1]) ELSE f[i - 1]

LEMMA ItemsAre ==
  ASSUME NEW b, NEW p, NEW n \in Nat, NEW f, ReadsItems(f, b, p, n)
  PROVE  Items(b, p, n) = f[n]
<1> DEFINE Body(g) == [i \in 0 .. n |->
                         IF i = 0 THEN p
                         ELSE IF g[i - 1].status = "success" THEN Item(b, g[i - 1]) ELSE g[i - 1]]
           h == CHOOSE g : g = Body(g)
<1>1. f = Body(f)
  <2>1. \A i \in 0 .. n : f[i] = Body(f)[i]
    <3> TAKE i \in 0 .. n
    <3>1. i = 0 \/ i \in 1 .. n
      OBVIOUS
    <3> QED BY <3>1 DEF ReadsItems
  <2>2. Body(f) = [i \in 0 .. n |-> Body(f)[i]]
    OBVIOUS
  <2> HIDE DEF Body
  <2> QED BY <2>1, <2>2 DEF ReadsItems
<1>2. h = Body(h)
  <2> HIDE DEF Body
  <2> QED BY <1>1
<1>3. h[0] = p /\ \A i \in 1 .. n : h[i] = IF h[i - 1].status = "success" THEN Item(b, h[i - 1]) ELSE h[i - 1]
  <2>1. \A g : Body(g)[0] = p /\ \A i \in 1 .. n :
          Body(g)[i] = IF g[i - 1].status = "success" THEN Item(b, g[i - 1]) ELSE g[i - 1]
    OBVIOUS
  <2> HIDE DEF h, Body
  <2>2. h[0] = Body(h)[0] /\ \A i \in 1 .. n : h[i] = Body(h)[i]
    BY <1>2
  <2> QED BY <2>1, <2>2
<1> DEFINE P == {i \in 0 .. n : h[i] = f[i]}
<1> HIDE DEF h
<1>4. 0 \in P
  BY <1>3 DEF ReadsItems
<1>5. \A i \in 1 .. n : i - 1 \in P => i \in P
  <2> SUFFICES ASSUME NEW i \in 1 .. n, h[i - 1] = f[i - 1] PROVE h[i] = f[i]
    OBVIOUS
  <2> QED BY <1>3 DEF ReadsItems
<1> HIDE DEF P
<1>6. 0 .. n \subseteq P
  BY <1>4, <1>5, InductionUpTo
<1>7. h[n] = f[n]
  BY <1>6 DEF P
<1>8. Items(b, p, n) = h[n]
  BY DEF Items, h
<1> QED BY <1>7, <1>8

LEMMA PartsGrow ==
  ASSUME NEW S, NEW q \in Seq(Seq(S)), NEW o \in [0 .. Len(q) -> Nat], NEW t, PartsAt(o, q, t),
         NEW i \in 1 .. Len(q)
  PROVE  /\ o[i - 1] \in Nat /\ o[i] \in Nat /\ Len(q[i]) \in Nat
         /\ o[i] = o[i - 1] + Len(q[i])
<1>1. Len(q) \in Nat
  BY LenProperties
<1>2. i - 1 \in 0 .. Len(q) /\ i \in 0 .. Len(q)
  BY <1>1
<1>3. q[i] \in Seq(S)
  BY LenProperties
<1>4. Len(q[i]) \in Nat
  BY <1>3, LenProperties
<1> QED BY <1>2, <1>4 DEF PartsAt

\* The arguments as they are written.
Bulks(args) == [i \in DOMAIN args |-> Bulk(args[i])]

LEMMA BulksAre ==
  ASSUME NEW args \in Seq(Seq(Byte))
  PROVE  /\ Bulks(args) \in Seq(Seq(Byte)) /\ Len(Bulks(args)) = Len(args) /\ Len(args) \in Nat
         /\ \A i \in 1 .. Len(args) : Bulks(args)[i] = Bulk(args[i]) /\ args[i] \in Seq(Byte)
<1> DEFINE T == Seq(Byte)
           n == Len(args)
<1>1. n \in Nat /\ DOMAIN args = 1 .. n /\ \A i \in 1 .. n : args[i] \in T
  BY LenProperties
<1>2. \A i \in 1 .. n : Bulk(args[i]) \in T
  BY <1>1, BulkIs
<1> HIDE DEF T, n
<1>3. Bulks(args) \in [1 .. n -> T] /\ \A i \in 1 .. n : Bulks(args)[i] = Bulk(args[i])
  BY <1>1, <1>2 DEF Bulks
<1>4. Bulks(args) \in Seq(T) /\ Len(Bulks(args)) = n
  BY <1>1, <1>3
<1> QED BY <1>1, <1>3, <1>4 DEF T, n

\* An array that arrives in pieces: the parser asks for more until it is there
\* as a whole, and then takes it as it was written.
LEMMA ArrayParsed ==
  ASSUME NEW b \in Seq(Byte), NEW args \in Seq(Seq(Byte)), Begins(AsArray(args), b, 0)
  PROVE  /\ AsArray(args) \in Seq(Byte) /\ Len(AsArray(args)) \in Nat \ {0} /\ AsArray(args)[1] = "*"
         /\ ParseArray(b) = IF Len(AsArray(args)) <= Len(b)
                            THEN Success(args, {}, Len(AsArray(args))) ELSE Incomplete
<1> DEFINE n == Len(args)
           q == Bulks(args)
           t == FlattenSeq(q)
           H == Header("*", n)
           h == Len(H)
           eol == Find(b, CRLF, 1)
           count == SubSeq(b, 2, eol - 1)
           first == Success(<<>>, {}, eol + 1)
<1>1. q \in Seq(Seq(Byte)) /\ Len(q) = n /\ n \in Nat /\ \A i \in 1 .. n : q[i] = Bulk(args[i]) /\ args[i] \in Seq(Byte)
  BY BulksAre
<1>2. t \in Seq(Byte) /\ \E o \in [0 .. Len(q) -> Nat] : PartsAt(o, q, t)
  <2> HIDE DEF q
  <2> QED BY <1>1, FlattenPlaces
<1>3. AsArray(args) = H \o t
  BY DEF AsArray, Header, Bulks
<1>4. "*" \in Byte /\ "*" # "\r"
  BY SignsAreBytes DEF Sign
<1>5. H \in Seq(Byte) /\ h \in Nat /\ Len(b) \in Nat /\ Len(t) \in Nat
  BY <1>1, <1>2, <1>4, HeaderIs, LenProperties
<1> HIDE DEF n, q, t, H
<1>6. H \o t \in Seq(Byte) /\ Len(H \o t) = h + Len(t) /\ Begins(H, b, 0) /\ Begins(t, b, h)
  <2>1. Begins(H \o t, b, 0)
    BY <1>3
  <2>2. Begins(H, b, 0) /\ Begins(t, b, 0 + h)
    BY <1>2, <1>5, <2>1, BeginsConcat
  <2>3. H \o t \in Seq(Byte) /\ Len(H \o t) = h + Len(t)
    BY <1>2, <1>5, ConcatPlaces
  <2> QED BY <1>5, <2>2, <2>3
<1>7. HeaderRead(b, 0, "*", n)
  BY <1>1, <1>4, <1>6, HeaderParsed DEF H
<1>8. /\ h \in Nat \ {0, 1, 2}
      /\ Len(b) < h => eol = 0
      /\ h <= Len(b) => eol = h - 1 /\ SubSeq(b, 2, h - 2) = Digits(n)
  <2>1. /\ Len(Header("*", n)) \in Nat \ {0, 1, 2}
        /\ Len(b) < 0 + Len(Header("*", n)) => Find(b, CRLF, 0 + 1) = 0
        /\ 0 + Len(Header("*", n)) <= Len(b) =>
             /\ Find(b, CRLF, 0 + 1) = 0 + Len(Header("*", n)) - 1
             /\ SubSeq(b, 0 + 2, 0 + Len(Header("*", n)) - 2) = Digits(n)
    BY <1>7 DEF HeaderRead
  <2>2. 0 + 1 = 1 /\ 0 + 2 = 2 /\ 0 + h = h
    BY <1>5
  <2> QED BY <2>1, <2>2 DEF H
<1>9. AsArray(args)[1] = "*"
  <2>1. H[1] = "*"
    <3> DEFINE c == <<"*">>
               ds == Digits(n)
    <3>1. c \in Seq(Byte) /\ Len(c) = 1 /\ c[1] = "*"
      BY <1>4
    <3>2. ds \in Seq(Byte)
      <4>1. ds \in Seq(Figure)
        BY <1>1, NumberOfDigits
      <4> QED BY <4>1, SignsAreBytes, SeqMonotonic
    <3> HIDE DEF c, ds
    <3>3. c \o ds \in Seq(Byte) /\ 1 \in 1 .. Len(c \o ds) /\ (c \o ds)[1] = c[1]
      <4>1. 1 \in 1 .. Len(c)
        BY <3>1
      <4> QED BY <3>1, <3>2, <4>1, ConcatPlaces
    <3> DEFINE u == c \o ds
    <3> HIDE DEF u
    <3>4. (u \o CRLF)[1] = u[1]
      BY <3>3, CrLf, ConcatPlaces DEF u
    <3> QED BY <3>1, <3>3, <3>4 DEF H, Header, c, ds, u
  <2>2. 1 \in 1 .. Len(H)
    BY <1>5, <1>8
  <2>3. (H \o t)[1] = H[1]
    BY <1>2, <1>5, <2>2, ConcatPlaces
  <2> QED BY <1>3, <2>1, <2>3
<1>10. CASE Len(b) < h
  <2>1. ParseArray(b) = Incomplete
    BY <1>8, <1>10 DEF ParseArray
  <2>2. ~(Len(H \o t) <= Len(b))
    BY <1>5, <1>6, <1>10
  <2> QED BY <1>3, <1>5, <1>6, <1>8, <1>9, <2>1, <2>2
<1>11. CASE h <= Len(b)
  <2>1. count = Digits(n) /\ eol # 0 /\ eol + 1 = h
    <3>1. eol = h - 1 /\ SubSeq(b, 2, h - 2) = Digits(n) /\ eol - 1 = h - 2
      BY <1>8, <1>11
    <3> HIDE DEF eol
    <3> QED BY <1>8, <3>1
  <2>2. IsNumber(count) /\ Number(count) = n
    BY <1>1, <2>1, NumberOfDigits
  <2>3. ParseArray(b) = Items(b, first, n)
    <3>1. ~(Number(count) < 0)
      BY <1>1, <2>2
    <3>2. ParseArray(b) = IF eol = 0 THEN Incomplete
                          ELSE IF ~IsNumber(count) THEN Error
                          ELSE IF Number(count) < 0 THEN first ELSE Items(b, first, Number(count))
      BY DEF ParseArray
    <3> HIDE DEF eol, count, first
    <3> QED BY <2>1, <2>2, <3>1, <3>2
  <2>4. first = Success(<<>>, {}, h)
    BY <2>1
  <2>5. PICK o \in [0 .. n -> Nat] : PartsAt(o, q, t)
    BY <1>1, <1>2
  <2> DEFINE Read(i) == IF h + o[i] <= Len(b) THEN Success(SubSeq(args, 1, i), {}, h + o[i]) ELSE Incomplete
             f == [i \in 0 .. n |-> Read(i)]
  <2>6. f = [i \in 0 .. n |-> f[i]] /\ \A i \in 0 .. n : f[i] = Read(i)
    OBVIOUS
  <2>7. o[0] = 0 /\ o[n] = Len(t)
    BY <1>1, <2>5 DEF PartsAt
  <2>8. f[0] = first
    <3>1. SubSeq(args, 1, 0) = <<>>
      BY SubSeqEmpty
    <3>2. 0 \in 0 .. n /\ h + o[0] = h
      BY <1>1, <1>5, <2>7
    <3> HIDE DEF first, f
    <3> QED BY <1>11, <2>4, <2>6, <3>1, <3>2
  <2> HIDE DEF f, first
  <2>9. \A i \in 1 .. n : f[i] = IF f[i - 1].status = "success" THEN Item(b, f[i - 1]) ELSE f[i - 1]
    <3> TAKE i \in 1 .. n
    <3>1. /\ o[i - 1] \in Nat /\ o[i] \in Nat /\ Len(q[i]) \in Nat /\ o[i] = o[i - 1] + Len(q[i])
          /\ i - 1 \in 0 .. n /\ i \in 0 .. n
      <4>1. i \in 1 .. Len(q) /\ o \in [0 .. Len(q) -> Nat]
        BY <1>1
      <4>2. o[i - 1] \in Nat /\ o[i] \in Nat /\ Len(q[i]) \in Nat /\ o[i] = o[i - 1] + Len(q[i])
        BY <1>1, <2>5, <4>1, PartsGrow
      <4> QED BY <1>1, <4>2
    <3>2. q[i] = Bulk(args[i]) /\ args[i] \in Seq(Byte)
      BY <1>1
    <3>3. Begins(q[i], b, h + o[i - 1])
      <4>1. i \in 1 .. Len(q) /\ o \in [0 .. Len(q) -> Nat]
        BY <1>1
      <4> QED BY <1>1, <1>5, <1>6, <2>5, <4>1, BeginsParts
    <3> DEFINE p == h + o[i - 1]
    <3>4. p \in Nat /\ p + Len(q[i]) = h + o[i]
      BY <1>5, <3>1
    <3>5. f[i - 1] = Read(i - 1) /\ f[i] = Read(i)
      BY <2>6, <3>1
    <3>6. CASE p <= Len(b)
      <4>1. f[i - 1] = Success(SubSeq(args, 1, i - 1), {}, p)
        BY <3>5, <3>6
      <4> HIDE DEF p
      <4>2. Item(b, f[i - 1]) = IF p + Len(Bulk(args[i])) <= Len(b)
                                THEN Success(Append(SubSeq(args, 1, i - 1), args[i]), {}, p + Len(Bulk(args[i])))
                                ELSE Incomplete
        BY <3>2, <3>3, <3>4, <4>1, ItemParsed DEF p
      <4>3. Append(SubSeq(args, 1, i - 1), args[i]) = SubSeq(args, 1, i)
        BY <1>1, OneMore DEF n
      <4>4. f[i - 1].status = "success"
        BY <4>1 DEF Success
      <4> QED BY <3>2, <3>4, <3>5, <4>2, <4>3, <4>4
    <3>7. CASE ~(p <= Len(b))
      <4>1. f[i - 1] = Incomplete
        BY <3>5, <3>7
      <4>2. ~(h + o[i] <= Len(b))
        BY <1>5, <3>1, <3>7
      <4>3. f[i] = Incomplete
        BY <3>5, <4>2
      <4>4. f[i - 1].status # "success"
        BY <4>1 DEF Incomplete
      <4> QED BY <4>1, <4>3, <4>4
    <3> QED BY <3>6, <3>7
  <2>10. Items(b, first, n) = f[n]
    <3>1. ReadsItems(f, b, first, n)
      BY <2>6, <2>8, <2>9 DEF ReadsItems
    <3> QED BY <1>1, <3>1, ItemsAre
  <2>11. SubSeq(args, 1, n) = args
    BY SubSeqFull DEF n
  <2>12. f[n] = IF h + Len(t) <= Len(b) THEN Success(args, {}, h + Len(t)) ELSE Incomplete
    <3>1. n \in 0 .. n
      BY <1>1
    <3>2. f[n] = Read(n)
      BY <2>6, <3>1
    <3> QED BY <2>7, <2>11, <3>2
  <2> QED BY <1>3, <1>5, <1>6, <1>8, <1>9, <2>3, <2>10, <2>12
<1> QED BY <1>5, <1>10, <1>11

-----------------------------------------------------------------------------
(* A request that is a line. *)

Special == {"\"", "\\"}

\* The bytes around a word.
DoubleQuote == "\""
Backslash == "\\"
Space == " "

\* Between two words, in a word behind its quote, and behind a backslash.
Gap(ws, u, es) ==
  [mode |-> "gap", words |-> ws, word |-> <<>>, quote |-> " ", escaped |-> FALSE, used |-> u, ends |-> es]
InQuotes(ws, u, es, w, x) ==
  [mode |-> "quoted", words |-> ws, word |-> w, quote |-> "\"", escaped |-> x, used |-> u, ends |-> es]
InEscaped(ws, u, es, w) == InQuotes(ws, u, es, w, TRUE)
Escaping(ws, u, es, w) ==
  [mode |-> "escape", words |-> ws, word |-> w, quote |-> "\"", escaped |-> TRUE, used |-> u, ends |-> es]

LEMMA OpensQuote ==
  ASSUME NEW ws, NEW u, NEW es
  PROVE  /\ ReadByte(Gap(ws, u, es), DoubleQuote) = InQuotes(ws, u, es, <<>>, FALSE)
         /\ ReadByte(Gap(ws, u, es), Space) = Gap(ws, u, es)
BY DEF ReadByte, Gap, InQuotes, Blank, Quote, DoubleQuote, Space

LEMMA EndsInGap ==
  ASSUME NEW ws, NEW u, NEW es
  PROVE  Finished(Gap(ws, u, es)) = Gap(ws, u, es)
BY DEF Gap, Finished

LEMMA ReadsOn ==
  ASSUME NEW ws, NEW u, NEW es, NEW w, NEW x, NEW ch, ch \notin Special
  PROVE  ReadByte(InQuotes(ws, u, es, w, x), ch) = InQuotes(ws, u, es, Append(w, ch), x)
BY DEF ReadByte, InQuotes, Escaping, Special

LEMMA ReadsBackslash ==
  ASSUME NEW ws, NEW u, NEW es, NEW w, NEW x
  PROVE  ReadByte(InQuotes(ws, u, es, w, x), Backslash) = Escaping(ws, u, es, w)
BY DEF ReadByte, InQuotes, Escaping, Backslash

LEMMA ReadsEscaped ==
  ASSUME NEW ws, NEW u, NEW es, NEW w, NEW ch
  PROVE  ReadByte(Escaping(ws, u, es, w), ch) = InEscaped(ws, u, es, Append(w, ch))
BY DEF ReadByte, InEscaped, InQuotes, Escaping

LEMMA GapIs ==
  ASSUME NEW A, NEW U, NEW E
  PROVE  [NoWords EXCEPT !.words = A, !.used = U, !.ends = E] = Gap(A, U, E)
<1> DEFINE m == "gap"
           w == <<>>
           q == " "
           x == FALSE
           z == 0
<1>1. NoWords = [mode |-> m, words |-> w, word |-> w, quote |-> q, escaped |-> x, used |-> z, ends |-> w]
  BY DEF NoWords
<1>2. Gap(A, U, E) = [mode |-> m, words |-> A, word |-> w, quote |-> q, escaped |-> x, used |-> U, ends |-> E]
  BY DEF Gap
<1> HIDE DEF m, w, q, x, z
<1> DEFINE r1 == [NoWords EXCEPT !.words = A]
           r2 == [r1 EXCEPT !.used = U]
           r3 == [r2 EXCEPT !.ends = E]
<1>3. [NoWords EXCEPT !.words = A, !.used = U, !.ends = E] = r3
  OBVIOUS
<1>4. r1 = [mode |-> m, words |-> A, word |-> w, quote |-> q, escaped |-> x, used |-> z, ends |-> w]
  BY <1>1
<1> HIDE DEF r1
<1>5. r2 = [mode |-> m, words |-> A, word |-> w, quote |-> q, escaped |-> x, used |-> U, ends |-> w]
  BY <1>4
<1> HIDE DEF r2
<1>6. r3 = [mode |-> m, words |-> A, word |-> w, quote |-> q, escaped |-> x, used |-> U, ends |-> E]
  BY <1>5
<1> QED BY <1>2, <1>3, <1>6

LEMMA EmittedIs ==
  ASSUME NEW s, NEW u, NEW e,
         u = IF s.escaped THEN s.used + Len(s.word) ELSE s.used, e = IF s.escaped THEN u ELSE 0
  PROVE  Emitted(s) = Gap(Append(s.words, s.word), u, Append(s.ends, e))
<1>2. Emitted(s) = [NoWords EXCEPT !.words = Append(s.words, s.word), !.used = u, !.ends = Append(s.ends, e)]
  <2> DEFINE U == IF s.escaped THEN s.used + Len(s.word) ELSE s.used
             E == IF s.escaped THEN U ELSE 0
  <2>1. Emitted(s) = [NoWords EXCEPT !.words = Append(s.words, s.word), !.used = U, !.ends = Append(s.ends, E)]
    BY DEF Emitted
  <2>2. u = U /\ e = E
    OBVIOUS
  <2> HIDE DEF U, E
  <2> QED BY <2>1, <2>2
<1> HIDE DEF NoWords
<1> QED BY <1>2, GapIs

LEMMA ClosesWord ==
  ASSUME NEW ws, NEW u, NEW es, NEW w, NEW x \in BOOLEAN
  PROVE  ReadByte(InQuotes(ws, u, es, w, x), "\"") =
           Gap(Append(ws, w), IF x THEN u + Len(w) ELSE u, Append(es, IF x THEN u + Len(w) ELSE 0))
<1> DEFINE s == InQuotes(ws, u, es, w, x)
<1>1. s.mode = "quoted" /\ s.quote = "\"" /\ s.words = ws /\ s.word = w /\ s.escaped = x /\ s.used = u /\ s.ends = es
  BY DEF InQuotes
<1> HIDE DEF s
<1>2. ReadByte(s, "\"") = Emitted(s)
  BY <1>1 DEF ReadByte
<1>3. Emitted(s) = Gap(Append(ws, w), IF x THEN u + Len(w) ELSE u, Append(es, IF x THEN u + Len(w) ELSE 0))
  <2> DEFINE v == IF x THEN u + Len(w) ELSE u
             e == IF x THEN u + Len(w) ELSE 0
  <2>1. v = IF s.escaped THEN s.used + Len(s.word) ELSE s.used
    BY <1>1
  <2>2. e = IF s.escaped THEN v ELSE 0
    BY <1>1
  <2> HIDE DEF v, e
  <2>3. Emitted(s) = Gap(Append(s.words, s.word), v, Append(s.ends, e))
    BY <2>1, <2>2, EmittedIs
  <2> QED BY <1>1, <2>3 DEF v, e
<1> QED BY <1>2, <1>3 DEF s

\* The states of the parser inside of a line.
Scan == [mode : {"gap", "bare", "quoted", "escape"}, words : Seq(Seq(Byte)), word : Seq(Byte), quote : Byte,
         escaped : BOOLEAN, used : Nat, ends : Seq(Nat)]

LEMMA EmittedType ==
  ASSUME NEW s \in Scan
  PROVE  Emitted(s) \in Scan
<1> DEFINE T == Seq(Byte)
<1>1. /\ s.words \in Seq(T) /\ s.word \in T /\ s.escaped \in BOOLEAN /\ s.used \in Nat /\ s.ends \in Seq(Nat)
  BY DEF Scan
<1>2. Len(s.word) \in Nat
  BY <1>1, LenProperties
<1>3. " " \in Byte /\ <<>> \in T
  BY SignsAreBytes, EmptySeq DEF Sign
<1> DEFINE u == IF s.escaped THEN s.used + Len(s.word) ELSE s.used
           e == IF s.escaped THEN u ELSE 0
<1>4. u \in Nat /\ e \in Nat
  BY <1>1, <1>2
<1>5. Append(s.words, s.word) \in Seq(T) /\ Append(s.ends, e) \in Seq(Nat)
  <2> HIDE DEF T, e
  <2> QED BY <1>1, <1>4, AppendProperties
<1>6. Emitted(s) = Gap(Append(s.words, s.word), u, Append(s.ends, e))
  BY EmittedIs
<1> HIDE DEF u, e, T
<1>7. Gap(Append(s.words, s.word), u, Append(s.ends, e)) \in Scan
  BY <1>3, <1>4, <1>5 DEF Scan, Gap, T
<1> QED BY <1>6, <1>7

LEMMA ReadByteType ==
  ASSUME NEW s \in Scan, NEW ch \in Byte
  PROVE  ReadByte(s, ch) \in Scan
<1> DEFINE T == Seq(Byte)
           a == Append(s.word, ch)
           o == <<ch>>
<1>1. /\ s.mode \in {"gap", "bare", "quoted", "escape"} /\ s.words \in Seq(T) /\ s.word \in T
      /\ s.quote \in Byte /\ s.escaped \in BOOLEAN /\ s.used \in Nat /\ s.ends \in Seq(Nat)
  BY DEF Scan
<1>2. a \in T /\ o \in T
  BY <1>1, AppendProperties
<1>3. Emitted(s) \in Scan
  BY EmittedType
<1> DEFINE Results == {s, Emitted(s), [s EXCEPT !.mode = "quoted", !.quote = ch],
                       [s EXCEPT !.mode = "bare", !.word = o], [s EXCEPT !.word = a],
                       [s EXCEPT !.mode = "escape", !.escaped = TRUE], [s EXCEPT !.mode = "quoted", !.word = a]}
<1>4. ReadByte(s, ch) \in Results
  BY <1>1 DEF ReadByte
<1>5. Results \subseteq Scan
  <2> HIDE DEF a, o
  <2>1. [s EXCEPT !.mode = "quoted", !.quote = ch] \in Scan
    BY DEF Scan
  <2>2. [s EXCEPT !.mode = "bare", !.word = o] \in Scan
    BY <1>2 DEF Scan
  <2>3. [s EXCEPT !.word = a] \in Scan
    BY <1>2 DEF Scan
  <2>4. [s EXCEPT !.mode = "escape", !.escaped = TRUE] \in Scan
    BY DEF Scan
  <2>5. [s EXCEPT !.mode = "quoted", !.word = a] \in Scan
    BY <1>2 DEF Scan
  <2> QED BY <1>3, <2>1, <2>2, <2>3, <2>4, <2>5
<1> QED BY <1>4, <1>5

\* The states of the parser after each byte of a line.
Scans(f, line) ==
  f[0] = NoWords /\ \A i \in 1 .. Len(line) : f[i] = ReadByte(f[i - 1], line[i])

LEMMA WordsUnfold ==
  ASSUME NEW line \in Seq(Byte)
  PROVE  \E f \in [0 .. Len(line) -> Scan] : Scans(f, line) /\ Words(line) = Finished(f[Len(line)])
<1> DEFINE n == Len(line)
           G == [p \in Scan \X (1 .. n) |-> ReadByte(p[1], line[p[2]])]
           Body(f) == [i \in 0 .. n |-> IF i = 0 THEN NoWords ELSE ReadByte(f[i - 1], line[i])]
           h == CHOOSE f : f = Body(f)
<1>1. n \in Nat /\ \A i \in 1 .. n : line[i] \in Byte
  BY LenProperties
<1> HIDE DEF n
<1>2. G \in [Scan \X (1 .. n) -> Scan] /\ \A t \in Scan, i \in 1 .. n : G[<<t, i>>] = ReadByte(t, line[i])
  BY <1>1, ReadByteType
<1>3. NoWords \in Scan
  <2>1. " " \in Byte /\ <<>> \in Seq(Byte) /\ <<>> \in Seq(Seq(Byte)) /\ <<>> \in Seq(Nat)
    BY SignsAreBytes, EmptySeq DEF Sign
  <2> QED BY <2>1 DEF NoWords, Scan
<1> HIDE DEF G
<1>4. PICK f \in [0 .. n -> Scan] : f[0] = NoWords /\ \A i \in 1 .. n : f[i] = G[<<f[i - 1], i>>]
  <2>1. \E f : Recursion(f, n, Scan, NoWords, G)
    BY <1>1, <1>2, <1>3, RecursionExists
  <2> QED BY <2>1 DEF Recursion
<1>5. \A i \in 1 .. n : f[i] = ReadByte(f[i - 1], line[i])
  <2> TAKE i \in 1 .. n
  <2>1. i - 1 \in 0 .. n
    BY <1>1
  <2> QED BY <1>2, <1>4, <2>1
<1>6. f = Body(f)
  <2>1. f = [i \in 0 .. n |-> f[i]]
    BY <1>4
  <2>2. \A i \in 0 .. n : f[i] = Body(f)[i]
    <3> TAKE i \in 0 .. n
    <3>1. i = 0 \/ i \in 1 .. n
      BY <1>1
    <3> QED BY <1>4, <1>5, <3>1
  <2> QED BY <2>1, <2>2
<1>7. h = Body(h)
  <2> HIDE DEF Body
  <2> QED BY <1>6
<1>8. h[0] = NoWords /\ \A i \in 1 .. n : h[i] = ReadByte(h[i - 1], line[i])
  <2>1. \A g : Body(g)[0] = NoWords /\ \A i \in 1 .. n : Body(g)[i] = ReadByte(g[i - 1], line[i])
    BY <1>1
  <2> HIDE DEF h, Body
  <2>2. h[0] = Body(h)[0] /\ \A i \in 1 .. n : h[i] = Body(h)[i]
    BY <1>1, <1>7
  <2> QED BY <2>1, <2>2
<1> DEFINE P == {i \in 0 .. n : h[i] = f[i]}
<1> HIDE DEF h
<1>9. 0 \in P
  BY <1>1, <1>4, <1>8
<1>10. \A i \in 1 .. n : i - 1 \in P => i \in P
  <2> SUFFICES ASSUME NEW i \in 1 .. n, h[i - 1] = f[i - 1] PROVE h[i] = f[i]
    BY <1>1
  <2> QED BY <1>5, <1>8
<1> HIDE DEF P
<1>11. 0 .. n \subseteq P
  BY <1>1, <1>9, <1>10, InductionUpTo
<1>12. h[n] = f[n]
  BY <1>1, <1>11 DEF P
<1>13. Words(line) = Finished(h[n])
  BY DEF Words, h, n
<1> QED BY <1>4, <1>5, <1>12, <1>13 DEF Scans, n

\* The letters of a word in quotes.
Spelled(ch) == IF ch \in Special THEN <<"\\", ch>> ELSE <<ch>>
Spelling(arg) == [i \in DOMAIN arg |-> Spelled(arg[i])]
IsSpecial(arg, n) == \E i \in 1 .. n : arg[i] \in Special

LEMMA SpellingIs ==
  ASSUME NEW arg \in Seq(Byte)
  PROVE  /\ Len(arg) \in Nat /\ Spelling(arg) \in Seq(Seq(Byte)) /\ Len(Spelling(arg)) = Len(arg)
         /\ \A i \in 1 .. Len(arg) :
              /\ arg[i] \in Byte /\ Spelling(arg)[i] = Spelled(arg[i])
              /\ arg[i] \in Special => Spelled(arg[i]) = <<"\\", arg[i]>>
              /\ arg[i] \notin Special => Spelled(arg[i]) = <<arg[i]>>
<1> DEFINE T == Seq(Byte)
           n == Len(arg)
<1>1. n \in Nat /\ DOMAIN arg = 1 .. n /\ \A i \in 1 .. n : arg[i] \in Byte
  BY LenProperties
<1>2. \A c \in Byte : Spelled(c) \in T
  <2>1. "\\" \in Byte
    BY SignsAreBytes DEF Sign
  <2> QED BY <2>1 DEF Spelled
<1> HIDE DEF T, n
<1>3. Spelling(arg) \in [1 .. n -> T] /\ \A i \in 1 .. n : Spelling(arg)[i] = Spelled(arg[i])
  BY <1>1, <1>2 DEF Spelling
<1>4. Spelling(arg) \in Seq(T) /\ Len(Spelling(arg)) = n
  BY <1>1, <1>3
<1> QED BY <1>1, <1>3, <1>4 DEF T, n, Spelled

LEMMA SingleIs ==
  ASSUME NEW x \in Byte
  PROVE  <<x>> \in Seq(Byte) /\ Len(<<x>>) = 1 /\ <<x>>[1] = x /\ Elements(<<x>>) = {x}
BY DEF Elements

\* What is put together of a and c.
Joined(e, a, c) ==
  /\ e \in Seq(Byte) /\ Len(a) \in Nat /\ Len(c) \in Nat /\ Len(e) = Len(a) + Len(c)
  /\ \A i \in 1 .. Len(a) : e[i] = a[i]
  /\ \A i \in 1 .. Len(c) : e[Len(a) + i] = c[i]
  /\ Elements(e) = Elements(a) \cup Elements(c)
  /\ \A b \in Seq(Byte), p \in Nat : Begins(e, b, p) => Begins(a, b, p) /\ Begins(c, b, p + Len(a))

LEMMA JoinIs ==
  ASSUME NEW a \in Seq(Byte), NEW c \in Seq(Byte)
  PROVE  Joined(a \o c, a, c)
<1>1. a \in Seq(Byte) /\ c \in Seq(Byte)
  OBVIOUS
<1>2. /\ a \o c \in Seq(Byte) /\ Len(a) \in Nat /\ Len(c) \in Nat /\ Len(a \o c) = Len(a) + Len(c)
      /\ \A i \in 1 .. Len(a) : (a \o c)[i] = a[i]
      /\ \A i \in 1 .. Len(c) : (a \o c)[Len(a) + i] = c[i]
  BY ONLY <1>1, ConcatPlaces
<1>3. Elements(a \o c) = Elements(a) \cup Elements(c)
  BY ONLY <1>1, ConcatElements
<1>4. \A b \in Seq(Byte), p \in Nat :
        Begins(a \o c, b, p) => Begins(a, b, p) /\ Begins(c, b, p + Len(a))
  BY ONLY <1>1, BeginsConcat
<1> QED BY <1>2, <1>3, <1>4 DEF Joined

LEMMA Letters ==
  /\ {DoubleQuote, Backslash, Space, "\r", "\n", "*"} \subseteq Byte
  /\ Special = {DoubleQuote, Backslash}
  /\ Space \notin Special /\ Space \notin {"\r", "\n"} /\ Backslash # DoubleQuote
  /\ DoubleQuote \notin {"\r", "\n", "*"} /\ Backslash \notin {"\r", "\n", "*"}
<1>1. {DoubleQuote, Backslash, Space, "\r", "\n", "*"} \subseteq Byte
  BY SignsAreBytes DEF Sign, DoubleQuote, Backslash, Space
<1>2. Special = {DoubleQuote, Backslash}
  BY DEF Special, DoubleQuote, Backslash
<1>3. Space \notin Special /\ Space \notin {"\r", "\n"} /\ Backslash # DoubleQuote
  BY DEF Special, DoubleQuote, Backslash, Space
<1>4. DoubleQuote \notin {"\r", "\n", "*"} /\ Backslash \notin {"\r", "\n", "*"}
  BY DEF DoubleQuote, Backslash
<1> QED BY <1>1, <1>2, <1>3, <1>4

\* A word in quotes, and the blank behind it.
Word(arg) == Quoted(arg) \o <<" ">>

LEMMA WordIs ==
  ASSUME NEW arg \in Seq(Byte)
  PROVE  /\ FlattenSeq(Spelling(arg)) \in Seq(Byte) /\ Len(FlattenSeq(Spelling(arg))) \in Nat
         /\ Word(arg) \in Seq(Byte) /\ Len(Word(arg)) = Len(FlattenSeq(Spelling(arg))) + 3
         /\ Word(arg)[1] = DoubleQuote
         /\ Elements(Word(arg)) \subseteq {DoubleQuote, Backslash, Space} \cup Elements(arg)
         /\ \A b \in Seq(Byte), p \in Nat : Begins(Word(arg), b, p) =>
              /\ Begins(<<DoubleQuote>>, b, p)
              /\ Begins(FlattenSeq(Spelling(arg)), b, p + 1)
              /\ Begins(<<DoubleQuote>>, b, p + 1 + Len(FlattenSeq(Spelling(arg))))
              /\ Begins(<<Space>>, b, p + 2 + Len(FlattenSeq(Spelling(arg))))
<1> DEFINE q == Spelling(arg)
           t == FlattenSeq(q)
           c == <<DoubleQuote>>
           d == <<Space>>
<1>1. Spelling(arg) \in Seq(Seq(Byte)) /\ Len(q) = Len(arg) /\ Len(arg) \in Nat
  BY SpellingIs
<1>2. t \in Seq(Byte) /\ Len(t) \in Nat
  BY <1>1, FlattenPlaces, LenProperties
<1>3. /\ c \in Seq(Byte) /\ Len(c) = 1 /\ c[1] = DoubleQuote /\ Elements(c) = {DoubleQuote}
      /\ d \in Seq(Byte) /\ Len(d) = 1 /\ Elements(d) = {Space}
  <2>1. DoubleQuote \in Byte /\ Space \in Byte
    BY Letters
  <2> QED BY <2>1, SingleIs
<1>4. Quoted(arg) = (c \o t) \o c
  BY DEF Quoted, Spelling, Spelled, Special, DoubleQuote
<1>5. Elements(t) \subseteq {Backslash} \cup Elements(arg)
  <2>1. Elements(t) = UNION {Elements(q[i]) : i \in 1 .. Len(q)}
    BY <1>1, FlattenElements
  <2>2. \A i \in 1 .. Len(q) : Elements(q[i]) \subseteq {Backslash} \cup Elements(arg)
    <3> TAKE i \in 1 .. Len(q)
    <3>1. arg[i] \in Elements(arg)
      BY <1>1 DEF Elements
    <3>2. q[i] = Spelled(arg[i])
      BY <1>1, SpellingIs
    <3>3. Elements(<<Backslash, arg[i]>>) \subseteq {Backslash, arg[i]} /\ Elements(<<arg[i]>>) \subseteq {arg[i]}
      BY DEF Elements
    <3>4. Spelled(arg[i]) = <<Backslash, arg[i]>> \/ Spelled(arg[i]) = <<arg[i]>>
      BY DEF Spelled, Backslash
    <3> QED BY <3>1, <3>2, <3>3, <3>4
  <2> HIDE DEF q, t
  <2> QED BY <2>1, <2>2
<1> HIDE DEF q, t, c, d
<1> DEFINE ct == c \o t
           ctc == ct \o c
           w == ctc \o d
<1>6. Word(arg) = w
  BY <1>4 DEF Word, d, Space
<1>7. /\ ct \in Seq(Byte) /\ Len(ct) = 1 + Len(t) /\ ct[1] = c[1] /\ Elements(ct) = Elements(c) \cup Elements(t)
      /\ \A b \in Seq(Byte), p \in Nat : Begins(ct, b, p) => Begins(c, b, p) /\ Begins(t, b, p + 1)
  <2>1. Joined(ct, c, t)
    BY <1>2, <1>3, JoinIs
  <2> HIDE DEF ct
  <2>2. /\ ct \in Seq(Byte) /\ Len(ct) = Len(c) + Len(t)
        /\ \A i \in 1 .. Len(c) : ct[i] = c[i]
        /\ Elements(ct) = Elements(c) \cup Elements(t)
        /\ \A b \in Seq(Byte), p \in Nat : Begins(ct, b, p) => Begins(c, b, p) /\ Begins(t, b, p + Len(c))
    BY <2>1 DEF Joined
  <2>3. Len(c) = 1 /\ 1 \in 1 .. Len(c)
    BY <1>2, <1>3
  <2> QED BY <1>2, <1>3, <2>2, <2>3
<1>8. /\ ctc \in Seq(Byte) /\ Len(ctc) = 2 + Len(t) /\ ctc[1] = c[1] /\ Elements(ctc) = Elements(ct) \cup Elements(c)
      /\ \A b \in Seq(Byte), p \in Nat : Begins(ctc, b, p) => Begins(ct, b, p) /\ Begins(c, b, p + (1 + Len(t)))
  <2>1. Joined(ctc, ct, c)
    BY <1>2, <1>3, <1>7, JoinIs
  <2> HIDE DEF ct, ctc
  <2>2. /\ ctc \in Seq(Byte) /\ Len(ctc) = Len(ct) + Len(c)
        /\ \A i \in 1 .. Len(ct) : ctc[i] = ct[i]
        /\ Elements(ctc) = Elements(ct) \cup Elements(c)
        /\ \A b \in Seq(Byte), p \in Nat : Begins(ctc, b, p) => Begins(ct, b, p) /\ Begins(c, b, p + Len(ct))
    BY <2>1 DEF Joined
  <2>3. Len(ct) = 1 + Len(t) /\ 1 \in 1 .. Len(ct)
    BY <1>2, <1>3, <1>7
  <2> QED BY <1>2, <1>3, <1>7, <2>2, <2>3
<1>9. /\ w \in Seq(Byte) /\ Len(w) = 3 + Len(t) /\ w[1] = c[1] /\ Elements(w) = Elements(ctc) \cup Elements(d)
      /\ \A b \in Seq(Byte), p \in Nat : Begins(w, b, p) => Begins(ctc, b, p) /\ Begins(d, b, p + (2 + Len(t)))
  <2>1. Joined(w, ctc, d)
    BY <1>2, <1>3, <1>8, JoinIs
  <2> HIDE DEF ct, ctc, w
  <2>2. /\ w \in Seq(Byte) /\ Len(w) = Len(ctc) + Len(d)
        /\ \A i \in 1 .. Len(ctc) : w[i] = ctc[i]
        /\ Elements(w) = Elements(ctc) \cup Elements(d)
        /\ \A b \in Seq(Byte), p \in Nat : Begins(w, b, p) => Begins(ctc, b, p) /\ Begins(d, b, p + Len(ctc))
    BY <2>1 DEF Joined
  <2>3. Len(ctc) = 2 + Len(t) /\ 1 \in 1 .. Len(ctc)
    BY <1>2, <1>3, <1>8
  <2> QED BY <1>2, <1>3, <1>8, <2>2, <2>3
<1> HIDE DEF ct, ctc, w
<1>10. ASSUME NEW b \in Seq(Byte), NEW p \in Nat, Begins(w, b, p)
       PROVE  /\ Begins(c, b, p) /\ Begins(t, b, p + 1)
              /\ Begins(c, b, p + 1 + Len(t)) /\ Begins(d, b, p + 2 + Len(t))
  <2>1. Begins(ctc, b, p) /\ Begins(d, b, p + (2 + Len(t)))
    BY <1>9, <1>10
  <2>2. Begins(ct, b, p) /\ Begins(c, b, p + (1 + Len(t)))
    BY <1>8, <2>1
  <2>3. Begins(c, b, p) /\ Begins(t, b, p + 1)
    BY <1>7, <2>2
  <2>4. p + (2 + Len(t)) = p + 2 + Len(t) /\ p + (1 + Len(t)) = p + 1 + Len(t)
    BY <1>2
  <2> QED BY <2>1, <2>2, <2>3, <2>4
<1>11. Elements(w) \subseteq {DoubleQuote, Backslash, Space} \cup Elements(arg)
  BY <1>3, <1>5, <1>7, <1>8, <1>9
<1>12. /\ t \in Seq(Byte) /\ Len(t) \in Nat
       /\ w \in Seq(Byte) /\ Len(w) = Len(t) + 3 /\ w[1] = DoubleQuote
       /\ Elements(w) \subseteq {DoubleQuote, Backslash, Space} \cup Elements(arg)
  <2>1. 3 + Len(t) = Len(t) + 3
    BY <1>2
  <2> QED BY <1>2, <1>3, <1>9, <1>11, <2>1
<1> QED BY <1>6, <1>10, <1>12 DEF t, q, c, d

LEMMA ClosesQuote ==
  ASSUME NEW ws, NEW u, NEW es, NEW w, NEW x \in BOOLEAN,
         NEW e, e = IF x THEN u + Len(w) ELSE u, NEW z, z = IF x THEN u + Len(w) ELSE 0
  PROVE  ReadByte(InQuotes(ws, u, es, w, x), DoubleQuote) = Gap(Append(ws, w), e, Append(es, z))
<1>1. ReadByte(InQuotes(ws, u, es, w, x), DoubleQuote) =
        Gap(Append(ws, w), IF x THEN u + Len(w) ELSE u, Append(es, IF x THEN u + Len(w) ELSE 0))
  <2>1. DoubleQuote = "\""
    BY DEF DoubleQuote
  <2>2. ReadByte(InQuotes(ws, u, es, w, x), "\"") =
          Gap(Append(ws, w), IF x THEN u + Len(w) ELSE u, Append(es, IF x THEN u + Len(w) ELSE 0))
    BY ClosesWord, ZenonT(60)
  <2> QED BY <2>1, <2>2, Zenon
<1> QED BY <1>1

\* Some bytes of a line.
ReadsAll(f, line, t, p) ==
  /\ Len(t) = 1 => f[p + 1] = ReadByte(f[p], t[1])
  /\ Len(t) = 2 => f[p + 1] = ReadByte(f[p], t[1]) /\ f[p + 2] = ReadByte(f[p + 1], t[2])

LEMMA ReadsBytes ==
  ASSUME NEW line \in Seq(Byte), NEW f, Scans(f, line), NEW p \in Nat, NEW t \in Seq(Byte),
         Begins(t, line, p), p + Len(t) <= Len(line)
  PROVE  ReadsAll(f, line, t, p)
<1>1. Len(line) \in Nat /\ Len(t) \in Nat
  BY LenProperties
<1>2. ASSUME NEW j \in 1 .. Len(t) PROVE f[p + j] = ReadByte(f[p + j - 1], t[j])
  <2>1. p + j \in 1 .. Len(line) /\ p + j <= Len(line)
    BY <1>1
  <2>2. line[p + j] = t[j]
    BY <2>1 DEF Begins
  <2> QED BY <2>1, <2>2 DEF Scans
<1>3. p + 1 - 1 = p /\ p + 2 - 1 = p + 1
  OBVIOUS
<1>4. ASSUME Len(t) = 1 PROVE f[p + 1] = ReadByte(f[p], t[1])
  <2>1. 1 \in 1 .. Len(t)
    BY <1>4
  <2>2. f[p + 1] = ReadByte(f[p + 1 - 1], t[1])
    BY <1>2, <2>1
  <2> QED BY <1>3, <2>2
<1>5. ASSUME Len(t) = 2
      PROVE  f[p + 1] = ReadByte(f[p], t[1]) /\ f[p + 2] = ReadByte(f[p + 1], t[2])
  <2>1. 1 \in 1 .. Len(t) /\ 2 \in 1 .. Len(t)
    BY <1>5
  <2>2. f[p + 1] = ReadByte(f[p + 1 - 1], t[1]) /\ f[p + 2] = ReadByte(f[p + 2 - 1], t[2])
    BY <1>2, <2>1
  <2> QED BY <1>3, <2>2
<1> QED BY <1>4, <1>5 DEF ReadsAll

\* A word that is read comes out as it was written.
LEMMA WordRead ==
  ASSUME NEW line \in Seq(Byte), NEW f, Scans(f, line), NEW p \in Nat, NEW arg \in Seq(Byte),
         Begins(Word(arg), line, p), p + Len(Word(arg)) <= Len(line),
         NEW ws, NEW u, NEW es, f[p] = Gap(ws, u, es),
         NEW x, x = IsSpecial(arg, Len(arg))
  PROVE  f[p + Len(Word(arg))] = Gap(Append(ws, arg), IF x THEN u + Len(arg) ELSE u,
                                     Append(es, IF x THEN u + Len(arg) ELSE 0))
<1> DEFINE q == Spelling(arg)
           t == FlattenSeq(q)
           m == Len(t)
           n == Len(arg)
           c == <<DoubleQuote>>
           d == <<Space>>
           r == p + 1
<1>1. n \in Nat /\ q \in Seq(Seq(Byte)) /\ Len(q) = n
  BY SpellingIs
<1>2. PICK o \in [0 .. n -> Nat] : PartsAt(o, q, t)
  <2>1. \E o \in [0 .. Len(q) -> Nat] : PartsAt(o, q, t)
    BY <1>1, FlattenPlaces
  <2> QED BY <1>1, <2>1
<1>3. /\ t \in Seq(Byte) /\ m \in Nat /\ Len(Word(arg)) = m + 3
      /\ Begins(c, line, p) /\ Begins(t, line, r) /\ Begins(c, line, r + m) /\ Begins(d, line, p + 2 + m)
  BY WordIs
<1>4. /\ c \in Seq(Byte) /\ Len(c) = 1 /\ c[1] = DoubleQuote
      /\ d \in Seq(Byte) /\ Len(d) = 1 /\ d[1] = Space
  <2>1. DoubleQuote \in Byte /\ Space \in Byte
    BY Letters
  <2> QED BY <2>1, SingleIs
<1>5. \A j \in 1 .. n : /\ arg[j] \in Byte /\ q[j] = Spelled(arg[j])
                        /\ arg[j] \in Special => q[j] = <<Backslash, arg[j]>>
                        /\ arg[j] \notin Special => q[j] = <<arg[j]>>
  BY SpellingIs DEF Backslash
<1> HIDE DEF q, t, m, n, c, d
<1>6. Len(line) \in Nat /\ p + m + 3 <= Len(line) /\ r \in Nat
  BY <1>3, LenProperties
<1>7. f[r] = InQuotes(ws, u, es, <<>>, FALSE)
  <2>1. p + Len(c) <= Len(line)
    BY <1>3, <1>4, <1>6
  <2>2. ReadsAll(f, line, c, p)
    BY <1>3, <1>4, <2>1, ReadsBytes
  <2>3. f[p + 1] = ReadByte(f[p], DoubleQuote)
    BY <1>4, <2>2 DEF ReadsAll
  <2>4. f[p + 1] = ReadByte(Gap(ws, u, es), DoubleQuote)
    BY <2>3
  <2> QED BY <2>4, OpensQuote
<1> HIDE DEF r
<1> DEFINE Inside(j) == InQuotes(ws, u, es, SubSeq(arg, 1, j), IsSpecial(arg, j))
           P == {j \in 0 .. n : f[r + o[j]] = Inside(j)}
<1>8. 0 \in P
  <2>1. o[0] = 0 /\ r + 0 = r
    BY <1>2, <1>6 DEF PartsAt
  <2>2. SubSeq(arg, 1, 0) = <<>>
    BY SubSeqEmpty
  <2>3. IsSpecial(arg, 0) = FALSE
    BY DEF IsSpecial
  <2>4. Inside(0) = InQuotes(ws, u, es, <<>>, FALSE)
    BY <2>2, <2>3
  <2> HIDE DEF Inside
  <2>5. f[r + o[0]] = Inside(0)
    BY <1>7, <2>1, <2>4
  <2>6. 0 \in 0 .. n
    BY <1>1
  <2> QED BY <2>5, <2>6
<1>9. ASSUME NEW j \in 1 .. n, j - 1 \in P PROVE j \in P
  <2> DEFINE w == SubSeq(arg, 1, j - 1)
             s == r + o[j - 1]
             t1 == q[j]
  <2>0. t1 \in Seq(Byte)
    BY <1>1, LenProperties
  <2>1. /\ o[j - 1] \in Nat /\ o[j] \in Nat /\ Len(t1) \in Nat /\ o[j] = o[j - 1] + Len(t1)
        /\ Begins(t1, line, s)
    <3>1. j \in 1 .. Len(q) /\ o \in [0 .. Len(q) -> Nat]
      BY <1>1, <1>2
    <3>2. o[j - 1] \in Nat /\ o[j] \in Nat /\ Len(q[j]) \in Nat /\ o[j] = o[j - 1] + Len(q[j])
      BY <1>1, <1>2, <3>1, PartsGrow
    <3>3. Begins(q[j], line, s)
      BY <1>1, <1>2, <1>3, <1>6, <3>1, BeginsParts
    <3> QED BY <3>2, <3>3
  <2>2. f[s] = InQuotes(ws, u, es, w, IsSpecial(arg, j - 1))
    BY <1>9
  <2>3. Append(w, arg[j]) = SubSeq(arg, 1, j)
    BY <1>1, OneMore DEF n
  <2>4. s \in Nat /\ s + Len(t1) = r + o[j]
    <3>1. r \in Nat /\ o[j - 1] \in Nat /\ Len(t1) \in Nat /\ o[j] = o[j - 1] + Len(t1)
      BY <1>6, <2>1
    <3> HIDE DEF t1
    <3> QED BY ONLY <3>1
  <2>5. s + Len(t1) <= Len(line) /\ (arg[j] \in Special => Len(t1) = 2 /\ t1[1] = Backslash /\ t1[2] = arg[j])
        /\ (arg[j] \notin Special => Len(t1) = 1 /\ t1[1] = arg[j])
    <3>1. arg[j] \in Special => Len(t1) = 2 /\ t1[1] = Backslash /\ t1[2] = arg[j]
      <4> SUFFICES ASSUME arg[j] \in Special PROVE Len(t1) = 2 /\ t1[1] = Backslash /\ t1[2] = arg[j]
        OBVIOUS
      <4>1. t1 = <<Backslash, arg[j]>>
        BY <1>5
      <4> HIDE DEF t1
      <4> QED BY <4>1
    <3>2. arg[j] \notin Special => Len(t1) = 1 /\ t1[1] = arg[j]
      <4> SUFFICES ASSUME arg[j] \notin Special PROVE Len(t1) = 1 /\ t1[1] = arg[j]
        OBVIOUS
      <4>1. t1 = <<arg[j]>>
        BY <1>5
      <4> HIDE DEF t1
      <4> QED BY <4>1
    <3>3. Len(t1) # 0
      <4>1. arg[j] \in Special \/ arg[j] \notin Special
        OBVIOUS
      <4> HIDE DEF t1
      <4> QED BY <3>1, <3>2, <4>1
    <3>4. o[j] \in 1 .. m
      <4>1. j \in 1 .. Len(q) /\ Len(q[j]) \in 1 .. Len(q[j])
        BY <1>1, <2>1, <3>3
      <4>2. o[j - 1] + Len(q[j]) \in 1 .. Len(t)
        BY <1>2, <4>1 DEF PartsAt
      <4> QED BY <2>1, <4>2 DEF m
    <3>5. s + Len(t1) <= Len(line)
      BY <1>3, <1>6, <2>4, <3>4 DEF r
    <3> QED BY <3>1, <3>2, <3>5
  <2>6. IsSpecial(arg, j) <=> IsSpecial(arg, j - 1) \/ arg[j] \in Special
    <3>1. \A i \in 1 .. j : i \in 1 .. j - 1 \/ i = j
      OBVIOUS
    <3>2. \A i \in 1 .. j - 1 : i \in 1 .. j
      OBVIOUS
    <3>3. j \in 1 .. j
      OBVIOUS
    <3> QED BY <3>1, <3>2, <3>3 DEF IsSpecial
  <2>7. /\ arg[j] \in Special => IsSpecial(arg, j) = TRUE
        /\ arg[j] \notin Special => IsSpecial(arg, j) = IsSpecial(arg, j - 1)
    BY <2>6 DEF IsSpecial
  <2> HIDE DEF s, w, t1
  <2>8. ReadsAll(f, line, t1, s)
    BY <2>0, <2>1, <2>4, <2>5, ReadsBytes
  <2>9. f[s + Len(t1)] = Inside(j)
    <3>1. CASE arg[j] \in Special
      <4>1. f[s + 1] = ReadByte(f[s], Backslash) /\ f[s + 2] = ReadByte(f[s + 1], arg[j])
        BY <2>5, <2>8, <3>1 DEF ReadsAll
      <4>2. f[s + 1] = ReadByte(InQuotes(ws, u, es, w, IsSpecial(arg, j - 1)), Backslash)
        BY <2>2, <4>1
      <4>3. f[s + 1] = Escaping(ws, u, es, w)
        BY <4>2, ReadsBackslash
      <4>4. f[s + 2] = ReadByte(Escaping(ws, u, es, w), arg[j])
        BY <4>1, <4>3
      <4>5. f[s + 2] = InEscaped(ws, u, es, Append(w, arg[j]))
        BY <4>4, ReadsEscaped
      <4> QED BY <2>3, <2>5, <2>7, <3>1, <4>5 DEF InEscaped
    <3>2. CASE arg[j] \notin Special
      <4>1. f[s + 1] = ReadByte(f[s], arg[j])
        BY <2>5, <2>8, <3>2 DEF ReadsAll
      <4>2. f[s + 1] = ReadByte(InQuotes(ws, u, es, w, IsSpecial(arg, j - 1)), arg[j])
        BY <2>2, <4>1
      <4>3. f[s + 1] = InQuotes(ws, u, es, Append(w, arg[j]), IsSpecial(arg, j - 1))
        BY <3>2, <4>2, ReadsOn
      <4> QED BY <2>3, <2>5, <2>7, <3>2, <4>3
    <3> QED BY <3>1, <3>2
  <2> HIDE DEF Inside
  <2>10. f[r + o[j]] = Inside(j) /\ j \in 0 .. n
    BY <1>1, <2>4, <2>9
  <2> QED BY <2>10
<1> HIDE DEF P
<1>10. 0 .. n \subseteq P
  BY <1>1, <1>8, <1>9, InductionUpTo
<1>11. f[r + m] = InQuotes(ws, u, es, arg, x)
  <2>1. n \in P
    BY <1>1, <1>10
  <2>2. SubSeq(arg, 1, n) = arg
    BY SubSeqFull DEF n
  <2>3. o[n] = m
    BY <1>1, <1>2 DEF PartsAt, m
  <2>4. f[r + o[n]] = InQuotes(ws, u, es, SubSeq(arg, 1, n), IsSpecial(arg, n))
    BY <2>1 DEF P
  <2>5. x = IsSpecial(arg, n)
    BY DEF n
  <2> QED BY <2>2, <2>3, <2>4, <2>5
<1>12. x \in BOOLEAN
  BY DEF IsSpecial
<1> DEFINE v == IF x THEN u + Len(arg) ELSE u
           e == IF x THEN u + Len(arg) ELSE 0
<1>13. ReadByte(InQuotes(ws, u, es, arg, x), DoubleQuote) = Gap(Append(ws, arg), v, Append(es, e))
  BY <1>12, ClosesQuote
<1> HIDE DEF v, e
<1>14. f[r + m + 1] = Gap(Append(ws, arg), v, Append(es, e))
  <2>1. r + m + Len(c) <= Len(line) /\ r + m \in Nat
    BY <1>3, <1>4, <1>6 DEF r
  <2>2. ReadsAll(f, line, c, r + m)
    BY <1>3, <1>4, <2>1, ReadsBytes
  <2>3. f[r + m + 1] = ReadByte(f[r + m], DoubleQuote)
    BY <1>4, <2>2 DEF ReadsAll
  <2>4. f[r + m + 1] = ReadByte(InQuotes(ws, u, es, arg, x), DoubleQuote)
    BY <1>11, <2>3
  <2> QED BY <1>13, <2>4
<1> DEFINE g == r + m + 1
<1>15. g = p + 2 + m /\ g \in Nat /\ g + 1 = p + Len(Word(arg)) /\ g + Len(d) <= Len(line)
  BY <1>3, <1>4, <1>6 DEF r
<1> HIDE DEF g
<1>16. f[g + 1] = Gap(Append(ws, arg), v, Append(es, e))
  <2>1. Begins(d, line, g)
    BY <1>3, <1>15
  <2>2. ReadsAll(f, line, d, g)
    BY <1>4, <1>15, <2>1, ReadsBytes
  <2>3. f[g + 1] = ReadByte(f[g], Space)
    BY <1>4, <2>2 DEF ReadsAll
  <2>4. f[g + 1] = ReadByte(Gap(Append(ws, arg), v, Append(es, e)), Space)
    BY <1>14, <2>3 DEF g
  <2> QED BY <2>4, OpensQuote
<1>17. f[p + Len(Word(arg))] = Gap(Append(ws, arg), v, Append(es, e))
  BY <1>15, <1>16
<1> QED BY <1>17 DEF v, e

\* The arguments with escapes, and what scratch_unescape_buf_ holds after each.
HasEscapes(arg) == IsSpecial(arg, Len(arg))
Escaped(args) == {i \in 1 .. Len(args) : HasEscapes(args[i])}
Sizes(c, args) ==
  c[0] = 0 /\ \A i \in 1 .. Len(args) : c[i] = IF HasEscapes(args[i]) THEN c[i - 1] + Len(args[i]) ELSE c[i - 1]

LEMMA EscapesAre ==
  ASSUME NEW arg \in Seq(Byte)
  PROVE  ToSet(arg) \cap Special # {} <=> HasEscapes(arg)
<1>1. ToSet(arg) = Elements(arg)
  BY ElementsAre
<1>2. Elements(arg) \cap Special # {} <=> \E i \in 1 .. Len(arg) : arg[i] \in Special
  BY DEF Elements
<1> QED BY <1>1, <1>2 DEF HasEscapes, IsSpecial

LEMMA OverflowsIs ==
  ASSUME NEW args \in Seq(Seq(Byte)), NEW r, r.args = args, r.line
  PROVE  \E c \in [0 .. Len(args) -> Nat] :
           Sizes(c, args) /\ (Overflows(r) <=> Cardinality(Escaped(args)) > 1 /\ c[Len(args)] > Reserve)
<1> DEFINE n == Len(args)
           E == {i \in DOMAIN r.args : ToSet(r.args[i]) \cap Special # {}}
           G == [p \in Nat \X (1 .. n) |-> p[1] + IF p[2] \in E THEN Len(args[p[2]]) ELSE 0]
           Body(c) == [i \in 0 .. Len(r.args) |->
                         IF i = 0 THEN 0 ELSE c[i - 1] + IF i \in E THEN Len(r.args[i]) ELSE 0]
           h == CHOOSE c : c = Body(c)
<1>1. /\ n \in Nat /\ DOMAIN args = 1 .. n
      /\ \A i \in 1 .. n : args[i] \in Seq(Byte) /\ Len(args[i]) \in Nat
  <2> DEFINE T == Seq(Byte)
  <2>1. n \in Nat /\ DOMAIN args = 1 .. n /\ \A i \in 1 .. n : args[i] \in T
    BY LenProperties
  <2>2. \A u \in T : Len(u) \in Nat
    BY LenProperties
  <2> QED BY <2>1, <2>2
<1>2. \A i \in 1 .. n : i \in E <=> HasEscapes(args[i])
  <2> TAKE i \in 1 .. n
  <2>1. ToSet(args[i]) \cap Special # {} <=> HasEscapes(args[i])
    BY <1>1, EscapesAre
  <2> QED BY <1>1, <2>1
<1>3. E = Escaped(args)
  <2>1. E \subseteq 1 .. n
    BY <1>1
  <2> HIDE DEF E
  <2> QED BY <1>2, <2>1 DEF Escaped
<1>4. Overflows(r) <=> Cardinality(E) > 1 /\ h[n] > Reserve
  <2>1. Overflows(r) <=> r.line /\ Cardinality(E) > 1 /\ h[Len(r.args)] > Reserve
    BY DEF Overflows, Special
  <2> HIDE DEF E, h
  <2> QED BY <2>1
<1> HIDE DEF E
<1>5. G \in [Nat \X (1 .. n) -> Nat]
      /\ \A t \in Nat, i \in 1 .. n : G[<<t, i>>] = t + IF i \in E THEN Len(args[i]) ELSE 0
  <2>1. \A p \in Nat \X (1 .. n) : p[1] \in Nat /\ p[2] \in 1 .. n
    OBVIOUS
  <2>2. \A p \in Nat \X (1 .. n) : (p[1] + IF p[2] \in E THEN Len(args[p[2]]) ELSE 0) \in Nat
    BY <1>1, <2>1
  <2> QED BY <2>2
<1> HIDE DEF G
<1>6. PICK c \in [0 .. n -> Nat] : c[0] = 0 /\ \A i \in 1 .. n : c[i] = G[<<c[i - 1], i>>]
  <2> HIDE DEF n
  <2>1. \E c : Recursion(c, n, Nat, 0, G)
    BY <1>1, <1>5, RecursionExists
  <2> QED BY <2>1 DEF Recursion
<1>7. \A i \in 1 .. n : c[i - 1] \in Nat /\ c[i] = c[i - 1] + IF i \in E THEN Len(args[i]) ELSE 0
  <2> TAKE i \in 1 .. n
  <2>1. i - 1 \in 0 .. n
    BY <1>1
  <2> QED BY <1>5, <1>6, <2>1
<1>8. c = Body(c)
  <2>1. c = [i \in 0 .. n |-> c[i]]
    BY <1>6
  <2>2. \A i \in 0 .. n : c[i] = Body(c)[i]
    <3> TAKE i \in 0 .. n
    <3>1. i = 0 \/ i \in 1 .. n
      BY <1>1
    <3> QED BY <1>6, <1>7, <3>1
  <2>3. Body(c) = [i \in 0 .. n |-> Body(c)[i]]
    OBVIOUS
  <2> HIDE DEF Body
  <2> QED BY <2>1, <2>2, <2>3
<1>9. h = Body(h)
  <2> HIDE DEF Body
  <2> QED BY <1>8
<1>10. h[0] = 0 /\ \A i \in 1 .. n : h[i] = h[i - 1] + IF i \in E THEN Len(args[i]) ELSE 0
  <2>1. \A g : /\ Body(g)[0] = 0
               /\ \A i \in 1 .. n : Body(g)[i] = g[i - 1] + IF i \in E THEN Len(args[i]) ELSE 0
    BY <1>1
  <2> HIDE DEF h, Body
  <2>2. h[0] = Body(h)[0] /\ \A i \in 1 .. n : h[i] = Body(h)[i]
    BY <1>1, <1>9
  <2> QED BY <2>1, <2>2
<1> DEFINE P == {i \in 0 .. n : h[i] = c[i]}
<1> HIDE DEF h
<1>11. 0 \in P
  BY <1>1, <1>6, <1>10
<1>12. \A i \in 1 .. n : i - 1 \in P => i \in P
  <2> SUFFICES ASSUME NEW i \in 1 .. n, h[i - 1] = c[i - 1] PROVE h[i] = c[i]
    BY <1>1
  <2> QED BY <1>7, <1>10
<1> HIDE DEF P
<1>13. 0 .. n \subseteq P
  <2> HIDE DEF n
  <2> QED BY <1>1, <1>11, <1>12, InductionUpTo
<1>14. h[n] = c[n]
  BY <1>1, <1>13 DEF P
<1>15. Sizes(c, args)
  <2>1. \A i \in 1 .. n : c[i] = IF HasEscapes(args[i]) THEN c[i - 1] + Len(args[i]) ELSE c[i - 1]
    <3> TAKE i \in 1 .. n
    <3>1. c[i - 1] \in Nat /\ c[i] = c[i - 1] + IF i \in E THEN Len(args[i]) ELSE 0
      BY <1>7
    <3>2. i \in E <=> HasEscapes(args[i])
      BY <1>2
    <3>3. CASE i \in E
      BY <3>1, <3>2, <3>3
    <3>4. CASE i \notin E
      BY <3>1, <3>2, <3>4
    <3> QED BY <3>3, <3>4
  <2> QED BY <1>6, <2>1 DEF Sizes
<1> QED BY <1>3, <1>4, <1>6, <1>14, <1>15

\* What is in scratch_unescape_buf_ before its end is followed by another word
\* with escapes.
LEMMA StaleIs ==
  ASSUME NEW args \in Seq(Seq(Byte)), NEW c \in [0 .. Len(args) -> Nat], Sizes(c, args),
         NEW i \in Escaped(args), c[i] < c[Len(args)]
  PROVE  Cardinality(Escaped(args)) > 1
<1> DEFINE n == Len(args)
           E == Escaped(args)
<1>1. n \in Nat /\ i \in 1 .. n /\ E \subseteq 1 .. n /\ i \in E
  BY LenProperties DEF Escaped
<1>2. IsFiniteSet(E) /\ Cardinality(E) \in Nat
  <2>1. IsFiniteSet(1 .. n)
    BY <1>1, FS_Interval
  <2> QED BY <1>1, <2>1, FS_Subset, FS_CardinalityType
<1>3. \E j \in E : i < j
  <2> SUFFICES ASSUME \A j \in E : ~(i < j) PROVE FALSE
    OBVIOUS
  <2> DEFINE P == {k \in 0 .. n : i <= k => c[k] = c[i]}
  <2>1. 0 \in P
    BY <1>1
  <2>2. ASSUME NEW k \in 1 .. n, k - 1 \in P PROVE k \in P
    <3>1. k \in 0 .. n
      BY <1>1
    <3>2. CASE i < k
      <4>1. k \notin E
        BY <3>2
      <4>2. c[k] = c[k - 1]
        BY <4>1 DEF Sizes, Escaped
      <4>3. i <= k - 1
        BY <1>1, <3>2
      <4> QED BY <2>2, <3>1, <4>2, <4>3
    <3>3. CASE ~(i < k)
      <4>1. i <= k => k = i
        BY <1>1, <3>3
      <4> QED BY <3>1, <4>1
    <3> QED BY <3>2, <3>3
  <2> HIDE DEF P
  <2>3. 0 .. n \subseteq P
    <3> HIDE DEF n
    <3> QED BY <1>1, <2>1, <2>2, InductionUpTo
  <2>4. n \in P /\ i <= n
    <3> HIDE DEF n, E
    <3>1. n \in 0 .. n /\ i <= n
      BY <1>1
    <3> QED BY <2>3, <3>1
  <2>5. c[n] = c[i] /\ c[i] \in Nat
    BY <1>1, <2>4 DEF P
  <2> QED BY <2>5
<1>4. PICK j \in E : i < j
  BY <1>3
<1>5. j \in E \ {i}
  BY <1>1, <1>4
<1>6. IsFiniteSet(E \ {i}) /\ Cardinality(E \ {i}) = Cardinality(E) - 1
  BY <1>1, <1>2, FS_RemoveElement
<1>7. Cardinality(E \ {i}) # 0
  BY <1>5, <1>6, FS_EmptySet
<1> HIDE DEF E
<1>8. Cardinality(E) > 1
  <2> DEFINE x == Cardinality(E)
             y == Cardinality(E \ {i})
  <2>1. x \in Nat /\ y \in Nat /\ y = x - 1 /\ y # 0
    BY <1>2, <1>6, <1>7, FS_CardinalityType
  <2> HIDE DEF x, y
  <2>2. x > 1
    BY <2>1
  <2> QED BY <2>2 DEF x
<1> QED BY <1>8 DEF E

\* The words of a line.
WordsOf(args) == [i \in DOMAIN args |-> Word(args[i])]

LEMMA WordsAre ==
  ASSUME NEW args \in Seq(Seq(Byte))
  PROVE  /\ WordsOf(args) \in Seq(Seq(Byte)) /\ Len(WordsOf(args)) = Len(args) /\ Len(args) \in Nat
         /\ \A i \in 1 .. Len(args) : WordsOf(args)[i] = Word(args[i]) /\ args[i] \in Seq(Byte)
         /\ AsLine(args) = FlattenSeq(WordsOf(args)) \o CRLF
<1> DEFINE T == Seq(Byte)
           n == Len(args)
<1>1. n \in Nat /\ DOMAIN args = 1 .. n /\ \A i \in 1 .. n : args[i] \in T
  BY LenProperties
<1>2. \A i \in 1 .. n : Word(args[i]) \in T
  BY <1>1, WordIs
<1>3. AsLine(args) = FlattenSeq(WordsOf(args)) \o CRLF
  BY DEF AsLine, WordsOf, Word
<1> HIDE DEF T, n
<1>4. WordsOf(args) \in [1 .. n -> T] /\ \A i \in 1 .. n : WordsOf(args)[i] = Word(args[i])
  BY <1>1, <1>2 DEF WordsOf
<1>5. WordsOf(args) \in Seq(T) /\ Len(WordsOf(args)) = n
  BY <1>1, <1>4
<1> QED BY <1>1, <1>3, <1>4, <1>5 DEF T, n

\* A line without line ends in its arguments has none before its own.
LEMMA NoLineEnds ==
  ASSUME NEW args \in Seq(Seq(Byte)), \A i \in 1 .. Len(args) : "\n" \notin Elements(args[i])
  PROVE  /\ FlattenSeq(WordsOf(args)) \in Seq(Byte)
         /\ "\n" \notin Elements(FlattenSeq(WordsOf(args)))
<1> DEFINE q == WordsOf(args)
           lf == "\n"
<1>1. q \in Seq(Seq(Byte)) /\ Len(q) = Len(args) /\ \A i \in 1 .. Len(args) : q[i] = Word(args[i]) /\ args[i] \in Seq(Byte)
  BY WordsAre
<1>2. \A i \in 1 .. Len(args) : lf \notin Elements(args[i])
  OBVIOUS
<1>3. lf \notin {DoubleQuote, Backslash, Space}
  BY Letters
<1> HIDE DEF lf, q
<1>4. FlattenSeq(q) \in Seq(Byte) /\ Elements(FlattenSeq(q)) = UNION {Elements(q[i]) : i \in 1 .. Len(q)}
  BY <1>1, FlattenElements
<1>5. \A i \in 1 .. Len(q) : lf \notin Elements(q[i])
  <2> TAKE i \in 1 .. Len(q)
  <2>1. Elements(Word(args[i])) \subseteq {DoubleQuote, Backslash, Space} \cup Elements(args[i])
    BY <1>1, WordIs
  <2> QED BY <1>1, <1>2, <1>3, <2>1
<1>6. lf \notin Elements(FlattenSeq(q))
  BY <1>4, <1>5
<1> QED BY <1>4, <1>6 DEF lf, q

\* Where the words with escapes end in scratch_unescape_buf_.
Ends(c, args) == [i \in 1 .. Len(args) |-> IF HasEscapes(args[i]) THEN c[i] ELSE 0]

\* The words of a line are the arguments it was written from.
LEMMA LineRead ==
  ASSUME NEW args \in Seq(Seq(Byte)), NEW c \in [0 .. Len(args) -> Nat], Sizes(c, args)
  PROVE  Words(FlattenSeq(WordsOf(args))) = Gap(args, c[Len(args)], Ends(c, args))
<1> DEFINE n == Len(args)
           T == Seq(Byte)
           q == WordsOf(args)
           t == FlattenSeq(q)
           es == Ends(c, args)
<1>1. n \in Nat /\ q \in Seq(T) /\ Len(q) = n /\ \A i \in 1 .. n : q[i] = Word(args[i]) /\ args[i] \in T
  BY WordsAre
<1>2. t \in T /\ \E o \in [0 .. Len(q) -> Nat] : PartsAt(o, q, t)
  <2> HIDE DEF q
  <2> QED BY <1>1, FlattenPlaces
<1>3. PICK o \in [0 .. n -> Nat] : PartsAt(o, q, t)
  BY <1>1, <1>2
<1>4. PICK f \in [0 .. Len(t) -> Scan] : Scans(f, t) /\ Words(t) = Finished(f[Len(t)])
  <2> HIDE DEF t
  <2> QED BY <1>2, WordsUnfold
<1>5. es \in Seq(Nat) /\ Len(es) = n /\ \A i \in 1 .. n : es[i] = IF HasEscapes(args[i]) THEN c[i] ELSE 0
  <2> DEFINE k == Len(args)
  <2>1. \A i \in 1 .. k : (IF HasEscapes(args[i]) THEN c[i] ELSE 0) \in Nat
    <3> TAKE i \in 1 .. k
    <3>1. i \in 0 .. k /\ k \in Nat
      BY <1>1
    <3> QED BY <3>1
  <2>2. es = [i \in 1 .. k |-> IF HasEscapes(args[i]) THEN c[i] ELSE 0] /\ k = n /\ k \in Nat
    BY <1>1 DEF Ends
  <2> HIDE DEF k, n, es
  <2>3. es \in [1 .. k -> Nat]
    BY <2>1, <2>2
  <2> QED BY <2>2, <2>3
<1> HIDE DEF n, T, q, t, es
<1>6. Begins(t, t, 0)
  <2>1. \A j \in 1 .. Len(t) : 0 + j = j
    OBVIOUS
  <2> QED BY <2>1 DEF Begins
<1>7. Len(t) \in Nat
  BY <1>2, LenProperties DEF T
<1> DEFINE Read(i) == Gap(SubSeq(args, 1, i), c[i], SubSeq(es, 1, i))
           P == {i \in 0 .. n : f[o[i]] = Read(i)}
<1>8. 0 \in P
  <2>1. o[0] = 0 /\ f[0] = NoWords /\ c[0] = 0
    BY <1>3, <1>4 DEF PartsAt, Scans, Sizes
  <2>2. SubSeq(args, 1, 0) = <<>> /\ SubSeq(es, 1, 0) = <<>>
    BY SubSeqEmpty
  <2>3. NoWords = Gap(<<>>, 0, <<>>)
    BY DEF NoWords, Gap
  <2>4. Read(0) = Gap(<<>>, 0, <<>>)
    BY <2>1, <2>2
  <2> HIDE DEF Read
  <2>5. f[o[0]] = Read(0) /\ 0 \in 0 .. n
    BY <1>1, <2>1, <2>3, <2>4
  <2> QED BY <2>5
<1>9. ASSUME NEW i \in 1 .. n, i - 1 \in P PROVE i \in P
  <2> DEFINE arg == args[i]
             x == HasEscapes(arg)
             ws == SubSeq(args, 1, i - 1)
             u == c[i - 1]
             zs == SubSeq(es, 1, i - 1)
             p == o[i - 1]
  <2>1. f[p] = Gap(ws, u, zs)
    BY <1>9
  <2>2. /\ o[i - 1] \in Nat /\ o[i] \in Nat /\ Len(q[i]) \in Nat /\ o[i] = o[i - 1] + Len(q[i])
        /\ Begins(q[i], t, 0 + o[i - 1])
    <3>1. i \in 1 .. Len(q) /\ o \in [0 .. Len(q) -> Nat]
      BY <1>1, <1>3
    <3>2. o[i - 1] \in Nat /\ o[i] \in Nat /\ Len(q[i]) \in Nat /\ o[i] = o[i - 1] + Len(q[i])
      BY <1>1, <1>3, <3>1, PartsGrow DEF T
    <3>3. Begins(q[i], t, 0 + o[i - 1])
      BY <1>1, <1>3, <1>6, <3>1, BeginsParts DEF T
    <3> QED BY <3>2, <3>3
  <2>3. arg \in T /\ q[i] = Word(arg)
    BY <1>1
  <2>4. Len(Word(arg)) # 0
    <3>1. Len(Word(arg)) = Len(FlattenSeq(Spelling(arg))) + 3 /\ Len(FlattenSeq(Spelling(arg))) \in Nat
      BY <2>3, WordIs DEF T
    <3> QED BY <3>1
  <2>5. o[i] \in 1 .. Len(t)
    <3>1. i \in 1 .. Len(q) /\ Len(q[i]) \in 1 .. Len(q[i])
      BY <1>1, <2>2, <2>3, <2>4
    <3>2. o[i - 1] + Len(q[i]) \in 1 .. Len(t)
      BY <1>3, <3>1 DEF PartsAt
    <3> QED BY <2>2, <3>2
  <2>6. p \in Nat /\ Begins(Word(arg), t, p) /\ p + Len(Word(arg)) = o[i] /\ p + Len(Word(arg)) <= Len(t)
    <3>1. 0 + o[i - 1] = o[i - 1]
      BY <2>2
    <3> QED BY <1>7, <2>2, <2>3, <2>5, <3>1
  <2>7. Append(ws, arg) = SubSeq(args, 1, i)
    BY OneMore DEF n, T
  <2>8. Append(zs, es[i]) = SubSeq(es, 1, i)
    <3>1. i \in 1 .. Len(es)
      BY <1>5
    <3> QED BY <1>5, <3>1, OneMore
  <2>9. /\ (IF x THEN u + Len(arg) ELSE u) = c[i]
        /\ (IF x THEN u + Len(arg) ELSE 0) = es[i]
    <3>1. c[i] = IF x THEN u + Len(arg) ELSE u
      BY DEF Sizes, n
    <3>2. es[i] = IF x THEN c[i] ELSE 0
      BY <1>5
    <3> HIDE DEF x, u, arg
    <3>3. CASE x
      BY <3>1, <3>2, <3>3
    <3>4. CASE ~x
      BY <3>1, <3>2, <3>4
    <3> QED BY <3>3, <3>4
  <2>10. f[p + Len(Word(arg))] = Gap(Append(ws, arg), IF x THEN u + Len(arg) ELSE u,
                                     Append(zs, IF x THEN u + Len(arg) ELSE 0))
    <3>1. x = IsSpecial(arg, Len(arg))
      BY DEF HasEscapes
    <3> HIDE DEF x, u, arg, ws, zs, p
    <3> QED BY <1>2, <1>4, <2>1, <2>3, <2>6, <3>1, WordRead DEF T
  <2>11. f[o[i]] = Gap(SubSeq(args, 1, i), c[i], SubSeq(es, 1, i))
    <3>1. f[p + Len(Word(arg))] = Gap(Append(ws, arg), c[i], Append(zs, es[i]))
      BY <2>9, <2>10
    <3> HIDE DEF x, u, arg, ws, zs, p
    <3> QED BY <2>6, <2>7, <2>8, <3>1 DEF arg
  <2>12. i \in 0 .. n
    BY <1>1
  <2> QED BY <2>11, <2>12
<1> HIDE DEF P
<1>10. 0 .. n \subseteq P
  BY <1>1, <1>8, <1>9, InductionUpTo
<1>11. f[o[n]] = Gap(SubSeq(args, 1, n), c[n], SubSeq(es, 1, n))
  BY <1>1, <1>10 DEF P
<1>12. SubSeq(args, 1, n) = args /\ SubSeq(es, 1, n) = es
  <2>1. SubSeq(args, 1, n) = args
    BY SubSeqFull DEF n
  <2>2. SubSeq(es, 1, Len(es)) = es
    BY <1>5, SubSeqFull
  <2> QED BY <1>5, <2>1, <2>2
<1>13. o[n] = Len(t)
  BY <1>1, <1>3 DEF PartsAt
<1>14. Words(t) = Gap(args, c[n], es)
  <2>1. f[Len(t)] = Gap(SubSeq(args, 1, n), c[n], SubSeq(es, 1, n))
    BY <1>11, <1>13
  <2>2. f[Len(t)] = Gap(args, c[n], es)
    BY <1>12, <2>1
  <2>3. Words(t) = Finished(Gap(args, c[n], es))
    BY <1>4, <2>2
  <2> QED BY <2>3, EndsInGap
<1> QED BY <1>14 DEF t, q, n, es

\* Where the line end of a line is, when it has arrived.
LEMMA LineEndsAt ==
  ASSUME NEW b \in Seq(Byte), NEW t \in Seq(Byte), "\n" \notin Elements(t), Begins(t \o CRLF, b, 0)
  PROVE  /\ Len(t) \in Nat /\ Len(b) \in Nat /\ Len(t \o CRLF) = Len(t) + 2
         /\ Len(t) + 2 <= Len(b) => Find(b, CRLF, 1) = Len(t) + 1 /\ SubSeq(b, 1, Len(t)) = t
         /\ Len(b) < Len(t) + 2 => Find(b, CRLF, 1) = 0 /\ Find(b, <<"\n">>, 1) = 0
<1> DEFINE m == Len(t)
<1>1. m \in Nat /\ Len(b) \in Nat /\ CRLF \in Seq(Byte) /\ Len(CRLF) = 2 /\ Len(t \o CRLF) = m + 2
  <2>1. CRLF \in Seq(Byte) /\ Len(CRLF) = 2
    BY CrLf
  <2>2. Len(t \o CRLF) = Len(t) + Len(CRLF)
    <3>1. Joined(t \o CRLF, t, CRLF)
      BY <2>1, JoinIs
    <3> QED BY <3>1 DEF Joined
  <2>3. Len(t) \in Nat /\ Len(b) \in Nat
    BY LenProperties
  <2> QED BY <2>1, <2>2, <2>3
<1>2. Begins(t, b, 0) /\ Begins(CRLF, b, 0 + m)
  BY <1>1, BeginsConcat
<1>3. \A p \in 1 .. m : p <= Len(b) => b[p] # "\n"
  <2>1. \A p \in 1 .. m : t[p] # "\n"
    BY DEF Elements
  <2>2. \A p \in 1 .. m : 0 + p = p
    BY <1>1
  <2> QED BY <1>2, <2>1, <2>2 DEF Begins
<1>4. /\ m + 1 <= Len(b) => b[m + 1] = "\r"
      /\ m + 2 <= Len(b) => b[m + 2] = "\n"
  <2>1. 1 \in 1 .. Len(CRLF) /\ 2 \in 1 .. Len(CRLF) /\ 0 + m + 1 = m + 1 /\ 0 + m + 2 = m + 2
    BY <1>1
  <2> QED BY <1>2, <2>1, CrLf DEF Begins
<1>5. \A p \in 1 .. m + 1 : p <= Len(b) => b[p] # "\n"
  <2> TAKE p \in 1 .. m + 1
  <2>1. p \in 1 .. m \/ p = m + 1
    BY <1>1
  <2> QED BY <1>3, <1>4, <2>1
<1>6. \A p \in Nat : 1 <= p /\ p <= m => ~LineEnd(b, p)
  <2> TAKE p \in Nat
  <2> SUFFICES ASSUME 1 <= p, p <= m, LineEnd(b, p) PROVE FALSE
    OBVIOUS
  <2>1. p + 1 <= Len(b) /\ b[p + 1] = "\n" /\ p + 1 \in 1 .. m + 1
    BY <1>1 DEF LineEnd
  <2> QED BY <1>5, <2>1
<1> HIDE DEF m
<1>7. ASSUME m + 2 <= Len(b) PROVE Find(b, CRLF, 1) = m + 1 /\ SubSeq(b, 1, m) = t
  <2>1. LineEnd(b, m + 1)
    <3>1. m + 1 <= Len(b) /\ (m + 1) + 1 = m + 2
      BY <1>1, <1>7
    <3> QED BY <1>4, <1>7, <3>1 DEF LineEnd
  <2>2. \A r \in 1 .. (m + 1) - 1 : ~LineEnd(b, r)
    BY <1>1, <1>6
  <2>3. Find(b, CRLF, 1) = m + 1
    <3>1. m + 1 \in Nat /\ 1 <= m + 1 /\ 1 \in Nat \ {0}
      BY <1>1
    <3> QED BY <2>1, <2>2, <3>1, FindCRLF
  <2>4. SubSeq(b, 0 + 1, 0 + Len(t)) = t
    <3>1. 0 + Len(t) <= Len(b)
      BY <1>1, <1>7 DEF m
    <3> QED BY <1>2, <3>1, ArrivedIs
  <2>5. 0 + 1 = 1 /\ 0 + Len(t) = m
    BY <1>1 DEF m
  <2> QED BY <2>3, <2>4, <2>5
<1>8. ASSUME Len(b) < m + 2 PROVE Find(b, CRLF, 1) = 0 /\ Find(b, <<"\n">>, 1) = 0
  <2>1. \A p \in 1 .. Len(b) : b[p] # "\n"
    BY <1>1, <1>5, <1>8
  <2>2. Find(b, <<"\n">>, 1) = 0
    BY <2>1, FindLF
  <2>3. \A p \in Nat : 1 <= p => ~LineEnd(b, p)
    <3> TAKE p \in Nat
    <3> SUFFICES ASSUME 1 <= p, LineEnd(b, p) PROVE FALSE
      OBVIOUS
    <3>1. p + 1 \in 1 .. Len(b) /\ b[p + 1] = "\n"
      BY <1>1 DEF LineEnd
    <3> QED BY <2>1, <3>1
  <2>4. Find(b, CRLF, 1) = 0
    BY <2>3, FindCRLF
  <2> QED BY <2>2, <2>4
<1> QED BY <1>1, <1>7, <1>8 DEF m

\* A line that arrives in pieces: the parser asks for more until its end is
\* there, and then takes its words; those in views that are stale only when
\* scratch_unescape_buf_ overflows.
LineIs(b, args, r) ==
  /\ Len(AsLine(args)) <= Len(b) =>
       \E stale : ParseInline(b) = Success(args, stale, Len(AsLine(args))) /\ (stale # {} => Overflows(r))
  /\ Len(b) < Len(AsLine(args)) => ParseInline(b) = Incomplete

LEMMA LineParsed ==
  ASSUME NEW b \in Seq(Byte), NEW args \in Seq(Seq(Byte)),
         \A i \in 1 .. Len(args) : "\n" \notin Elements(args[i]),
         Begins(AsLine(args), b, 0), NEW r, r.args = args, r.line
  PROVE  LineIs(b, args, r)
<1> DEFINE t == FlattenSeq(WordsOf(args))
           n == Len(args)
           crlf == Find(b, CRLF, 1)
           end == IF crlf # 0 THEN crlf ELSE Find(b, <<"\n">>, 1)
           read == Words(SubSeq(b, 1, end - 1))
           stale == {i \in DOMAIN read.ends : read.ends[i] # 0 /\ read.used > Reserve /\ read.ends[i] < read.used}
<1>1. t \in Seq(Byte) /\ "\n" \notin Elements(t)
  BY NoLineEnds
<1>2. AsLine(args) = t \o CRLF
  BY WordsAre
<1> HIDE DEF t
<1>3. /\ Len(t) \in Nat /\ Len(b) \in Nat /\ Len(AsLine(args)) = Len(t) + 2
      /\ Len(t) + 2 <= Len(b) => Find(b, CRLF, 1) = Len(t) + 1 /\ SubSeq(b, 1, Len(t)) = t
      /\ Len(b) < Len(t) + 2 => Find(b, CRLF, 1) = 0 /\ Find(b, <<"\n">>, 1) = 0
  <2>1. Begins(t \o CRLF, b, 0)
    BY <1>2
  <2>2. /\ Len(t) \in Nat /\ Len(b) \in Nat /\ Len(t \o CRLF) = Len(t) + 2
        /\ Len(t) + 2 <= Len(b) => Find(b, CRLF, 1) = Len(t) + 1 /\ SubSeq(b, 1, Len(t)) = t
        /\ Len(b) < Len(t) + 2 => Find(b, CRLF, 1) = 0 /\ Find(b, <<"\n">>, 1) = 0
    BY <1>1, <2>1, LineEndsAt
  <2> QED BY <1>2, <2>2
<1>4. ParseInline(b) = IF end = 0 THEN Incomplete
                       ELSE Success(read.words, stale, IF crlf # 0 THEN end + 1 ELSE end)
  BY DEF ParseInline
<1>5. ASSUME Len(b) < Len(AsLine(args)) PROVE ParseInline(b) = Incomplete
  <2>1. end = 0
    BY <1>3, <1>5
  <2> HIDE DEF end, read, stale, crlf
  <2> QED BY <1>4, <2>1
<1>6. ASSUME Len(AsLine(args)) <= Len(b)
      PROVE  \E s : ParseInline(b) = Success(args, s, Len(AsLine(args))) /\ (s # {} => Overflows(r))
  <2>1. crlf = Len(t) + 1 /\ end = Len(t) + 1 /\ crlf # 0 /\ end # 0 /\ end - 1 = Len(t) /\ SubSeq(b, 1, Len(t)) = t
    <3>1. Find(b, CRLF, 1) = Len(t) + 1 /\ SubSeq(b, 1, Len(t)) = t
      BY <1>3, <1>6
    <3> HIDE DEF crlf
    <3>2. crlf = Len(t) + 1
      BY <3>1 DEF crlf
    <3>3. Len(t) + 1 # 0 /\ (Len(t) + 1) - 1 = Len(t)
      BY <1>3
    <3> QED BY <3>1, <3>2, <3>3
  <2> HIDE DEF crlf, end
  <2>2. PICK c \in [0 .. n -> Nat] :
          Sizes(c, args) /\ (Overflows(r) <=> Cardinality(Escaped(args)) > 1 /\ c[n] > Reserve)
    BY OverflowsIs
  <2>3. read = Gap(args, c[n], Ends(c, args))
    <3>1. read = Words(t)
      BY <2>1
    <3>2. Words(t) = Gap(args, c[n], Ends(c, args))
      BY <2>2, LineRead DEF t
    <3> HIDE DEF read
    <3> QED BY <3>1, <3>2
  <2>4. read.words = args /\ read.used = c[n] /\ read.ends = Ends(c, args)
    <3> HIDE DEF read
    <3> QED BY <2>3 DEF Gap
  <2>5. stale # {} => Overflows(r)
    <3> HIDE DEF read, n
    <3> SUFFICES ASSUME NEW i \in stale PROVE Overflows(r)
      OBVIOUS
    <3> DEFINE es == Ends(c, args)
    <3>1. i \in DOMAIN es /\ es[i] # 0 /\ c[n] > Reserve /\ es[i] < c[n]
      BY <2>4
    <3>2. i \in 1 .. Len(args) /\ es[i] = IF HasEscapes(args[i]) THEN c[i] ELSE 0
      BY <3>1 DEF Ends
    <3> HIDE DEF es
    <3>3. HasEscapes(args[i]) /\ c[i] < c[n]
      BY <3>1, <3>2
    <3>4. i \in Escaped(args)
      BY <3>2, <3>3 DEF Escaped
    <3>5. Cardinality(Escaped(args)) > 1
      BY <2>2, <3>3, <3>4, StaleIs DEF n
    <3> QED BY <2>2, <3>1, <3>5
  <2> HIDE DEF read, stale
  <2>6. ParseInline(b) = Success(args, stale, end + 1)
    BY <1>4, <2>1, <2>4
  <2>7. end + 1 = Len(AsLine(args))
    BY <1>3, <2>1
  <2> QED BY <2>5, <2>6, <2>7
<1> QED BY <1>5, <1>6 DEF LineIs

\* A line begins with a quote.
LEMMA LineBegins ==
  ASSUME NEW args \in Seq(Seq(Byte)), args # <<>>
  PROVE  /\ AsLine(args) \in Seq(Byte) /\ Len(AsLine(args)) \in Nat \ {0}
         /\ AsLine(args)[1] = DoubleQuote
<1> DEFINE q == WordsOf(args)
           t == FlattenSeq(q)
<1>1. q \in Seq(Seq(Byte)) /\ Len(q) = Len(args) /\ Len(args) \in Nat
      /\ (\A i \in 1 .. Len(args) : q[i] = Word(args[i]) /\ args[i] \in Seq(Byte)) /\ AsLine(args) = t \o CRLF
  BY WordsAre
<1>2. 1 \in 1 .. Len(args)
  BY <1>1, EmptySeq
<1> HIDE DEF q, t
<1>3. t \in Seq(Byte) /\ \E o \in [0 .. Len(q) -> Nat] : PartsAt(o, q, t)
  BY <1>1, FlattenPlaces DEF t
<1>4. PICK o \in [0 .. Len(q) -> Nat] : PartsAt(o, q, t)
  BY <1>3
<1>5. q[1][1] = DoubleQuote /\ 1 \in 1 .. Len(q[1])
  <2>1. /\ Word(args[1])[1] = DoubleQuote
        /\ Len(Word(args[1])) = Len(FlattenSeq(Spelling(args[1]))) + 3
        /\ Len(FlattenSeq(Spelling(args[1]))) \in Nat
    BY <1>1, <1>2, WordIs
  <2>2. 1 \in 1 .. Len(Word(args[1]))
    BY <2>1
  <2> QED BY <1>1, <1>2, <2>1, <2>2
<1>6. 1 \in 1 .. Len(t) /\ t[1] = DoubleQuote
  <2>1. 1 \in 1 .. Len(q) /\ 1 - 1 = 0
    BY <1>1, <1>2
  <2>2. o[1 - 1] + 1 \in 1 .. Len(t) /\ t[o[1 - 1] + 1] = q[1][1]
    BY <1>4, <1>5, <2>1 DEF PartsAt
  <2>3. o[0] = 0
    BY <1>4 DEF PartsAt
  <2> QED BY <1>5, <2>1, <2>2, <2>3
<1>7. t \o CRLF \in Seq(Byte) /\ 1 \in 1 .. Len(t \o CRLF) /\ (t \o CRLF)[1] = t[1]
  BY <1>3, <1>6, CrLf, ConcatPlaces
<1>8. Len(t \o CRLF) \in Nat \ {0}
  BY <1>7, LenProperties
<1> QED BY <1>1, <1>6, <1>7, <1>8

-----------------------------------------------------------------------------
(* A request of either kind. *)

LEMMA ArgumentsAre ==
  /\ Argument \subseteq Seq(Byte)
  /\ \A args \in SeqOf(Argument, MaxArgs) : args \in Seq(Seq(Byte))
<1>1. ASSUME NEW arg \in Argument PROVE arg \in Seq(Byte)
  <2>1. arg \in Seq(ToSet(arg))
    BY ArgumentAssumption
  <2>2. ToSet(arg) \subseteq Byte
    BY DEF Byte
  <2> QED BY <2>1, <2>2, SeqMonotonic
<1>2. ASSUME NEW args \in SeqOf(Argument, MaxArgs) PROVE args \in Seq(Seq(Byte))
  <2> DEFINE T == Seq(Byte)
  <2>1. PICK m \in 0 .. MaxArgs : args \in [1 .. m -> Argument]
    BY DEF SeqOf
  <2>2. Argument \subseteq T
    BY <1>1
  <2> HIDE DEF T
  <2>3. m \in Nat /\ args \in [1 .. m -> T]
    BY <2>1, <2>2, BoundsAssumption
  <2>4. args \in Seq(T)
    BY <2>3
  <2> QED BY <2>4 DEF T
<1> QED BY <1>1, <1>2

LEMMA RequestIs ==
  ASSUME NEW r \in Request
  PROVE  /\ r.args \in Seq(Seq(Byte)) /\ r.args # <<>> /\ (r.line = TRUE \/ r.line = FALSE)
         /\ r.line => \A i \in 1 .. Len(r.args) : "\n" \notin Elements(r.args[i])
<1> DEFINE arguments == SeqOf(Argument, MaxArgs) \ {<<>>}
           lf == <<"\n">>
           Bare(args) == \A i \in DOMAIN args : Find(args[i], lf, 1) = 0
           typed == {args \in arguments : Bare(args)}
<1>1. Request = [args : arguments, line : {FALSE}] \cup [args : typed, line : {TRUE}]
  BY DEF Request
<1>2. r.args \in arguments /\ (r.line = FALSE \/ (r.line = TRUE /\ Bare(r.args)))
  <2> HIDE DEF arguments, Bare
  <2> QED BY <1>1
<1>3. r.args \in Seq(Seq(Byte)) /\ r.args # <<>>
  BY <1>2, ArgumentsAre
<1>4. ASSUME Bare(r.args), NEW i \in 1 .. Len(r.args) PROVE "\n" \notin Elements(r.args[i])
  <2> DEFINE T == Seq(Byte)
             a == r.args[i]
  <2>1. i \in DOMAIN r.args /\ a \in T
    <3> HIDE DEF T
    <3>1. r.args \in Seq(T)
      BY <1>3 DEF T
    <3> QED BY <3>1, LenProperties
  <2>2. Find(a, lf, 1) = 0
    BY <1>4, <2>1
  <2>3. \A p \in 1 .. Len(a) : a[p] # "\n"
    BY <2>1, <2>2, FindLF
  <2> QED BY <2>3 DEF Elements
<1> QED BY <1>2, <1>3, <1>4

\* What the parser makes of a request that arrives in pieces.
LEMMA RequestParsed ==
  ASSUME NEW r \in Request
  PROVE  /\ Encoded(r) \in Seq(Byte) /\ Len(Encoded(r)) \in Nat \ {0}
         /\ \A b \in Seq(Byte) : Begins(Encoded(r), b, 0) =>
              /\ Len(Encoded(r)) <= Len(b) =>
                   \E stale : ParseCommand(b) = Success(r.args, stale, Len(Encoded(r))) /\ (stale # {} => Overflows(r))
              /\ Len(b) < Len(Encoded(r)) => ParseCommand(b) = Incomplete
<1> DEFINE args == r.args
           e == Encoded(r)
           Parsed(b) == /\ Len(e) <= Len(b) =>
                             \E stale : ParseCommand(b) = Success(args, stale, Len(e)) /\ (stale # {} => Overflows(r))
                        /\ Len(b) < Len(e) => ParseCommand(b) = Incomplete
<1>1. /\ args \in Seq(Seq(Byte)) /\ args # <<>> /\ (r.line = TRUE \/ r.line = FALSE)
      /\ r.line => \A i \in 1 .. Len(args) : "\n" \notin Elements(args[i])
  BY RequestIs
<1>2. ASSUME NEW b \in Seq(Byte), b # <<>>, Begins(e, b, 0), Len(e) \in Nat \ {0} PROVE b[1] = e[1]
  <2>1. 1 \in 1 .. Len(e) /\ 0 + 1 = 1 /\ 1 <= Len(b)
    BY <1>2, LenProperties, EmptySeq
  <2> QED BY <1>2, <2>1 DEF Begins
<1>3. ASSUME NEW b \in Seq(Byte), b = <<>>, Len(e) \in Nat \ {0} PROVE Parsed(b)
  <2>1. ParseCommand(b) = Incomplete
    BY <1>3 DEF ParseCommand
  <2>2. Len(b) = 0
    BY <1>3
  <2> QED BY <1>3, <2>1, <2>2
<1>4. CASE r.line = TRUE
  <2>1. e = AsLine(args)
    BY <1>4 DEF Encoded
  <2>2. e \in Seq(Byte) /\ Len(e) \in Nat \ {0} /\ e[1] = DoubleQuote
    BY <1>1, <2>1, LineBegins
  <2>3. ASSUME NEW b \in Seq(Byte), Begins(e, b, 0) PROVE Parsed(b)
    <3>1. CASE b = <<>>
      BY <1>3, <2>2, <3>1
    <3>2. CASE b # <<>>
      <4>1. b[1] = DoubleQuote
        BY <1>2, <2>2, <2>3, <3>2
      <4>2. DoubleQuote # "*"
        BY Letters
      <4>3. ParseCommand(b) = ParseInline(b)
        BY <3>2, <4>1, <4>2 DEF ParseCommand
      <4>4. LineIs(b, args, r)
        BY <1>1, <1>4, <2>1, <2>3, LineParsed
      <4> HIDE DEF e, args
      <4> QED BY <2>1, <4>3, <4>4 DEF LineIs
    <3> QED BY <3>1, <3>2
  <2> HIDE DEF Parsed
  <2>4. \A b \in Seq(Byte) : Begins(e, b, 0) => Parsed(b)
    BY <2>3
  <2> QED BY <2>2, <2>4 DEF Parsed
<1>5. CASE r.line = FALSE
  <2>1. e = AsArray(args)
    BY <1>5 DEF Encoded
  <2>2. e \in Seq(Byte) /\ Len(e) \in Nat \ {0} /\ e[1] = "*"
    <3>1. Begins(AsArray(args), <<>>, 0)
      <4>1. \A j \in 1 .. Len(AsArray(args)) : ~(0 + j <= 0)
        OBVIOUS
      <4>2. Len(<<>>) = 0
        OBVIOUS
      <4> QED BY <4>1, <4>2 DEF Begins
    <3>2. <<>> \in Seq(Byte)
      BY EmptySeq
    <3> QED BY <1>1, <2>1, <3>1, <3>2, ArrayParsed
  <2>3. ASSUME NEW b \in Seq(Byte), Begins(e, b, 0) PROVE Parsed(b)
    <3>1. CASE b = <<>>
      BY <1>3, <2>2, <3>1
    <3>2. CASE b # <<>>
      <4>1. b[1] = "*"
        BY <1>2, <2>2, <2>3, <3>2
      <4>2. ParseCommand(b) = ParseArray(b)
        BY <3>2, <4>1 DEF ParseCommand
      <4>3. ParseArray(b) = IF Len(AsArray(args)) <= Len(b)
                            THEN Success(args, {}, Len(AsArray(args))) ELSE Incomplete
        BY <1>1, <2>1, <2>3, ArrayParsed
      <4>4. Len(b) \in Nat /\ Len(e) \in Nat
        BY <2>2, LenProperties
      <4> HIDE DEF e, args
      <4>5. Len(e) <= Len(b) => ParseCommand(b) = Success(args, {}, Len(e))
        BY <2>1, <4>2, <4>3
      <4>6. Len(b) < Len(e) => ParseCommand(b) = Incomplete
        BY <2>1, <4>2, <4>3, <4>4
      <4> QED BY <4>5, <4>6
    <3> QED BY <3>1, <3>2
  <2> HIDE DEF Parsed
  <2>4. \A b \in Seq(Byte) : Begins(e, b, 0) => Parsed(b)
    BY <2>3
  <2> QED BY <2>2, <2>4 DEF Parsed
<1> QED BY <1>1, <1>4, <1>5

-----------------------------------------------------------------------------
(* A stream of requests. *)

\* The requests as they are written, and where each of them ends.
Encodings(rs) == [i \in DOMAIN rs |-> Encoded(rs[i])]
EndOf(rs, i) == Len(Stream(SubSeq(rs, 1, i)))

LEMMA EncodingsAre ==
  ASSUME NEW rs \in Seq(Request)
  PROVE  /\ Encodings(rs) \in Seq(Seq(Byte)) /\ Len(Encodings(rs)) = Len(rs) /\ Len(rs) \in Nat
         /\ \A i \in 1 .. Len(rs) : Encodings(rs)[i] = Encoded(rs[i]) /\ rs[i] \in Request
         /\ Stream(rs) = FlattenSeq(Encodings(rs)) /\ Stream(rs) \in Seq(Byte)
         /\ \E o \in [0 .. Len(rs) -> Nat] : PartsAt(o, Encodings(rs), Stream(rs))
<1> DEFINE T == Seq(Byte)
           n == Len(rs)
           q == Encodings(rs)
<1>1. n \in Nat /\ DOMAIN rs = 1 .. n /\ \A i \in 1 .. n : rs[i] \in Request
  BY LenProperties
<1>2. \A i \in 1 .. n : Encoded(rs[i]) \in T
  BY <1>1, RequestParsed
<1>3. Stream(rs) = FlattenSeq(q)
  BY DEF Stream, Encodings
<1> HIDE DEF T, n
<1>4. q \in [1 .. n -> T] /\ \A i \in 1 .. n : q[i] = Encoded(rs[i])
  BY <1>1, <1>2 DEF Encodings
<1> HIDE DEF q
<1>5. q \in Seq(T) /\ Len(q) = n
  BY <1>1, <1>4
<1>6. FlattenSeq(q) \in T /\ \E o \in [0 .. Len(q) -> Nat] : PartsAt(o, q, FlattenSeq(q))
  BY <1>5, FlattenPlaces DEF T
<1>7. Stream(rs) \in T /\ \E o \in [0 .. n -> Nat] : PartsAt(o, q, Stream(rs))
  BY <1>3, <1>5, <1>6
<1> QED BY <1>1, <1>3, <1>4, <1>5, <1>7 DEF T, n, q

\* The beginning of a stream is the stream of the first requests.
LEMMA EndsAre ==
  ASSUME NEW rs \in Seq(Request), NEW o \in [0 .. Len(rs) -> Nat], PartsAt(o, Encodings(rs), Stream(rs)),
         NEW k \in 0 .. Len(rs)
  PROVE  EndOf(rs, k) = o[k]
<1> DEFINE n == Len(rs)
           us == SubSeq(rs, 1, k)
           q == Encodings(rs)
           v == Encodings(us)
<1>1. n \in Nat /\ k \in Nat /\ Len(q) = n /\ \A i \in 1 .. n : q[i] = Encoded(rs[i])
  BY EncodingsAre
<1>2. us \in Seq(Request) /\ Len(us) = k /\ \A i \in 1 .. k : us[i] = rs[i]
  <2>1. /\ us \in Seq(Request) /\ Len(us) = k - 1 + 1 /\ \A i \in 1 .. k - 1 + 1 : us[i] = rs[1 + i - 1]
    BY <1>1, CutIs
  <2>2. k - 1 + 1 = k /\ \A i \in 1 .. k : 1 + i - 1 = i
    BY <1>1
  <2> HIDE DEF us
  <2> QED BY <2>1, <2>2
<1> HIDE DEF n, us, q, v
<1>3. Len(v) = k /\ \A i \in 1 .. k : v[i] = Encoded(us[i])
  BY <1>2, EncodingsAre DEF v
<1>4. PICK w \in [0 .. k -> Nat] : PartsAt(w, v, Stream(us))
  BY <1>2, EncodingsAre DEF v
<1>5. PartsAt(o, q, Stream(rs))
  BY DEF q
<1> DEFINE P == {i \in 0 .. k : w[i] = o[i]}
<1>6. 0 \in P
  BY <1>1, <1>4, <1>5 DEF PartsAt
<1>7. ASSUME NEW i \in 1 .. k, i - 1 \in P PROVE i \in P
  <2>1. i \in 1 .. n /\ i \in 0 .. k
    BY <1>1 DEF n
  <2>2. v[i] = q[i]
    BY <1>1, <1>2, <1>3, <2>1
  <2>3. w[i] = w[i - 1] + Len(v[i])
    BY <1>3, <1>4 DEF PartsAt
  <2>4. o[i] = o[i - 1] + Len(q[i])
    BY <1>1, <1>5, <2>1 DEF PartsAt
  <2>5. w[i - 1] = o[i - 1]
    BY <1>7
  <2> QED BY <2>1, <2>2, <2>3, <2>4, <2>5
<1> HIDE DEF P
<1>8. 0 .. k \subseteq P
  BY <1>1, <1>6, <1>7, InductionUpTo
<1>9. w[k] = o[k]
  BY <1>1, <1>8 DEF P
<1>10. Len(Stream(us)) = w[k]
  BY <1>3, <1>4 DEF PartsAt
<1> QED BY <1>9, <1>10 DEF EndOf, us

\* The places of the requests in their stream.
Marks(rs) ==
  /\ Stream(rs) \in Seq(Byte) /\ Len(rs) \in Nat
  /\ EndOf(rs, 0) = 0 /\ EndOf(rs, Len(rs)) = Len(Stream(rs))
  /\ \A i \in 0 .. Len(rs) : EndOf(rs, i) \in Nat /\ EndOf(rs, i) <= Len(Stream(rs))
  /\ \A i \in 1 .. Len(rs) :
       /\ rs[i] \in Request /\ Encoded(rs[i]) \in Seq(Byte) /\ Len(Encoded(rs[i])) \in Nat \ {0}
       /\ EndOf(rs, i) = EndOf(rs, i - 1) + Len(Encoded(rs[i]))
  /\ \A i \in 1 .. Len(rs) : \A j \in 1 .. Len(Encoded(rs[i])) :
       Stream(rs)[EndOf(rs, i - 1) + j] = Encoded(rs[i])[j]
  /\ \A i \in 0 .. Len(rs) : \A j \in 0 .. Len(rs) : i < j => EndOf(rs, i) < EndOf(rs, j)

LEMMA MarksAre ==
  ASSUME NEW rs \in Seq(Request)
  PROVE  Marks(rs)
<1> DEFINE n == Len(rs)
           q == Encodings(rs)
           s == Stream(rs)
           E(i) == EndOf(rs, i)
           L(i) == Len(Encoded(rs[i]))
<1>1. n \in Nat /\ Len(q) = n /\ s \in Seq(Byte) /\ \A i \in 1 .. n : q[i] = Encoded(rs[i]) /\ rs[i] \in Request
  BY EncodingsAre
<1>2. PICK o \in [0 .. n -> Nat] : PartsAt(o, q, s)
  BY EncodingsAre
<1>3. \A i \in 0 .. n : E(i) = o[i] /\ E(i) \in Nat
  BY <1>2, EndsAre
<1>4. \A i \in 1 .. n : Encoded(rs[i]) \in Seq(Byte) /\ L(i) \in Nat \ {0}
  BY <1>1, RequestParsed
<1> HIDE DEF n, q, s
<1>5. E(0) = 0 /\ E(n) = Len(s)
  BY <1>1, <1>2, <1>3 DEF PartsAt
<1>6. \A i \in 1 .. n : i - 1 \in 0 .. n /\ i \in 0 .. n /\ E(i) = E(i - 1) + L(i)
  <2> TAKE i \in 1 .. n
  <2>1. i - 1 \in 0 .. n /\ i \in 0 .. n
    BY <1>1
  <2>2. o[i] = o[i - 1] + Len(q[i])
    BY <1>1, <1>2 DEF PartsAt
  <2> QED BY <1>1, <1>3, <2>1, <2>2
<1>7. \A i \in 1 .. n : \A j \in 1 .. L(i) : s[E(i - 1) + j] = Encoded(rs[i])[j]
  <2> TAKE i \in 1 .. n
  <2> TAKE j \in 1 .. L(i)
  <2>1. E(i - 1) = o[i - 1] /\ q[i] = Encoded(rs[i]) /\ i \in 1 .. Len(q) /\ j \in 1 .. Len(q[i])
    BY <1>1, <1>3, <1>6
  <2>2. s[o[i - 1] + j] = q[i][j]
    BY <1>2, <2>1 DEF PartsAt
  <2> QED BY <2>1, <2>2
<1> HIDE DEF E, L
<1> DEFINE P == {j \in 0 .. n : \A i \in 0 .. n : i < j => E(i) < E(j)}
<1>8. 0 \in P
  BY <1>1
<1>9. ASSUME NEW j \in 1 .. n, j - 1 \in P PROVE j \in P
  <2>1. E(j) = E(j - 1) + L(j) /\ j - 1 \in 0 .. n /\ j \in 0 .. n
    BY <1>6
  <2>2. E(j - 1) \in Nat /\ L(j) \in Nat \ {0}
    BY <1>3, <1>4, <2>1
  <2>3. ASSUME NEW i \in 0 .. n, i < j PROVE E(i) < E(j)
    <3>1. E(i) \in Nat
      BY <1>3
    <3>2. i = j - 1 \/ i < j - 1
      BY <1>1, <2>3
    <3>3. i < j - 1 => E(i) < E(j - 1)
      BY <1>9
    <3> QED BY <2>1, <2>2, <3>1, <3>2, <3>3
  <2> QED BY <2>1, <2>3
<1> HIDE DEF P
<1>10. 0 .. n \subseteq P
  BY <1>1, <1>8, <1>9, InductionUpTo
<1>11. \A i \in 0 .. n : \A j \in 0 .. n : i < j => E(i) < E(j)
  <2> TAKE i \in 0 .. n
  <2> TAKE j \in 0 .. n
  <2>1. j \in P
    BY <1>10
  <2> QED BY <2>1 DEF P
<1>12. \A i \in 0 .. n : E(i) \in Nat /\ E(i) <= Len(s)
  <2> TAKE i \in 0 .. n
  <2>1. n \in 0 .. n /\ (i < n \/ i = n)
    BY <1>1
  <2>2. E(i) \in Nat /\ E(n) \in Nat
    BY <1>3, <2>1
  <2>3. i < n => E(i) < E(n)
    BY <1>11, <2>1
  <2> QED BY <1>5, <2>1, <2>2, <2>3
<1> QED BY <1>1, <1>4, <1>5, <1>6, <1>7, <1>11, <1>12 DEF Marks, n, s, E, L

\* The bytes of s behind a, up to b.
Cut(s, a, b) == SubSeq(s, a + 1, b)

LEMMA CutPlaces ==
  ASSUME NEW s \in Seq(Byte), NEW a \in Nat, NEW b \in Nat, a <= b, b <= Len(s)
  PROVE  /\ Cut(s, a, b) \in Seq(Byte) /\ Len(Cut(s, a, b)) = b - a
         /\ \A i \in 1 .. b - a : Cut(s, a, b)[i] = s[a + i]
<1> DEFINE m == a + 1
<1>1. m \in Nat \ {0} /\ m <= b + 1 /\ b - m + 1 = b - a /\ \A i \in 1 .. b - a : m + i - 1 = a + i
  OBVIOUS
<1>2. Cut(s, a, b) = SubSeq(s, m, b)
  BY DEF Cut
<1> HIDE DEF m
<1>3. /\ SubSeq(s, m, b) \in Seq(Byte) /\ Len(SubSeq(s, m, b)) = b - m + 1
      /\ \A i \in 1 .. b - m + 1 : SubSeq(s, m, b)[i] = s[m + i - 1]
  BY <1>1, CutIs
<1> DEFINE c == SubSeq(s, m, b)
<1> HIDE DEF c
<1>4. \A i \in 1 .. b - a : c[i] = s[a + i]
  <2> TAKE i \in 1 .. b - a
  <2>1. i \in 1 .. b - m + 1 /\ m + i - 1 = a + i
    BY <1>1
  <2>2. c[i] = s[m + i - 1]
    BY <1>3, <2>1 DEF c
  <2> QED BY <2>1, <2>2
<1> QED BY <1>1, <1>2, <1>3, <1>4 DEF c

LEMMA CutAt ==
  ASSUME NEW s \in Seq(Byte), NEW a \in Nat, NEW b \in Nat, NEW m \in Nat, a <= m, m <= b, b <= Len(s)
  PROVE  /\ SubSeq(Cut(s, a, b), 1, m - a) = Cut(s, a, m)
         /\ SubSeq(Cut(s, a, b), m - a + 1, Len(Cut(s, a, b))) = Cut(s, m, b)
         /\ Cut(s, a, m) \o Cut(s, m, b) = Cut(s, a, b)
<1> DEFINE c == Cut(s, a, b)
           u == Cut(s, a, m)
           v == Cut(s, m, b)
           n == m - a
<1>1. Len(s) \in Nat /\ n \in Nat /\ n <= b - a /\ b - a \in Nat /\ b - m \in Nat
      /\ (b - a) - n = b - m /\ n + (b - m) = b - a
  BY LenProperties
<1>2. c \in Seq(Byte) /\ Len(c) = b - a /\ \A i \in 1 .. b - a : c[i] = s[a + i]
  <2>1. a <= b
    OBVIOUS
  <2> QED BY <2>1, CutPlaces
<1>3. u \in Seq(Byte) /\ Len(u) = n /\ \A i \in 1 .. n : u[i] = s[a + i]
  <2>1. m <= Len(s)
    BY <1>1
  <2> QED BY <2>1, CutPlaces
<1>4. v \in Seq(Byte) /\ Len(v) = b - m /\ \A i \in 1 .. b - m : v[i] = s[m + i]
  BY <1>1, CutPlaces
<1> HIDE DEF c, u, v
<1>5. ASSUME NEW i \in 1 .. n PROVE i \in 1 .. b - a /\ c[i] = u[i]
  <2>1. i \in 1 .. b - a
    BY <1>1
  <2> QED BY <1>2, <1>3, <2>1
<1>6. ASSUME NEW i \in 1 .. b - m PROVE n + i \in 1 .. b - a /\ c[n + i] = v[i]
  <2>1. n + i \in 1 .. b - a /\ a + (n + i) = m + i
    BY <1>1
  <2> QED BY <1>2, <1>4, <2>1
<1> HIDE DEF n
<1>7. SubSeq(c, 1, n) = u
  <2> DEFINE e == SubSeq(c, 1, n)
  <2>1. e \in Seq(Byte) /\ Len(e) = n - 1 + 1 /\ \A i \in 1 .. n - 1 + 1 : e[i] = c[1 + i - 1]
    <3>1. 1 \in Nat \ {0} /\ 1 <= n + 1 /\ n <= Len(c)
      BY <1>1, <1>2
    <3> QED BY <1>1, <1>2, <3>1, CutIs
  <2>2. n - 1 + 1 = n /\ \A i \in 1 .. n : 1 + i - 1 = i
    BY <1>1
  <2> HIDE DEF e
  <2>3. \A i \in 1 .. n : e[i] = u[i]
    BY <1>5, <2>1, <2>2
  <2>4. e = u
    BY <1>3, <2>1, <2>2, <2>3, SeqEqual
  <2> QED BY <2>4 DEF e
<1>8. SubSeq(c, n + 1, Len(c)) = v
  <2> DEFINE x == n + 1
             y == Len(c)
             e == SubSeq(c, x, y)
  <2>1. x \in Nat \ {0} /\ y \in Nat /\ x <= y + 1 /\ y <= Len(c) /\ y - x + 1 = b - m
    BY <1>1, <1>2
  <2>2. \A i \in 1 .. b - m : x + i - 1 = n + i
    BY <1>1
  <2> HIDE DEF x, y
  <2>3. e \in Seq(Byte) /\ Len(e) = y - x + 1 /\ \A i \in 1 .. y - x + 1 : e[i] = c[x + i - 1]
    BY <1>2, <2>1, CutIs
  <2> HIDE DEF e
  <2>4. \A i \in 1 .. b - m : e[i] = v[i]
    BY <1>6, <2>1, <2>2, <2>3
  <2>5. e = v
    BY <1>4, <2>1, <2>3, <2>4, SeqEqual
  <2> QED BY <2>5 DEF e, x, y
<1>9. u \o v = c
  <2> DEFINE e == u \o v
  <2>1. Joined(e, u, v)
    BY <1>3, <1>4, JoinIs
  <2> HIDE DEF e
  <2>2. /\ e \in Seq(Byte) /\ Len(e) = b - a
        /\ \A i \in 1 .. n : e[i] = u[i]
        /\ \A i \in 1 .. b - m : e[n + i] = v[i]
    BY <1>1, <1>3, <1>4, <2>1 DEF Joined
  <2>3. \A i \in 1 .. b - a : e[i] = c[i]
    <3> TAKE i \in 1 .. b - a
    <3>1. CASE i <= n
      <4>1. i \in 1 .. n
        BY <1>1, <3>1
      <4> QED BY <1>5, <2>2, <4>1
    <3>2. CASE ~(i <= n)
      <4> DEFINE j == i - n
      <4>1. j \in 1 .. b - m /\ i = n + j
        BY <1>1, <3>2
      <4> HIDE DEF j
      <4>2. e[n + j] = v[j] /\ c[n + j] = v[j]
        BY <1>6, <2>2, <4>1
      <4> QED BY <4>1, <4>2
    <3> QED BY <3>1, <3>2
  <2>4. e = c
    BY <1>2, <2>2, <2>3, SeqEqual
  <2> QED BY <2>4 DEF e
<1> QED BY <1>7, <1>8, <1>9 DEF c, u, v, n

\* What is sent: the stream, or the stream with one wrong byte in it.
Sent(rs, d) == IF d = 0 THEN Stream(rs) ELSE [Stream(rs) EXCEPT ![d] = "x"]
Unharmed(rs, d, i) == i \in 1 .. Len(rs) /\ (d # 0 => EndOf(rs, i) < d)
Damage(rs, d) == d \in Nat /\ (d # 0 => d \in 1 .. Len(Stream(rs)))

LEMMA SentIs ==
  ASSUME NEW rs \in Seq(Request), NEW d, Damage(rs, d)
  PROVE  /\ Sent(rs, d) \in Seq(Byte) /\ Len(Sent(rs, d)) = Len(Stream(rs)) /\ Len(Stream(rs)) \in Nat
         /\ \A p \in 1 .. Len(Stream(rs)) : (d # 0 => p < d) => Sent(rs, d)[p] = Stream(rs)[p]
<1> DEFINE s == Stream(rs)
           x == "x"
           u == [s EXCEPT ![d] = x]
           n == Len(s)
<1>1. s \in Seq(Byte) /\ n \in Nat
  BY EncodingsAre, LenProperties
<1>2. x \in Byte
  BY SignsAreBytes DEF Sign
<1>3. d \in Nat /\ (d # 0 => d \in 1 .. n)
  BY DEF Damage
<1> HIDE DEF x, s
<1>4. CASE d = 0
  BY <1>1, <1>4 DEF Sent, s
<1>5. CASE d # 0
  <2>1. s \in [1 .. n -> Byte] /\ d \in 1 .. n
    BY <1>1, <1>3, <1>5, LenProperties
  <2> HIDE DEF n
  <2>2. u \in [1 .. n -> Byte] /\ \A p \in 1 .. n : p < d => u[p] = s[p]
    BY <1>2, <2>1
  <2> HIDE DEF u
  <2>3. u \in Seq(Byte) /\ Len(u) = n
    BY <1>1, <2>2
  <2>4. Sent(rs, d) = u
    BY <1>5 DEF Sent, u, s, x
  <2> QED BY <1>1, <1>5, <2>2, <2>3, <2>4 DEF n, s
<1> QED BY <1>4, <1>5

-----------------------------------------------------------------------------
(* The inductive invariant.                                                *)

IsSequence(s) == \E T : s \in Seq(T)

\* What is still to come continues what has arrived.
StreamInv ==
  /\ requests \in Seq(Request) /\ Damage(requests, damaged)
  /\ arrived \in Nat /\ input \in Seq(Byte)
  /\ arrived + Len(input) <= Len(Stream(requests))
  /\ input = Cut(Sent(requests, damaged), arrived, arrived + Len(input))

\* What has been dispatched before the wrong byte is what was requested.
CommandsInv ==
  /\ IsSequence(commands)
  /\ \A i \in 1 .. Len(commands) : Unharmed(requests, damaged, i) => Same(commands[i], requests[i])

\* The next request has been written, and the wrong byte is behind it.
NextIsUnharmed == Unharmed(requests, damaged, Len(commands) + 1)

\* As long as the reader is before the wrong byte, its buffer begins where the
\* last request that it has dispatched ends.
BufferInv ==
  /\ mode \in {"read", "parse", "closed"}
  /\ damaged = 0 \/ NextIsUnharmed =>
       /\ mode # "closed" /\ Len(commands) <= Len(requests)
       /\ EndOf(requests, Len(commands)) <= arrived
       /\ buffer = Cut(Sent(requests, damaged), EndOf(requests, Len(commands)), arrived)

\* It reads on only when the next request has not arrived as a whole.
ReadsInv == mode = "read" /\ NextIsUnharmed => arrived < EndOf(requests, Len(commands) + 1)

IInv == StreamInv /\ CommandsInv /\ BufferInv /\ ReadsInv

LEMMA NextBegins ==
  ASSUME NEW rs \in Seq(Request), NEW d, Damage(rs, d), NEW k \in Nat, Unharmed(rs, d, k + 1),
         NEW a \in Nat, EndOf(rs, k) <= a, a <= Len(Stream(rs)),
         NEW b, b = Cut(Sent(rs, d), EndOf(rs, k), a)
  PROVE  /\ rs[k + 1] \in Request /\ Len(Encoded(rs[k + 1])) \in Nat \ {0} /\ EndOf(rs, k) \in Nat
         /\ EndOf(rs, k + 1) = EndOf(rs, k) + Len(Encoded(rs[k + 1]))
         /\ b \in Seq(Byte) /\ Len(b) = a - EndOf(rs, k) /\ Begins(Encoded(rs[k + 1]), b, 0)
<1> DEFINE e == Encoded(rs[k + 1])
           E == EndOf(rs, k)
           s == Stream(rs)
           u == Sent(rs, d)
<1>1. Marks(rs)
  BY MarksAre
<1>2. k + 1 \in 1 .. Len(rs) /\ (d # 0 => EndOf(rs, k + 1) < d) /\ Len(rs) \in Nat
  BY <1>1 DEF Unharmed, Marks
<1>3. k \in 0 .. Len(rs) /\ k + 1 \in 0 .. Len(rs) /\ (k + 1) - 1 = k
  BY <1>2
<1>4. E \in Nat /\ EndOf(rs, k + 1) \in Nat /\ EndOf(rs, k + 1) <= Len(s)
  BY <1>1, <1>3 DEF Marks
<1>5. rs[k + 1] \in Request /\ Len(e) \in Nat \ {0} /\ EndOf(rs, k + 1) = E + Len(e)
  <2>1. /\ rs[k + 1] \in Request /\ Len(Encoded(rs[k + 1])) \in Nat \ {0}
        /\ EndOf(rs, k + 1) = EndOf(rs, (k + 1) - 1) + Len(Encoded(rs[k + 1]))
    BY <1>1, <1>2 DEF Marks
  <2> QED BY <1>3, <2>1
<1>6. \A j \in 1 .. Len(e) : s[E + j] = e[j]
  <2>1. \A j \in 1 .. Len(Encoded(rs[k + 1])) : s[EndOf(rs, (k + 1) - 1) + j] = Encoded(rs[k + 1])[j]
    BY <1>1, <1>2 DEF Marks
  <2> QED BY <1>3, <2>1
<1>7. u \in Seq(Byte) /\ Len(u) = Len(s) /\ Len(s) \in Nat /\ \A p \in 1 .. Len(s) : (d # 0 => p < d) => u[p] = s[p]
  BY SentIs
<1> HIDE DEF e, E, s, u
<1>8. b \in Seq(Byte) /\ Len(b) = a - E /\ \A i \in 1 .. a - E : b[i] = u[E + i]
  <2>1. E <= a /\ a <= Len(u) /\ b = Cut(u, E, a)
    BY <1>7 DEF E, s, u
  <2>2. /\ Cut(u, E, a) \in Seq(Byte) /\ Len(Cut(u, E, a)) = a - E
        /\ \A i \in 1 .. a - E : Cut(u, E, a)[i] = u[E + i]
    <3>1. u \in Seq(Byte)
      BY <1>7
    <3> QED BY <1>4, <2>1, <3>1, CutPlaces
  <2> QED BY <2>1, <2>2
<1>9. Begins(e, b, 0)
  <2> SUFFICES ASSUME NEW j \in 1 .. Len(e), 0 + j <= Len(b) PROVE b[0 + j] = e[j]
    BY DEF Begins
  <2>1. 0 + j = j /\ j \in 1 .. a - E /\ E + j \in 1 .. Len(s) /\ E + j <= EndOf(rs, k + 1)
    BY <1>4, <1>5, <1>7, <1>8
  <2>2. d \in Nat
    BY DEF Damage
  <2>3. d # 0 => E + j < d
    BY <1>2, <1>4, <2>1, <2>2
  <2>4. u[E + j] = s[E + j]
    BY <1>7, <2>1, <2>3
  <2> QED BY <1>6, <1>8, <2>1, <2>4
<1> QED BY <1>4, <1>5, <1>8, <1>9 DEF e, E

\* What the parser makes of the buffer before the wrong byte.
Complete(rs, k, a, parsed) ==
  /\ EndOf(rs, k + 1) <= a
  /\ \E stale : parsed = Success(rs[k + 1].args, stale, Len(Encoded(rs[k + 1]))) /\ (stale # {} => Overflows(rs[k + 1]))

LEMMA Reader ==
  ASSUME IInv, damaged = 0 \/ NextIsUnharmed
  PROVE  \/ /\ ParseCommand(buffer) = Incomplete
            /\ NextIsUnharmed => arrived < EndOf(requests, Len(commands) + 1)
         \/ NextIsUnharmed /\ Complete(requests, Len(commands), arrived, ParseCommand(buffer))
<1> DEFINE k == Len(commands)
           rs == requests
           E == EndOf(rs, k)
           a == arrived
<1>1. /\ rs \in Seq(Request) /\ Damage(rs, damaged) /\ a \in Nat /\ Len(input) \in Nat
      /\ a + Len(input) <= Len(Stream(rs))
  BY LenProperties DEF IInv, StreamInv
<1>2. k <= Len(rs) /\ E <= a /\ buffer = Cut(Sent(rs, damaged), E, a)
  BY DEF IInv, BufferInv
<1>3. k \in Nat
  BY LenProperties DEF IInv, CommandsInv, IsSequence
<1>4. Marks(rs)
  BY <1>1, MarksAre
<1> HIDE DEF k, rs, E, a
<1>5. a <= Len(Stream(rs)) /\ Len(Stream(rs)) \in Nat
  <2>1. Len(Stream(rs)) \in Nat
    BY <1>4, LenProperties DEF Marks
  <2> QED BY <1>1, <2>1
<1>6. CASE NextIsUnharmed
  <2> DEFINE r == rs[k + 1]
             e == Encoded(r)
  <2>1. Unharmed(rs, damaged, k + 1)
    BY <1>6 DEF NextIsUnharmed, rs, k
  <2>2. /\ r \in Request /\ Len(e) \in Nat \ {0} /\ E \in Nat
        /\ EndOf(rs, k + 1) = E + Len(e)
        /\ buffer \in Seq(Byte) /\ Len(buffer) = a - E /\ Begins(e, buffer, 0)
    BY <1>1, <1>2, <1>3, <1>5, <2>1, NextBegins DEF E
  <2>3. /\ Len(e) <= Len(buffer) =>
             \E stale : ParseCommand(buffer) = Success(r.args, stale, Len(e)) /\ (stale # {} => Overflows(r))
        /\ Len(buffer) < Len(e) => ParseCommand(buffer) = Incomplete
    BY <2>2, RequestParsed
  <2>4. CASE Len(e) <= Len(buffer)
    <3>1. EndOf(rs, k + 1) <= a
      BY <1>1, <2>2, <2>4
    <3>2. Complete(rs, k, a, ParseCommand(buffer))
      BY <2>3, <2>4, <3>1 DEF Complete
    <3> QED BY <1>6, <3>2 DEF rs, k, a
  <2>5. CASE ~(Len(e) <= Len(buffer))
    <3> HIDE DEF e, r
    <3>1. Len(buffer) < Len(e) /\ a < EndOf(rs, k + 1)
      BY <1>1, <2>2, <2>5
    <3>2. ParseCommand(buffer) = Incomplete
      BY <2>3, <3>1
    <3> QED BY <3>1, <3>2 DEF rs, k, a
  <2> QED BY <2>4, <2>5
<1>7. CASE ~NextIsUnharmed
  <2>1. damaged = 0 /\ ~Unharmed(rs, damaged, k + 1)
    BY <1>7 DEF NextIsUnharmed, rs, k
  <2>2. Len(rs) \in Nat /\ k = Len(rs)
    BY <1>2, <1>3, <1>4, <2>1 DEF Unharmed, Marks
  <2>3. E = Len(Stream(rs)) /\ E = a
    <3>1. E = Len(Stream(rs))
      BY <1>4, <2>2 DEF Marks, E
    <3> QED BY <1>1, <1>2, <1>5, <3>1
  <2>4. buffer = <<>>
    <3>1. buffer = SubSeq(Sent(rs, damaged), E + 1, a)
      BY <1>2 DEF Cut
    <3> QED BY <1>1, <2>3, <3>1, SubSeqEmpty
  <2>5. ParseCommand(buffer) = Incomplete
    BY <2>4 DEF ParseCommand
  <2> QED BY <1>7, <2>5
<1> QED BY <1>6, <1>7

LEMMA ViewedIs ==
  ASSUME NEW r \in Request, NEW stale, stale # {} => Overflows(r), NEW n,
         NEW args \in Viewed(Success(r.args, stale, n))
  PROVE  Same(args, r)
<1> DEFINE T == Seq(Byte) \cup {Garbage}
           was == r.args
           u == [i \in DOMAIN was |-> IF i \in stale THEN Garbage ELSE was[i]]
<1>1. was \in Seq(T)
  <2>1. was \in Seq(Seq(Byte))
    BY RequestIs
  <2> QED BY <2>1, SeqMonotonic
<1>2. args = was \/ args = u
  BY DEF Viewed, Success
<1>3. Len(was) \in Nat /\ DOMAIN was = 1 .. Len(was) /\ \A i \in 1 .. Len(was) : was[i] \in T
  <2> HIDE DEF was, T
  <2> QED BY <1>1, LenProperties
<1>4. Garbage \in T
  OBVIOUS
<1> HIDE DEF T, was
<1>5. Same(was, r)
  BY DEF Same, was
<1>6. Same(u, r)
  <2>1. u \in [1 .. Len(was) -> T]
    BY <1>3, <1>4
  <2>2. Len(u) = Len(was)
    <3> HIDE DEF u
    <3> QED BY <1>3, <2>1
  <2>3. \A j \in DOMAIN u : u[j] = was[j] \/ (u[j] = Garbage /\ Overflows(r))
    <3> SUFFICES ASSUME NEW j \in DOMAIN u PROVE u[j] = was[j] \/ (u[j] = Garbage /\ Overflows(r))
      OBVIOUS
    <3>1. CASE j \in stale
      BY <3>1
    <3>2. CASE j \notin stale
      BY <3>2
    <3> QED BY <3>1, <3>2
  <2> HIDE DEF u
  <2> QED BY <2>2, <2>3 DEF Same, was
<1> QED BY <1>2, <1>5, <1>6

LEMMA InitInv == Init => IInv
<1> SUFFICES ASSUME Init PROVE IInv
  OBVIOUS
<1> DEFINE rs == requests
           s == Stream(rs)
           u == Sent(rs, damaged)
<1>1. rs \in Seq(Request)
  <2>1. PICK m \in 0 .. MaxRequests : rs \in [1 .. m -> Request]
    BY DEF Init, SeqOf
  <2>2. m \in Nat
    BY BoundsAssumption
  <2> QED BY <2>1, <2>2
<1>2. arrived = 0 /\ buffer = <<>> /\ mode = "read" /\ commands = <<>>
  BY DEF Init
<1>3. \/ damaged = 0 /\ \E n \in 0 .. Len(s) : input = SubSeq(s, 1, n)
      \/ damaged \in DOMAIN s /\ input = [s EXCEPT ![damaged] = "x"]
  BY DEF Init
<1> HIDE DEF rs, s, u
<1>4. Marks(rs)
  BY <1>1, MarksAre
<1>5. s \in Seq(Byte) /\ Len(s) \in Nat /\ DOMAIN s = 1 .. Len(s)
  <2>1. s \in Seq(Byte)
    BY <1>4 DEF Marks, s
  <2> QED BY <2>1, LenProperties
<1>6. Damage(rs, damaged)
  BY <1>3, <1>5 DEF Damage, s
<1>7. u \in Seq(Byte) /\ Len(u) = Len(s)
  BY <1>1, <1>6, SentIs DEF u, s
<1>8. \E n \in 0 .. Len(s) : input = Cut(u, 0, n)
  <2>1. CASE damaged = 0
    <3>1. u = s
      BY <2>1 DEF Sent, u, s
    <3>2. PICK n \in 0 .. Len(s) : input = SubSeq(s, 1, n)
      BY <1>3, <1>5, <2>1
    <3>3. input = Cut(u, 0, n)
      BY <3>1, <3>2 DEF Cut
    <3> QED BY <3>3
  <2>2. CASE damaged # 0
    <3>1. input = u
      BY <1>3, <2>2 DEF Sent, u, s
    <3>2. SubSeq(u, 1, Len(u)) = u
      BY <1>7, SubSeqFull
    <3>3. input = Cut(u, 0, Len(s))
      BY <1>7, <3>1, <3>2 DEF Cut
    <3> QED BY <1>5, <3>3
  <2> QED BY <2>1, <2>2
<1>9. PICK n \in 0 .. Len(s) : input = Cut(u, 0, n)
  BY <1>8
<1>10. input \in Seq(Byte) /\ Len(input) = n
  <2>1. n \in Nat /\ 0 <= n /\ n <= Len(u) /\ n - 0 = n
    BY <1>5, <1>7
  <2>2. Cut(u, 0, n) \in Seq(Byte) /\ Len(Cut(u, 0, n)) = n - 0
    BY <1>7, <2>1, CutPlaces
  <2> QED BY <1>9, <2>1, <2>2
<1>11. StreamInv
  <2>1. 0 + n = n /\ n <= Len(s)
    BY <1>5
  <2> QED BY <1>1, <1>2, <1>6, <1>9, <1>10, <2>1 DEF StreamInv, rs, s, u
<1>12. Len(commands) = 0
  BY <1>2
<1>13. CommandsInv
  <2>1. IsSequence(commands)
    <3>1. <<>> \in Seq(Byte)
      BY EmptySeq
    <3> QED BY <1>2, <3>1 DEF IsSequence
  <2> QED BY <1>12, <2>1 DEF CommandsInv
<1>14. EndOf(rs, 0) = 0 /\ Len(rs) \in Nat
  BY <1>4 DEF Marks
<1>15. BufferInv
  <2>1. Cut(u, 0, 0) = <<>>
    BY SubSeqEmpty DEF Cut
  <2> QED BY <1>2, <1>12, <1>14, <2>1 DEF BufferInv, rs, u
<1>16. ReadsInv
  <2> SUFFICES ASSUME NextIsUnharmed PROVE 0 < EndOf(rs, 1)
    BY <1>2, <1>12 DEF ReadsInv, rs
  <2>1. 1 \in 1 .. Len(rs)
    BY <1>12 DEF NextIsUnharmed, Unharmed, rs
  <2>2. 0 \in 0 .. Len(rs) /\ 1 \in 0 .. Len(rs) /\ 0 < 1
    BY <1>14, <2>1
  <2>3. EndOf(rs, 0) < EndOf(rs, 1)
    BY <1>4, <2>2 DEF Marks
  <2> QED BY <1>14, <2>3
<1> QED BY <1>11, <1>13, <1>15, <1>16 DEF IInv

\* The facts of the invariant that the steps use.
LEMMA Facts ==
  ASSUME IInv
  PROVE  /\ requests \in Seq(Request) /\ Damage(requests, damaged) /\ Marks(requests)
         /\ Sent(requests, damaged) \in Seq(Byte) /\ Len(Sent(requests, damaged)) = Len(Stream(requests))
         /\ arrived \in Nat /\ Len(input) \in Nat /\ Len(commands) \in Nat
         /\ arrived + Len(input) <= Len(Stream(requests)) /\ Len(Stream(requests)) \in Nat
<1>1. requests \in Seq(Request) /\ Damage(requests, damaged) /\ arrived \in Nat
      /\ arrived + Len(input) <= Len(Stream(requests)) /\ Len(input) \in Nat
  BY LenProperties DEF IInv, StreamInv
<1>2. Marks(requests)
  BY <1>1, MarksAre
<1>3. /\ Sent(requests, damaged) \in Seq(Byte) /\ Len(Sent(requests, damaged)) = Len(Stream(requests))
      /\ Len(Stream(requests)) \in Nat
  BY <1>1, SentIs
<1>4. Len(commands) \in Nat
  BY LenProperties DEF IInv, CommandsInv, IsSequence
<1> QED BY <1>1, <1>2, <1>3, <1>4

LEMMA ReceiveInv == IInv /\ Receive => IInv'
<1> SUFFICES ASSUME IInv, Receive PROVE IInv'
  OBVIOUS
<1>1. PICK n \in 1 .. Len(input) :
        /\ buffer' = buffer \o SubSeq(input, 1, n)
        /\ input' = SubSeq(input, n + 1, Len(input))
        /\ arrived' = arrived + n
  BY DEF Receive
<1>2. requests' = requests /\ damaged' = damaged /\ commands' = commands /\ mode = "read" /\ mode' = "parse"
  BY DEF Receive, history
<1> DEFINE u == Sent(requests, damaged)
           a == arrived
           m == arrived + n
           b == arrived + Len(input)
           t == SubSeq(input, 1, n)
<1>3. /\ u \in Seq(Byte) /\ a \in Nat /\ m \in Nat /\ b \in Nat /\ a <= m /\ m <= b
      /\ b <= Len(u) /\ m - a = n /\ b - m \in Nat /\ m + (b - m) = b
      /\ Len(u) \in Nat /\ Len(u) = Len(Stream(requests))
  <2>1. /\ u \in Seq(Byte) /\ Len(u) = Len(Stream(requests)) /\ Len(u) \in Nat
        /\ a \in Nat /\ Len(input) \in Nat /\ a + Len(input) <= Len(u)
    BY Facts
  <2>2. n \in Nat /\ n <= Len(input)
    BY <2>1
  <2> DEFINE l == Len(input)
  <2> HIDE DEF u, l
  <2>3. /\ m \in Nat /\ b \in Nat /\ a <= m /\ m <= b /\ b <= Len(u)
        /\ m - a = n /\ b - m \in Nat /\ m + (b - m) = b
    BY ONLY <2>1, <2>2 DEF l
  <2> QED BY <2>1, <2>3
<1>4. input = Cut(u, a, b)
  BY DEF IInv, StreamInv
<1>5. t = Cut(u, a, m) /\ input' = Cut(u, m, b)
  <2> HIDE DEF u, a, m, b
  <2>1. /\ SubSeq(Cut(u, a, b), 1, m - a) = Cut(u, a, m)
        /\ SubSeq(Cut(u, a, b), m - a + 1, Len(Cut(u, a, b))) = Cut(u, m, b)
    <3>1. u \in Seq(Byte) /\ a \in Nat /\ b \in Nat /\ m \in Nat /\ a <= m /\ m <= b /\ b <= Len(u)
      BY <1>3
    <3> QED BY ONLY <3>1, CutAt
  <2> QED BY <1>1, <1>3, <1>4, <2>1
<1>6. input' \in Seq(Byte) /\ Len(input') = b - m
  <2> HIDE DEF u, a, m, b, t
  <2>1. Cut(u, m, b) \in Seq(Byte) /\ Len(Cut(u, m, b)) = b - m
    BY <1>3, CutPlaces
  <2> QED BY <1>5, <2>1
<1>7. StreamInv'
  <2>1. arrived' = m /\ arrived' + Len(input') = b
    BY <1>1, <1>3, <1>6
  <2>2. requests' \in Seq(Request) /\ Damage(requests', damaged') /\ Sent(requests', damaged') = u
    BY <1>2, Facts
  <2> HIDE DEF u, a, m, b
  <2> QED BY <1>2, <1>3, <1>5, <1>6, <2>1, <2>2 DEF StreamInv
<1>8. CommandsInv'
  BY <1>2 DEF IInv, CommandsInv
<1>9. BufferInv'
  <2> DEFINE E == EndOf(requests, Len(commands))
  <2>1. SUFFICES ASSUME damaged = 0 \/ NextIsUnharmed
                 PROVE  Len(commands) <= Len(requests) /\ E <= arrived' /\ buffer' = Cut(u, E, arrived')
    BY <1>2 DEF BufferInv, NextIsUnharmed
  <2>2. Len(commands) <= Len(requests) /\ E <= arrived /\ buffer = Cut(u, E, arrived)
    BY <2>1 DEF IInv, BufferInv
  <2>3. E \in Nat
    <3>1. Len(commands) \in 0 .. Len(requests) /\ Marks(requests)
      <4>1. Marks(requests) /\ Len(commands) \in Nat
        BY Facts
      <4> QED BY <2>2, <4>1 DEF Marks
    <3> QED BY <3>1 DEF Marks
  <2> HIDE DEF u, E, m, b, t, a
  <2>4. E <= a /\ E <= m /\ m <= Len(u) /\ a = arrived /\ m = arrived'
    BY <1>1, <1>3, <2>2, <2>3 DEF a, m
  <2>5. Cut(u, E, a) \o Cut(u, a, m) = Cut(u, E, m)
    <3>1. u \in Seq(Byte) /\ a \in Nat /\ m \in Nat
      BY <1>3
    <3>2. E \in Nat /\ E <= a /\ a <= m /\ m <= Len(u)
      BY <1>3, <2>3, <2>4
    <3> QED BY ONLY <3>1, <3>2, CutAt
  <2>6. buffer' = buffer \o t
    BY <1>1 DEF t
  <2>7. buffer' = Cut(u, E, m)
    BY <1>5, <2>2, <2>4, <2>5, <2>6
  <2> QED BY <2>2, <2>4, <2>7
<1>10. ReadsInv'
  BY <1>2 DEF ReadsInv
<1> QED BY <1>7, <1>8, <1>9, <1>10 DEF IInv

LEMMA ParseInv == IInv /\ Parse => IInv'
<1> SUFFICES ASSUME IInv, Parse PROVE IInv'
  OBVIOUS
<1> DEFINE parsed == ParseCommand(buffer)
           k == Len(commands)
<1>1. PICK args \in Viewed(parsed) : commands' = Append(commands, args)
  BY DEF Parse
<1>2. /\ mode = "parse" /\ parsed.status = "success" /\ buffer' = SubSeq(buffer, parsed.consumed + 1, Len(buffer))
      /\ requests' = requests /\ damaged' = damaged /\ arrived' = arrived /\ input' = input /\ mode' = mode
  BY DEF Parse, history
<1>3. k \in Nat /\ Marks(requests) /\ Len(requests) \in Nat /\ damaged \in Nat
  BY Facts DEF Marks, Damage
<1> HIDE DEF parsed, k
<1>4. /\ IsSequence(commands') /\ Len(commands') = k + 1 /\ commands'[k + 1] = args
      /\ \A i \in 1 .. k : commands'[i] = commands[i]
  <2>1. PICK T : commands \in Seq(T)
    BY DEF IInv, CommandsInv, IsSequence
  <2> DEFINE U == T \cup {args}
  <2>2. commands \in Seq(U) /\ args \in U
    BY <2>1, SeqMonotonic
  <2> HIDE DEF U
  <2>3. /\ Append(commands, args) \in Seq(U) /\ Len(Append(commands, args)) = Len(commands) + 1
        /\ \A i \in 1 .. Len(commands) : Append(commands, args)[i] = commands[i]
        /\ Append(commands, args)[Len(commands) + 1] = args
    BY <2>2, AppendProperties
  <2> QED BY <1>1, <2>3 DEF IsSequence, k
<1>5. StreamInv'
  <2>1. StreamInv
    BY DEF IInv
  <2> QED BY <1>2, <2>1 DEF StreamInv
<1>6. ReadsInv'
  BY <1>2 DEF ReadsInv
<1>7. \A i \in 1 .. k : Unharmed(requests, damaged, i) => Same(commands'[i], requests[i])
  BY <1>4 DEF IInv, CommandsInv, k
<1>8. ASSUME Unharmed(requests, damaged, k + 1) => Same(args, requests[k + 1]) PROVE CommandsInv'
  <2>1. \A i \in 1 .. k + 1 : i \in 1 .. k \/ i = k + 1
    BY <1>3
  <2>2. \A i \in 1 .. k + 1 : Unharmed(requests, damaged, i) => Same(commands'[i], requests[i])
    BY <1>4, <1>7, <1>8, <2>1
  <2> QED BY <1>2, <1>4, <2>2 DEF CommandsInv
<1>9. CASE damaged = 0 \/ NextIsUnharmed
  <2>1. NextIsUnharmed /\ Complete(requests, k, arrived, parsed)
    <3>1. parsed # Incomplete
      BY <1>2 DEF Incomplete
    <3> QED BY <1>9, <3>1, Reader DEF parsed, k
  <2> DEFINE r == requests[k + 1]
             L == Len(Encoded(r))
             E == EndOf(requests, k)
             a == arrived
             u == Sent(requests, damaged)
             m == E + L
  <2>2. PICK stale : parsed = Success(r.args, stale, L) /\ (stale # {} => Overflows(r))
    BY <2>1 DEF Complete
  <2>3. k + 1 \in 1 .. Len(requests) /\ k \in 0 .. Len(requests) /\ (k + 1) - 1 = k
    BY <1>3, <2>1 DEF NextIsUnharmed, Unharmed, k
  <2>4. r \in Request /\ L \in Nat /\ E \in Nat /\ EndOf(requests, k + 1) = m
    <3>1. /\ requests[k + 1] \in Request /\ Len(Encoded(requests[k + 1])) \in Nat \ {0}
          /\ EndOf(requests, k + 1) = EndOf(requests, (k + 1) - 1) + Len(Encoded(requests[k + 1]))
      BY <1>3, <2>3 DEF Marks
    <3>2. EndOf(requests, k) \in Nat
      BY <1>3, <2>3 DEF Marks
    <3> QED BY <2>3, <3>1, <3>2
  <2>5. Same(args, r)
    <3> HIDE DEF r, L
    <3> QED BY <1>1, <2>2, <2>4, ViewedIs
  <2>6. CommandsInv'
    BY <1>8, <2>5
  <2>7. mode' \in {"read", "parse", "closed"} /\ mode' # "closed" /\ Len(commands') <= Len(requests')
    <3>1. k + 1 <= Len(requests)
      BY <2>3
    <3> QED BY <1>2, <1>4, <3>1
  <2>8. EndOf(requests, k + 1) <= a
    BY <2>1 DEF Complete
  <2>9. buffer = Cut(u, E, a)
    BY <1>9 DEF IInv, BufferInv, k
  <2>10. parsed.consumed = L
    BY <2>2 DEF Success
  <2>11. a \in Nat /\ u \in Seq(Byte) /\ a <= Len(u)
    <3>1. /\ u \in Seq(Byte) /\ Len(u) = Len(Stream(requests)) /\ a \in Nat /\ Len(input) \in Nat
          /\ a + Len(input) <= Len(Stream(requests)) /\ Len(Stream(requests)) \in Nat
      BY Facts
    <3> HIDE DEF u, a
    <3> QED BY <3>1
  <2> HIDE DEF r, L, E, a, u
  <2>12. m \in Nat /\ E <= m /\ m <= a /\ m - E = L
    BY <2>4, <2>8
  <2> HIDE DEF m
  <2>13. SubSeq(Cut(u, E, a), m - E + 1, Len(Cut(u, E, a))) = Cut(u, m, a)
    BY <2>4, <2>11, <2>12, CutAt
  <2>14. buffer' = Cut(u, m, a)
    BY <1>2, <2>9, <2>10, <2>12, <2>13
  <2>15. BufferInv'
    <3>1. EndOf(requests', Len(commands')) = m /\ Sent(requests', damaged') = u /\ arrived' = a
      BY <1>2, <1>4, <2>4 DEF u, a
    <3>2. EndOf(requests', Len(commands')) <= arrived'
      BY <2>12, <3>1
    <3>3. buffer' = Cut(Sent(requests', damaged'), EndOf(requests', Len(commands')), arrived')
      BY <2>14, <3>1
    <3> QED BY <2>7, <3>2, <3>3 DEF BufferInv
  <2> QED BY <1>5, <1>6, <2>6, <2>15 DEF IInv
<1>10. CASE ~(damaged = 0 \/ NextIsUnharmed)
  <2>1. damaged # 0 /\ ~Unharmed(requests, damaged, k + 1)
    BY <1>10 DEF NextIsUnharmed, k
  <2>2. CommandsInv'
    BY <1>8, <2>1
  <2>3. ~Unharmed(requests, damaged, (k + 1) + 1)
    <3> SUFFICES ASSUME Unharmed(requests, damaged, (k + 1) + 1) PROVE FALSE
      OBVIOUS
    <3> DEFINE i == k + 1
    <3>1. i + 1 \in 1 .. Len(requests) /\ EndOf(requests, i + 1) < damaged
      BY <2>1 DEF Unharmed
    <3>2. i \in Nat /\ i # 0
      BY <1>3
    <3> HIDE DEF i
    <3>3. i \in 1 .. Len(requests) /\ i \in 0 .. Len(requests) /\ i + 1 \in 0 .. Len(requests) /\ i < i + 1
      BY <1>3, <3>1, <3>2
    <3>4. EndOf(requests, i) < EndOf(requests, i + 1) /\ EndOf(requests, i) \in Nat /\ EndOf(requests, i + 1) \in Nat
      BY <1>3, <3>3 DEF Marks
    <3>5. EndOf(requests, i) < damaged
      BY <1>3, <3>1, <3>4
    <3>6. Unharmed(requests, damaged, i)
      BY <3>3, <3>5 DEF Unharmed
    <3> QED BY <2>1, <3>6 DEF i
  <2>4. BufferInv'
    <3>1. ~(damaged' = 0 \/ NextIsUnharmed')
      BY <1>2, <1>4, <2>1, <2>3 DEF NextIsUnharmed
    <3>2. mode' \in {"read", "parse", "closed"}
      BY <1>2
    <3> QED BY <3>1, <3>2 DEF BufferInv
  <2> QED BY <1>5, <1>6, <2>2, <2>4 DEF IInv
<1> QED BY <1>9, <1>10

LEMMA AskForMoreInv == IInv /\ AskForMore => IInv'
<1> SUFFICES ASSUME IInv, AskForMore PROVE IInv'
  OBVIOUS
<1>1. /\ mode = "parse" /\ ParseCommand(buffer).status = "incomplete" /\ mode' = "read"
      /\ requests' = requests /\ damaged' = damaged /\ arrived' = arrived /\ input' = input
      /\ buffer' = buffer /\ commands' = commands
  BY DEF AskForMore, history
<1>2. StreamInv' /\ CommandsInv'
  BY <1>1 DEF IInv, StreamInv, CommandsInv
<1>3. BufferInv'
  BY <1>1 DEF IInv, BufferInv, NextIsUnharmed
<1>4. ReadsInv'
  <2> SUFFICES ASSUME NextIsUnharmed PROVE arrived < EndOf(requests, Len(commands) + 1)
    BY <1>1 DEF ReadsInv, NextIsUnharmed
  <2>1. ~Complete(requests, Len(commands), arrived, ParseCommand(buffer))
    BY <1>1 DEF Complete, Success
  <2> QED BY <2>1, Reader
<1> QED BY <1>2, <1>3, <1>4 DEF IInv

LEMMA FailInv == IInv /\ Fail => IInv'
<1> SUFFICES ASSUME IInv, Fail PROVE IInv'
  OBVIOUS
<1>1. /\ ParseCommand(buffer).status = "error" /\ mode' \in {"read", "closed"}
      /\ requests' = requests /\ damaged' = damaged /\ arrived' = arrived /\ input' = input
      /\ commands' = commands
  BY DEF Fail, history
<1>2. ~(damaged = 0 \/ NextIsUnharmed)
  <2>1. ~Complete(requests, Len(commands), arrived, ParseCommand(buffer))
    BY <1>1 DEF Complete, Success
  <2>2. ParseCommand(buffer) # Incomplete
    BY <1>1 DEF Incomplete
  <2> QED BY <2>1, <2>2, Reader
<1>3. StreamInv' /\ CommandsInv'
  BY <1>1 DEF IInv, StreamInv, CommandsInv
<1>4. BufferInv' /\ ReadsInv'
  BY <1>1, <1>2 DEF BufferInv, ReadsInv, NextIsUnharmed
<1> QED BY <1>3, <1>4 DEF IInv

LEMMA StepInv == IInv /\ [Next]_vars => IInv'
<1> SUFFICES ASSUME IInv, [Next]_vars PROVE IInv'
  OBVIOUS
<1>1. CASE Receive
  BY <1>1, ReceiveInv
<1>2. CASE Parse
  BY <1>2, ParseInv
<1>3. CASE AskForMore
  BY <1>3, AskForMoreInv
<1>4. CASE Fail
  BY <1>4, FailInv
<1>5. CASE UNCHANGED vars
  <2>1. /\ requests' = requests /\ damaged' = damaged /\ arrived' = arrived /\ input' = input
        /\ buffer' = buffer /\ commands' = commands /\ mode' = mode
    BY <1>5 DEF vars, history
  <2> QED BY <2>1 DEF IInv, StreamInv, CommandsInv, BufferInv, ReadsInv, NextIsUnharmed
<1> QED BY <1>1, <1>2, <1>3, <1>4, <1>5 DEF Next

-----------------------------------------------------------------------------
(* What IInv says of the properties of RespStream. *)

\* The requests that have arrived as they were written are the first ones.
LEMMA IntactAre ==
  ASSUME IInv
  PROVE  /\ Intact \in Nat /\ Intact <= Len(requests)
         /\ \A i \in 1 .. Len(requests) :
              i <= Intact <=> EndOf(requests, i) <= arrived /\ Unharmed(requests, damaged, i)
<1> DEFINE n == Len(requests)
           I == {i \in DOMAIN requests : End(i) <= arrived /\ (damaged # 0 => End(i) < damaged)}
           c == Cardinality(I)
<1>1. /\ n \in Nat /\ DOMAIN requests = 1 .. n /\ arrived \in Nat /\ damaged \in Nat
      /\ \A i \in 0 .. n : EndOf(requests, i) \in Nat
      /\ \A i \in 0 .. n : \A j \in 0 .. n : i < j => EndOf(requests, i) < EndOf(requests, j)
  BY Facts, LenProperties DEF Marks, Damage
<1>2. \A i \in 1 .. n : i \in I <=> EndOf(requests, i) <= arrived /\ Unharmed(requests, damaged, i)
  BY <1>1 DEF End, EndOf, Unharmed
<1>3. I \subseteq 1 .. n
  BY <1>1
<1>4. \A i \in I : \A j \in 1 .. i : j \in I
  <2> SUFFICES ASSUME NEW i \in I, NEW j \in 1 .. i PROVE j \in I
    OBVIOUS
  <2>1. i \in 1 .. n /\ j \in 1 .. n /\ (j = i \/ EndOf(requests, j) < EndOf(requests, i))
    BY <1>1, <1>3
  <2>2. EndOf(requests, i) <= arrived /\ Unharmed(requests, damaged, i)
    BY <1>2, <2>1
  <2>3. EndOf(requests, i) \in Nat /\ EndOf(requests, j) \in Nat
    BY <1>1, <2>1
  <2>4. EndOf(requests, j) <= arrived /\ Unharmed(requests, damaged, j)
    BY <1>1, <2>1, <2>2, <2>3 DEF Unharmed
  <2> QED BY <1>2, <2>1, <2>4
<1> HIDE DEF I
<1>5. IsFiniteSet(I) /\ c \in Nat
  <2>1. IsFiniteSet(1 .. n)
    BY <1>1, FS_Interval
  <2>2. IsFiniteSet(I)
    BY <1>3, <2>1, FS_Subset
  <2> QED BY <2>2, FS_CardinalityType
<1>6. I \subseteq 1 .. c
  <2> SUFFICES ASSUME NEW i \in I PROVE i \in 1 .. c
    OBVIOUS
  <2>1. i \in Nat /\ i >= 1 /\ 1 .. i \subseteq I
    BY <1>1, <1>3, <1>4
  <2>2. Cardinality(1 .. i) = i
    BY <2>1, FS_Interval
  <2>3. Cardinality(1 .. i) <= c
    BY <1>5, <2>1, FS_Subset
  <2> QED BY <1>5, <2>1, <2>2, <2>3
<1>7. I = 1 .. c
  <2>1. IsFiniteSet(1 .. c) /\ Cardinality(1 .. c) = c
    BY <1>5, FS_Interval
  <2> QED BY <1>5, <1>6, <2>1, FS_Subset
<1>8. Intact = c
  BY DEF Intact, I
<1>9. \A i \in 1 .. n : i <= Intact <=> i \in I
  BY <1>1, <1>5, <1>7, <1>8
<1>10. c <= n
  <2>1. ASSUME c # 0 PROVE c \in I
    BY <1>5, <1>7, <2>1
  <2>2. c # 0 => c \in 1 .. n
    BY <1>3, <2>1
  <2> HIDE DEF c, n
  <2> QED BY <1>1, <1>5, <2>2
<1> QED BY <1>2, <1>5, <1>8, <1>9, <1>10

LEMMA InvNothingWaits == IInv => NothingWaits
<1> DEFINE k == Len(commands)
<1> SUFFICES ASSUME IInv, mode \in {"read", "closed"} PROVE k >= Intact
  BY DEF NothingWaits
<1>1. k \in Nat /\ Len(requests) \in Nat /\ arrived \in Nat /\ Intact \in Nat /\ Intact <= Len(requests)
  BY Facts, IntactAre DEF Marks
<1>2. ASSUME k < Intact PROVE FALSE
  <2>1. k + 1 \in 1 .. Len(requests) /\ k + 1 <= Intact
    BY <1>1, <1>2
  <2>2. EndOf(requests, k + 1) <= arrived /\ NextIsUnharmed
    BY <2>1, IntactAre DEF NextIsUnharmed
  <2>3. mode = "read"
    BY <2>2 DEF IInv, BufferInv
  <2>4. arrived < EndOf(requests, k + 1) /\ EndOf(requests, k + 1) \in Nat
    <3>1. arrived < EndOf(requests, k + 1)
      BY <2>2, <2>3 DEF IInv, ReadsInv
    <3>2. Marks(requests)
      BY Facts
    <3> QED BY <2>1, <3>1, <3>2 DEF Marks
  <2> QED BY <1>1, <2>2, <2>4
<1> QED BY <1>1, <1>2

LEMMA InvRequestsInOrder == IInv => RequestsInOrder
<1> DEFINE k == Len(commands)
           m == Min({Intact, k})
<1> SUFFICES ASSUME IInv PROVE RequestsInOrder
  OBVIOUS
<1>1. k \in Nat /\ Len(requests) \in Nat /\ arrived \in Nat /\ Intact \in Nat /\ Intact <= Len(requests)
  BY Facts, IntactAre DEF Marks
<1>2. m \in Nat /\ m <= Intact /\ m <= k
  BY <1>1 DEF Min
<1> HIDE DEF m
<1>3. ASSUME NEW i \in 1 .. m PROVE Same(commands[i], requests[i])
  <2>1. i \in 1 .. Len(requests) /\ i <= Intact /\ i \in 1 .. k
    BY <1>1, <1>2
  <2>2. Unharmed(requests, damaged, i)
    BY <2>1, IntactAre
  <2> QED BY <2>1, <2>2 DEF IInv, CommandsInv
<1>4. ASSUME damaged = 0 PROVE k <= Intact /\ mode # "closed"
  <2>1. mode # "closed" /\ k <= Len(requests) /\ EndOf(requests, k) <= arrived
    BY <1>4 DEF IInv, BufferInv
  <2>2. k # 0 => k \in 1 .. Len(requests) /\ Unharmed(requests, damaged, k)
    BY <1>1, <1>4, <2>1 DEF Unharmed
  <2>3. k # 0 => k <= Intact
    BY <2>1, <2>2, IntactAre
  <2> QED BY <1>1, <2>1, <2>3
<1> QED BY <1>3, <1>4 DEF RequestsInOrder, m

LEMMA Reading == Spec => []IInv
BY InitInv, StepInv, PTL DEF Spec

(* Whatever the requests are, whatever their arguments hold and whatever     *)
(* pieces their bytes come in: parse_resp and the loop around it hand on the *)
(* requests one by one as they were written, up to a wrong byte; without one *)
(* nothing is handed on before it is complete and no connection is closed.  *)
THEOREM RespInOrder == Spec => []RequestsInOrder
BY Reading, InvRequestsInOrder, PTL

(* When the connection goes back to reading, every request that has arrived  *)
(* as it was written has been handed on: none waits for the bytes of another.*)
THEOREM RespNothingWaits == Spec => []NothingWaits
BY Reading, InvNothingWaits, PTL
=============================================================================
