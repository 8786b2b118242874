-------------------------------- MODULE Data --------------------------------
(* Operators on sequences whose recursion is a function, so that what they  *)
(* compute can be proved (DataLemmas).                                      *)
EXTENDS Integers, Sequences

\* The elements of s that are in T, in their order.
Filter(s, T) ==
  LET f[i \in 0 .. Len(s)] ==
        IF i = 0 THEN <<>>
        ELSE IF s[i] \in T THEN Append(f[i - 1], s[i]) ELSE f[i - 1]
  IN f[Len(s)]

\* Each of the numbers 1 .. n is at one place of the sequences h[x], x \in H.
HeldOnce(h, H, n) ==
  LET Places(v) == {p \in UNION {{x} \X DOMAIN h[x] : x \in H} : h[p[1]][p[2]] = v}
  IN \A v \in 1 .. n : \E p \in Places(v) : Places(v) = {p}

One(S) == CHOOSE x \in S : TRUE

\* The sum of f over the finite set S.
Total(f, S) ==
  LET g[T \in SUBSET S] == IF T = {} THEN 0 ELSE f[One(T)] + g[T \ {One(T)}]
  IN g[S]
=============================================================================
