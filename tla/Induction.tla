------------------------------- MODULE Induction -------------------------------
(***************************************************************************)
(* Induction and recursion over the natural numbers, stated with sets and  *)
(* functions instead of operators, so that they can be applied to whatever *)
(* set a proof defines.                                                    *)
(***************************************************************************)
EXTENDS Integers, Selection, SequenceTheorems, TLAPS, WellFoundedInduction

Below == {ss \in Nat \X Nat : ss[1] < ss[2]}

LEMMA BelowWellFounded == IsWellFoundedOn(Below, Nat)
BY NatLessThanWellFounded DEF OpToRel, Below

\* Every set of natural numbers has a least element.
THEOREM LeastNumber ==
    ASSUME NEW S, S \subseteq Nat, S # {}
    PROVE  \E m \in S : \A n \in S : m <= n
<1>1. PICK m \in S : \A n \in S : ~ (<<n, m>> \in Below)
    BY BelowWellFounded, WFMin
<1>2. \A n \in S : n \in Nat /\ m \in Nat /\ ~ (n < m)
    BY <1>1 DEF Below
<1> QED BY <1>2

\* A set with 0 and the successor of each of its numbers has all of them.
THEOREM NatSetInduction ==
    ASSUME NEW S, 0 \in S, \A n \in Nat : n \in S => n + 1 \in S
    PROVE  \A n \in Nat : n \in S
<1> DEFINE Rest == {n \in Nat : n \notin S}
<1>1. SUFFICES Rest = {}
    OBVIOUS
<1>2. SUFFICES ASSUME Rest # {} PROVE FALSE
    OBVIOUS
<1>3. PICK m \in Rest : \A n \in Rest : m <= n
    BY <1>2, LeastNumber
<1>4. m \in Nat /\ m # 0
    BY <1>3
<1>5. m - 1 \in Nat /\ ~ (m <= m - 1) /\ (m - 1) + 1 = m
    BY <1>4
<1>6. m - 1 \notin Rest
    BY <1>3, <1>5
<1>7. m - 1 \in S
    BY <1>5, <1>6
<1>8. m \in S
    BY <1>5, <1>7
<1> QED BY <1>3, <1>8

-----------------------------------------------------------------------------
(* A function that is given its first value and a step.                    *)

Approximations(S, e, h, n) ==
    {g \in [0 .. n -> S] : /\ g[0] = e
                           /\ \A i \in 0 .. n - 1 : g[i + 1] = h[<<i, g[i]>>]}

LEMMA ApproximationsExist ==
    ASSUME NEW S, NEW e \in S, NEW h \in [Nat \X S -> S]
    PROVE  \A n \in Nat : Approximations(S, e, h, n) # {}
<1> DEFINE Good == {n \in Nat : Approximations(S, e, h, n) # {}}
<1>1. 0 \in Good
    <2> DEFINE g == [i \in 0 .. 0 |-> e]
    <2>1. g \in [0 .. 0 -> S] /\ g[0] = e /\ 0 .. 0 - 1 = {}
        OBVIOUS
    <2>2. g \in Approximations(S, e, h, 0)
        BY <2>1 DEF Approximations
    <2> QED BY <2>2
<1>2. ASSUME NEW n \in Nat, n \in Good PROVE n + 1 \in Good
    <2>1. PICK g \in Approximations(S, e, h, n) : TRUE
        BY <1>2
    <2>2. /\ g \in [0 .. n -> S] /\ g[0] = e
          /\ \A i \in 0 .. n - 1 : g[i + 1] = h[<<i, g[i]>>]
        BY <2>1 DEF Approximations
    <2> DEFINE last == h[<<n, g[n]>>]
               gg == [i \in 0 .. n + 1 |-> IF i = n + 1 THEN last ELSE g[i]]
    <2>3. last \in S
        BY <2>2
    <2>4. gg \in [0 .. n + 1 -> S] /\ gg[0] = e
        BY <2>2, <2>3
    <2>5. ASSUME NEW i \in 0 .. (n + 1) - 1
          PROVE  gg[i + 1] = h[<<i, gg[i]>>]
        <3>1. i \in 0 .. n /\ i \in 0 .. n + 1 /\ i + 1 \in 0 .. n + 1 /\ i # n + 1
            OBVIOUS
        <3>2. gg[i] = g[i]
            BY <3>1
        <3>3. CASE i = n
            BY <3>1, <3>2, <3>3
        <3>4. CASE i # n
            <4>1. i \in 0 .. n - 1 /\ i + 1 # n + 1
                BY <3>1, <3>4
            <4>2. gg[i + 1] = g[i + 1]
                BY <3>1, <4>1
            <4> QED BY <2>2, <3>2, <4>1, <4>2
        <3> QED BY <3>3, <3>4
    <2>6. gg \in Approximations(S, e, h, n + 1)
        <3> HIDE DEF gg
        <3> QED BY <2>4, <2>5 DEF Approximations
    <2> QED BY <2>6
<1> HIDE DEF Good
<1>3. \A n \in Nat : n \in Good
    BY <1>1, <1>2, NatSetInduction
<1> QED BY <1>3 DEF Good

LEMMA ApproximationsAgree ==
    ASSUME NEW S, NEW e \in S, NEW h \in [Nat \X S -> S],
           NEW n \in Nat, NEW g \in Approximations(S, e, h, n),
           NEW k \in Nat, NEW f \in Approximations(S, e, h, k), n <= k
    PROVE  g[n] = f[n]
<1> DEFINE Same == {i \in Nat : i <= n => g[i] = f[i]}
<1>1. /\ g[0] = e /\ \A i \in 0 .. n - 1 : g[i + 1] = h[<<i, g[i]>>]
      /\ f[0] = e /\ \A i \in 0 .. k - 1 : f[i + 1] = h[<<i, f[i]>>]
    BY DEF Approximations
<1>2. 0 \in Same
    BY <1>1
<1>3. ASSUME NEW i \in Nat, i \in Same PROVE i + 1 \in Same
    <2>1. CASE i + 1 <= n
        <3>1. i <= n /\ i \in 0 .. n - 1 /\ i \in 0 .. k - 1
            BY <2>1
        <3>2. g[i] = f[i]
            BY <1>3, <3>1
        <3>3. g[i + 1] = f[i + 1]
            BY <1>1, <3>1, <3>2
        <3> QED BY <3>3
    <2>2. CASE ~ (i + 1 <= n)
        BY <2>2
    <2> QED BY <2>1, <2>2
<1> HIDE DEF Same
<1>4. n \in Same
    BY <1>2, <1>3, NatSetInduction
<1> QED BY <1>4 DEF Same

\* The functions with first value e in which each value is made from the
\* one before it.
Iterations(S, e, h) ==
    {f \in [Nat -> S] : f[0] = e /\ \A n \in Nat : f[n + 1] = h[<<n, f[n]>>]}

\* There is such a function, whatever the first value and the step are.
THEOREM RecursionOnNat ==
    ASSUME NEW S, NEW e \in S, NEW h \in [Nat \X S -> S]
    PROVE  Iterations(S, e, h) # {}
<1> DEFINE G(n) == CHOOSE g \in Approximations(S, e, h, n) : TRUE
           f == [n \in Nat |-> G(n)[n]]
<1>1. \A n \in Nat : G(n) \in Approximations(S, e, h, n)
    BY ApproximationsExist
<1> HIDE DEF G
<1>2. ASSUME NEW n \in Nat
      PROVE  G(n)[n] \in S
    <2>1. G(n) \in [0 .. n -> S]
        BY <1>1 DEF Approximations
    <2> QED BY <2>1
<1>3. f \in [Nat -> S]
    BY <1>2
<1>4. f[0] = e
    <2>1. G(0)[0] = e
        BY <1>1 DEF Approximations
    <2> QED BY <2>1
<1>5. ASSUME NEW n \in Nat
      PROVE  f[n + 1] = h[<<n, f[n]>>]
    <2>1. n + 1 \in Nat /\ n <= n + 1 /\ n \in 0 .. (n + 1) - 1
        OBVIOUS
    <2>2. G(n + 1)[n + 1] = h[<<n, G(n + 1)[n]>>]
        BY <1>1, <2>1 DEF Approximations
    <2>3. G(n)[n] = G(n + 1)[n]
        BY <1>1, <2>1, ApproximationsAgree
    <2> QED BY <2>1, <2>2, <2>3
<1>6. f \in Iterations(S, e, h)
    <2> HIDE DEF f
    <2> QED BY <1>3, <1>4, <1>5 DEF Iterations
<1> QED BY <1>6

\* There is a function, too, in which each value that is not given is made from
\* an earlier one.
Recursions(S, given, b, d, h) ==
    {f \in [Nat -> S] : \A n \in Nat :
       f[n] = IF n \in given THEN b[n] ELSE h[<<n, f[d[n]]>>]}

THEOREM RecursionBelow ==
    ASSUME NEW S, NEW given, NEW b \in [Nat -> S], NEW d \in [Nat -> Nat],
           \A n \in Nat : n \notin given => d[n] < n,
           NEW h \in [Nat \X S -> S]
    PROVE  Recursions(S, given, b, d, h) # {}
<1> DEFINE T == [Nat -> S]
           Value(n, t) == IF n \in given THEN b[n] ELSE h[<<n, t[d[n]]>>]
           Step(x) == [x[2] EXCEPT ![x[1]] = Value(x[1], x[2])]
           H == [x \in Nat \X T |-> Step(x)]
<1>1. \A n \in Nat, t \in T : Value(n, t) \in S
  OBVIOUS
<1>2. H \in [Nat \X T -> T]
  <2>1. ASSUME NEW x \in Nat \X T PROVE Step(x) \in T
    <3>1. x[1] \in Nat /\ x[2] \in T
      OBVIOUS
    <3>2. Value(x[1], x[2]) \in S
      BY <1>1, <3>1
    <3> HIDE DEF Value
    <3> QED
      BY <3>1, <3>2
  <2> HIDE DEF Step
  <2> QED
    BY <2>1
<1>3. PICK g \in Iterations(T, b, H) : TRUE
  <2>1. b \in T
    OBVIOUS
  <2> HIDE DEF H, T
  <2>2. Iterations(T, b, H) # {}
    BY <1>2, <2>1, RecursionOnNat
  <2> QED
    BY <2>2
<1>4. /\ g \in [Nat -> T]
      /\ \A n \in Nat : g[n + 1] = [g[n] EXCEPT ![n] = Value(n, g[n])]
  <2>1. g \in [Nat -> T] /\ \A n \in Nat : g[n + 1] = H[<<n, g[n]>>]
    <3> HIDE DEF H
    <3> QED
      BY <1>3 DEF Iterations
  <2>2. ASSUME NEW n \in Nat
        PROVE  g[n + 1] = [g[n] EXCEPT ![n] = Value(n, g[n])]
    <3>1. <<n, g[n]>> \in Nat \X T
      <4> HIDE DEF T, H
      <4> QED
        BY <2>1
    <3>2. H[<<n, g[n]>>] = Step(<<n, g[n]>>)
      BY <3>1
    <3>3. Step(<<n, g[n]>>) = [g[n] EXCEPT ![n] = Value(n, g[n])]
      OBVIOUS
    <3>4. g[n + 1] = H[<<n, g[n]>>]
      BY <2>1
    <3> HIDE DEF H, Step
    <3> QED
      BY <3>2, <3>3, <3>4, Zenon
  <2> QED
    BY <2>1, <2>2
<1> HIDE DEF H, Value
<1>5. ASSUME NEW n \in Nat
      PROVE  /\ g[n] \in T /\ g[n + 1][n] = Value(n, g[n])
             /\ \A k \in Nat : k # n => g[n + 1][k] = g[n][k]
  <2>1. g[n] \in T
    <3> HIDE DEF T
    <3> QED
      BY <1>4
  <2> QED
    BY <1>4, <2>1
<1>6. ASSUME NEW k \in Nat
      PROVE  \A n \in Nat : k < n => g[n][k] = g[k + 1][k]
  <2> DEFINE Good == {n \in Nat : k < n => g[n][k] = g[k + 1][k]}
  <2>1. 0 \in Good
    OBVIOUS
  <2>2. ASSUME NEW n \in Nat, n \in Good PROVE n + 1 \in Good
    <3>1. SUFFICES ASSUME k < n + 1 PROVE g[n + 1][k] = g[k + 1][k]
      OBVIOUS
    <3>2. CASE k = n
      BY <3>2
    <3>3. CASE k # n
      <4>1. k < n
        BY <3>1, <3>3
      <4>2. g[n][k] = g[k + 1][k]
        BY <2>2, <4>1
      <4> QED
        BY <1>5, <3>3, <4>2
    <3> QED
      BY <3>2, <3>3
  <2> HIDE DEF Good
  <2>3. \A n \in Nat : n \in Good
    BY <2>1, <2>2, NatSetInduction
  <2> QED
    BY <2>3 DEF Good
<1> DEFINE f == [n \in Nat |-> g[n + 1][n]]
<1>7. f \in [Nat -> S]
  <2>1. ASSUME NEW n \in Nat PROVE g[n + 1][n] \in S
    <3>1. g[n + 1] \in T
      <4>1. n + 1 \in Nat
        OBVIOUS
      <4> HIDE DEF T
      <4> QED
        BY <1>5, <4>1
    <3> QED
      BY <3>1
  <2> QED
    BY <2>1
<1>8. ASSUME NEW n \in Nat
      PROVE  f[n] = IF n \in given THEN b[n] ELSE h[<<n, f[d[n]]>>]
  <2>1. f[n] = Value(n, g[n])
    BY <1>5
  <2>2. CASE n \in given
    BY <2>1, <2>2 DEF Value
  <2>3. CASE n \notin given
    <3>1. d[n] \in Nat /\ d[n] < n
      BY <2>3
    <3>2. g[n][d[n]] = g[d[n] + 1][d[n]]
      BY <1>6, <3>1
    <3>3. g[n][d[n]] = f[d[n]]
      BY <3>1, <3>2
    <3> QED
      BY <2>1, <2>3, <3>3 DEF Value
  <2> QED
    BY <2>2, <2>3
<1> HIDE DEF f
<1>9. f \in Recursions(S, given, b, d, h)
  BY <1>7, <1>8 DEF Recursions
<1> QED
  BY <1>9
-----------------------------------------------------------------------------
(* The same downwards: over 1 .. N, from the last number to the first.     *)

THEOREM DownwardInduction ==
    ASSUME NEW N \in Nat, NEW S,
           \A n \in 1 .. N : (\A k \in n + 1 .. N : k \in S) => n \in S
    PROVE  \A n \in 1 .. N : n \in S
<1> DEFINE Good == {j \in Nat : \A n \in 1 .. N : N - n <= j => n \in S}
<1>1. 0 \in Good
  <2> SUFFICES ASSUME NEW n \in 1 .. N, N - n <= 0 PROVE n \in S
    OBVIOUS
  <2>1. n + 1 .. N = {}
    OBVIOUS
  <2> QED
    BY <2>1
<1>2. ASSUME NEW j \in Nat, j \in Good PROVE j + 1 \in Good
  <2> SUFFICES ASSUME NEW n \in 1 .. N, N - n <= j + 1 PROVE n \in S
    OBVIOUS
  <2>1. ASSUME NEW k \in n + 1 .. N PROVE k \in S
    <3>1. k \in 1 .. N /\ N - k <= j
      OBVIOUS
    <3> QED
      BY <1>2, <3>1
  <2> QED
    BY <2>1
<1> HIDE DEF Good
<1>3. \A j \in Nat : j \in Good
  BY <1>1, <1>2, NatSetInduction
<1>4. ASSUME NEW n \in 1 .. N PROVE n \in S
  <2>1. N - n \in Nat /\ N - n <= N - n
    OBVIOUS
  <2>2. N - n \in Good
    BY <1>3, <2>1
  <2> QED
    BY <2>1, <2>2 DEF Good
<1> QED
  BY <1>4

UpwardRecursions(S, N, given, b, d, h) ==
    {f \in [1 .. N -> S] : \A n \in 1 .. N :
       f[n] = IF n \in given THEN b[n] ELSE h[<<n, f[d[n]]>>]}

THEOREM RecursionUpward ==
    ASSUME NEW S, NEW N \in Nat, NEW given,
           NEW b \in [1 .. N -> S], NEW d \in [1 .. N -> 1 .. N],
           \A n \in 1 .. N : n \notin given => n < d[n],
           NEW h \in [(1 .. N) \X S -> S]
    PROVE  UpwardRecursions(S, N, given, b, d, h) # {}
<1>1. CASE N = 0
  <2> DEFINE f == [n \in 1 .. N |-> b[n]]
  <2>1. 1 .. N = {}
    BY <1>1
  <2>2. f \in UpwardRecursions(S, N, given, b, d, h)
    BY <2>1 DEF UpwardRecursions
  <2> QED
    BY <2>2
<1>2. CASE N # 0
  <2> DEFINE In == {n \in Nat : n < N}
             Flip(n) == N - n
             B == [n \in Nat |-> IF n \in In THEN b[Flip(n)] ELSE b[1]]
             G == {n \in Nat : n \in In => Flip(n) \in given}
             D == [n \in Nat |-> IF n \in In THEN Flip(d[Flip(n)]) ELSE 0]
             H == [p \in Nat \X S |->
                     IF p[1] \in In THEN h[<<Flip(p[1]), p[2]>>] ELSE b[1]]
  <2>1. \A n \in In : Flip(n) \in 1 .. N /\ Flip(Flip(n)) = n
    OBVIOUS
  <2>2. \A n \in 1 .. N : Flip(n) \in In /\ Flip(Flip(n)) = n
    OBVIOUS
  <2>3. 1 \in 1 .. N /\ In \subseteq Nat
    BY <1>2
  <2> HIDE DEF In, Flip
  <2>4. B \in [Nat -> S]
    BY <2>1, <2>3
  <2>5. D \in [Nat -> Nat]
    BY <2>1, <2>2, <2>3
  <2>6. H \in [Nat \X S -> S]
    <3> SUFFICES ASSUME NEW n \in In, NEW s \in S PROVE h[<<Flip(n), s>>] \in S
      BY <2>3
    <3> QED
      BY <2>1
  <2>7. \A n \in Nat : n \notin G => D[n] < n
    <3> SUFFICES ASSUME NEW n \in In, Flip(n) \notin given PROVE Flip(d[Flip(n)]) < n
      OBVIOUS
    <3>1. Flip(n) < d[Flip(n)] /\ d[Flip(n)] \in 1 .. N
      BY <2>1
    <3>2. n \in Nat
      BY <2>3
    <3> QED
      BY <3>1, <3>2 DEF Flip
  <2> DEFINE Down == Recursions(S, G, B, D, H)
  <2>8. Down # {}
    <3> HIDE DEF B, D, H, G
    <3> QED
      BY <2>4, <2>5, <2>6, <2>7, RecursionBelow
  <2>9. PICK g \in Down : TRUE
    <3> HIDE DEF Down
    <3> QED
      BY <2>8
  <2>10. /\ g \in [Nat -> S]
         /\ \A n \in Nat : g[n] = IF n \in G THEN B[n] ELSE H[<<n, g[D[n]]>>]
    <3> HIDE DEF B, D, H, G
    <3> QED
      BY <2>9 DEF Recursions
  <2> DEFINE f == [n \in 1 .. N |-> g[Flip(n)]]
  <2>11. f \in [1 .. N -> S]
    BY <2>2, <2>3, <2>10
  <2>12. ASSUME NEW n \in 1 .. N
         PROVE  f[n] = IF n \in given THEN b[n] ELSE h[<<n, f[d[n]]>>]
    <3>1. Flip(n) \in In /\ Flip(n) \in Nat /\ Flip(Flip(n)) = n
      BY <2>2, <2>3
    <3>2. d[n] \in 1 .. N /\ d[Flip(Flip(n))] = d[n]
      BY <3>1
    <3>3. f[n] = g[Flip(n)] /\ f[d[n]] = g[Flip(d[n])]
      BY <3>2
    <3>4. CASE n \in given
      <4>1. Flip(n) \in G /\ B[Flip(n)] = b[n]
        BY <3>1, <3>4
      <4>2. g[Flip(n)] = B[Flip(n)]
        BY <2>10, <3>1, <4>1
      <4> QED
        BY <3>3, <3>4, <4>1, <4>2
    <3>5. CASE n \notin given
      <4>1. Flip(n) \notin G /\ D[Flip(n)] = Flip(d[n])
        BY <3>1, <3>2, <3>5
      <4>2. g[Flip(n)] = H[<<Flip(n), g[Flip(d[n])]>>]
        BY <2>10, <3>1, <4>1
      <4>3. g[Flip(d[n])] \in S
        BY <2>2, <2>3, <2>10, <3>2
      <4>4. H[<<Flip(n), g[Flip(d[n])]>>] = h[<<n, g[Flip(d[n])]>>]
        BY <3>1, <4>3
      <4> QED
        BY <3>3, <3>5, <4>2, <4>4
    <3> QED
      BY <3>4, <3>5
  <2>13. f \in UpwardRecursions(S, N, given, b, d, h)
    <3> HIDE DEF f
    <3> QED
      BY <2>11, <2>12 DEF UpwardRecursions
  <2> QED
    BY <2>13
<1> QED
  BY <1>1, <1>2

-----------------------------------------------------------------------------
(* Parts of a sequence.                                                    *)

LEMMA SubSeqFacts ==
    ASSUME NEW S, NEW s \in Seq(S), NEW m \in 1 .. Len(s) + 1, NEW n \in m - 1 .. Len(s)
    PROVE  /\ SubSeq(s, m, n) \in Seq(S)
           /\ Len(SubSeq(s, m, n)) = n - m + 1
           /\ \A k \in 1 .. n - m + 1 : SubSeq(s, m, n)[k] = s[m + k - 1]
<1>1. Len(s) \in Nat /\ m \in Int /\ n \in Int
  BY LenProperties
<1>2. \A k \in m .. n : k \in 1 .. Len(s)
  BY <1>1
<1>3. \A k \in m .. n : s[k] \in S
  BY <1>2, ElementOfSeq
<1>4. /\ SubSeq(s, m, n) \in Seq(S)
      /\ Len(SubSeq(s, m, n)) = IF m <= n THEN n - m + 1 ELSE 0
      /\ \A k \in 1 .. n - m + 1 : SubSeq(s, m, n)[k] = s[m + k - 1]
  BY <1>1, <1>3, SubSeqProperties
<1>5. (IF m <= n THEN n - m + 1 ELSE 0) = n - m + 1
  BY <1>1
<1> QED
  BY <1>4, <1>5

LEMMA SubSeqSplit ==
    ASSUME NEW S, NEW s \in Seq(S), NEW m \in 1 .. Len(s) + 1,
           NEW n \in m - 1 .. Len(s), NEW k \in m - 1 .. n
    PROVE  SubSeq(s, m, n) = SubSeq(s, m, k) \o SubSeq(s, k + 1, n)
<1>1. Len(s) \in Nat
  BY LenProperties
<1>2. k + 1 \in 1 .. Len(s) + 1 /\ n \in (k + 1) - 1 .. Len(s) /\ k \in m - 1 .. Len(s)
  BY <1>1
<1> DEFINE a == SubSeq(s, m, k)
           b == SubSeq(s, k + 1, n)
           c == SubSeq(s, m, n)
<1>3. /\ c \in Seq(S) /\ Len(c) = n - m + 1
      /\ \A i \in 1 .. n - m + 1 : c[i] = s[m + i - 1]
  BY SubSeqFacts
<1>4. /\ a \in Seq(S) /\ Len(a) = k - m + 1
      /\ \A i \in 1 .. k - m + 1 : a[i] = s[m + i - 1]
  BY <1>2, SubSeqFacts
<1>5. /\ b \in Seq(S) /\ Len(b) = n - (k + 1) + 1
      /\ \A i \in 1 .. n - (k + 1) + 1 : b[i] = s[(k + 1) + i - 1]
  BY <1>2, SubSeqFacts
<1> HIDE DEF a, b, c
<1>6. /\ a \o b \in Seq(S) /\ Len(a \o b) = Len(a) + Len(b)
      /\ \A i \in 1 .. Len(a) + Len(b) :
           (a \o b)[i] = IF i <= Len(a) THEN a[i] ELSE b[i - Len(a)]
  BY <1>4, <1>5, ConcatProperties
<1>7. Len(a \o b) = Len(c)
  BY <1>1, <1>3, <1>4, <1>5, <1>6
<1>8. ASSUME NEW i \in 1 .. Len(c) PROVE (a \o b)[i] = c[i]
  <2>1. c[i] = s[m + i - 1] /\ i \in 1 .. Len(a) + Len(b)
    BY <1>3, <1>6, <1>7
  <2>2. CASE i <= Len(a)
    <3>1. i \in 1 .. k - m + 1
      BY <1>1, <1>3, <1>4, <2>2
    <3> QED
      BY <1>4, <1>6, <2>1, <2>2, <3>1
  <2>3. CASE ~(i <= Len(a))
    <3>1. i - Len(a) \in 1 .. n - (k + 1) + 1 /\ (k + 1) + (i - Len(a)) - 1 = m + i - 1
      BY <1>1, <1>3, <1>4, <2>3
    <3>2. b[i - Len(a)] = s[(k + 1) + (i - Len(a)) - 1]
      BY <1>5, <3>1
    <3> QED
      BY <1>6, <2>1, <2>3, <3>1, <3>2
  <2> QED
    BY <2>2, <2>3
<1>9. a \o b = c
  BY <1>3, <1>6, <1>7, <1>8, SeqEqual
<1> QED
  BY <1>9 DEF a, b, c

LEMMA PrefixOfConcat ==
    ASSUME NEW S, NEW a \in Seq(S), NEW b \in Seq(S)
    PROVE  /\ \A i \in 1 .. Len(a) : SubSeq(a \o b, 1, i) = SubSeq(a, 1, i)
           /\ \A i \in 1 .. Len(b) :
                SubSeq(a \o b, 1, Len(a) + i) = a \o SubSeq(b, 1, i)
<1> DEFINE c == a \o b
<1>1. /\ c \in Seq(S) /\ Len(c) = Len(a) + Len(b) /\ Len(a) \in Nat /\ Len(b) \in Nat
      /\ \A i \in 1 .. Len(a) + Len(b) :
           c[i] = IF i <= Len(a) THEN a[i] ELSE b[i - Len(a)]
  BY ConcatProperties, LenProperties
<1> HIDE DEF c
<1>2. ASSUME NEW i \in 1 .. Len(a) PROVE SubSeq(c, 1, i) = SubSeq(a, 1, i)
  <2>1. /\ SubSeq(c, 1, i) \in Seq(S) /\ Len(SubSeq(c, 1, i)) = i - 1 + 1
        /\ \A k \in 1 .. i - 1 + 1 : SubSeq(c, 1, i)[k] = c[1 + k - 1]
    BY <1>1, SubSeqFacts
  <2>2. /\ SubSeq(a, 1, i) \in Seq(S) /\ Len(SubSeq(a, 1, i)) = i - 1 + 1
        /\ \A k \in 1 .. i - 1 + 1 : SubSeq(a, 1, i)[k] = a[1 + k - 1]
    BY <1>1, SubSeqFacts
  <2>3. \A k \in 1 .. i - 1 + 1 : c[1 + k - 1] = a[1 + k - 1]
    BY <1>1
  <2> QED
    BY <2>1, <2>2, <2>3, SeqEqual
<1>3. ASSUME NEW i \in 1 .. Len(b) PROVE SubSeq(c, 1, Len(a) + i) = a \o SubSeq(b, 1, i)
  <2>0. /\ 1 \in 1 .. Len(c) + 1 /\ Len(a) + i \in 1 - 1 .. Len(c)
        /\ (Len(a) + i) - 1 + 1 = Len(a) + i
        /\ 1 \in 1 .. Len(b) + 1 /\ i \in 1 - 1 .. Len(b) /\ i - 1 + 1 = i
    BY <1>1
  <2> DEFINE p == SubSeq(c, 1, Len(a) + i)
             q == SubSeq(b, 1, i)
  <2>1. /\ p \in Seq(S) /\ Len(p) = Len(a) + i
        /\ \A k \in 1 .. Len(a) + i : p[k] = c[1 + k - 1]
    BY <1>1, <2>0, SubSeqFacts
  <2>2. /\ q \in Seq(S) /\ Len(q) = i
        /\ \A k \in 1 .. i : q[k] = b[1 + k - 1]
    BY <1>1, <2>0, SubSeqFacts
  <2> HIDE DEF p, q
  <2>3. /\ a \o q \in Seq(S) /\ Len(a \o q) = Len(a) + Len(q)
        /\ \A k \in 1 .. Len(a) + Len(q) :
             (a \o q)[k] = IF k <= Len(a) THEN a[k] ELSE q[k - Len(a)]
    BY <2>2, ConcatProperties
  <2>4. ASSUME NEW k \in 1 .. Len(a) + i PROVE p[k] = (a \o q)[k]
    <3>1. p[k] = c[k] /\ k \in 1 .. Len(a) + Len(b)
      BY <1>1, <2>1
    <3>2. CASE k <= Len(a)
      BY <1>1, <2>2, <2>3, <3>1, <3>2
    <3>3. CASE ~(k <= Len(a))
      <4>1. k - Len(a) \in 1 .. i /\ 1 + (k - Len(a)) - 1 = k - Len(a)
        BY <1>1, <3>3
      <4>2. q[k - Len(a)] = b[k - Len(a)]
        BY <2>2, <4>1
      <4> QED
        BY <1>1, <2>2, <2>3, <3>1, <3>3, <4>2
    <3> QED
      BY <3>2, <3>3
  <2>5. p = a \o q
    BY <2>1, <2>2, <2>3, <2>4, SeqEqual
  <2> QED
    BY <2>5 DEF p, q
<1> QED
  BY <1>2, <1>3 DEF c

-----------------------------------------------------------------------------
(* FlattenSeq: the concatenation of a sequence of sequences.               *)

\* Its recursive function, as the equations it satisfies.
LEMMA FlattenRecursion ==
    ASSUME NEW S, NEW seqs \in Seq(Seq(S))
    PROVE  \E f \in [0 .. Len(seqs) -> Seq(S)] :
             /\ f[0] = <<>>
             /\ \A n \in 1 .. Len(seqs) : f[n] = f[n - 1] \o seqs[n]
             /\ FlattenSeq(seqs) = f[Len(seqs)]
<1> DEFINE len == Len(seqs)
           step == [p \in Nat \X Seq(S) |->
                      IF p[1] + 1 \in 1 .. len THEN p[2] \o seqs[p[1] + 1] ELSE p[2]]
           Flat(s) == [i \in 1 .. len |->
                         IF i = 1 THEN seqs[i] ELSE s[i - 1] \o seqs[i]]
           chosen == CHOOSE s : s = Flat(s)
<1>1. len \in Nat /\ \A n \in 1 .. len : seqs[n] \in Seq(S)
  BY LenProperties, ElementOfSeq
<1>2. <<>> \in Seq(S)
  BY EmptySeq
<1>3. step \in [Nat \X Seq(S) -> Seq(S)]
  <2> SUFFICES ASSUME NEW n \in Nat, NEW s \in Seq(S), n + 1 \in 1 .. len
               PROVE  s \o seqs[n + 1] \in Seq(S)
    OBVIOUS
  <2> QED
    BY <1>1, ConcatProperties
<1>4. PICK g \in [Nat -> Seq(S)] :
        g[0] = <<>> /\ \A n \in Nat : g[n + 1] = step[<<n, g[n]>>]
  <2> HIDE DEF step
  <2>1. Iterations(Seq(S), <<>>, step) # {}
    BY <1>2, <1>3, RecursionOnNat
  <2> QED
    BY <2>1 DEF Iterations
<1>5. ASSUME NEW n \in 1 .. len PROVE g[n] = g[n - 1] \o seqs[n]
  <2>1. n - 1 \in Nat /\ (n - 1) + 1 = n
    BY <1>1
  <2>2. g[n] = step[<<n - 1, g[n - 1]>>] /\ g[n - 1] \in Seq(S)
    BY <1>4, <2>1
  <2> QED
    BY <2>1, <2>2
<1> HIDE DEF step
<1> DEFINE part == [i \in 1 .. len |-> g[i]]
           f == [n \in 0 .. len |-> g[n]]
<1>6. f \in [0 .. len -> Seq(S)] /\ f[0] = <<>> /\ f[len] = g[len]
  BY <1>1, <1>4
<1>7. \A n \in 1 .. len : f[n] = f[n - 1] \o seqs[n]
  <2> SUFFICES ASSUME NEW n \in 1 .. len PROVE f[n] = f[n - 1] \o seqs[n]
    OBVIOUS
  <2>1. n \in 0 .. len /\ n - 1 \in 0 .. len
    BY <1>1
  <2> QED
    BY <1>5, <2>1
<1>8. CASE len = 0
  <2>1. FlattenSeq(seqs) = seqs /\ seqs = <<>>
    BY <1>8, EmptySeq DEF FlattenSeq
  <2> QED
    BY <1>6, <1>7, <1>8, <2>1
<1>9. CASE len # 0
  <2>1. FlattenSeq(seqs) = chosen[len]
    BY <1>9 DEF FlattenSeq
  <2>2. part = Flat(part)
    <3> SUFFICES ASSUME NEW i \in 1 .. len
                 PROVE  g[i] = IF i = 1 THEN seqs[i] ELSE part[i - 1] \o seqs[i]
      OBVIOUS
    <3>1. CASE i = 1
      <4>1. g[1] = g[0] \o seqs[1] /\ seqs[1] \in Seq(S) /\ g[0] = <<>>
        BY <1>1, <1>4, <1>5, <3>1, 1 - 1 = 0
      <4>2. <<>> \o seqs[1] = seqs[1]
        BY <4>1, ConcatEmptySeq
      <4> QED
        BY <3>1, <4>1, <4>2
    <3>2. CASE i # 1
      <4>1. i - 1 \in 1 .. len
        BY <1>1, <3>2
      <4> QED
        BY <1>5, <3>2, <4>1
    <3> QED
      BY <3>1, <3>2
  <2>3. chosen = Flat(chosen)
    BY <2>2
  <2> HIDE DEF chosen
  <2> DEFINE Same == {n \in Nat : n + 1 <= len => chosen[n + 1] = g[n + 1]}
  <2>4. 0 \in Same
    <3>0. 1 \in 1 .. len /\ 1 - 1 = 0 /\ 0 + 1 = 1
      <4>1. len \in Nat
        BY <1>1
      <4> HIDE DEF len
      <4> QED
        BY <1>9, <4>1
    <3>1. 1 \in 1 .. len /\ g[1] = g[0] \o seqs[1] /\ 0 + 1 = 1
      BY <1>5, <3>0
    <3>2. g[1] = seqs[1]
      BY <1>1, <1>4, <3>1, ConcatEmptySeq
    <3>3. chosen[1] = seqs[1]
      BY <2>3, <3>1
    <3> QED
      BY <3>1, <3>2, <3>3
  <2>5. ASSUME NEW n \in Nat, n \in Same PROVE n + 1 \in Same
    <3>0. n + 1 \in Nat
      OBVIOUS
    <3>1. CASE (n + 1) + 1 <= len
      <4>1. /\ (n + 1) + 1 \in 1 .. len /\ (n + 1) + 1 # 1
            /\ ((n + 1) + 1) - 1 = n + 1 /\ n + 1 <= len
        <5>1. len \in Nat
          BY <1>1
        <5> HIDE DEF len
        <5> QED
          BY <3>1, <5>1
      <4>2. chosen[(n + 1) + 1] = chosen[n + 1] \o seqs[(n + 1) + 1]
        BY <2>3, <4>1
      <4>3. g[(n + 1) + 1] = g[n + 1] \o seqs[(n + 1) + 1]
        BY <1>5, <4>1
      <4>4. chosen[n + 1] = g[n + 1]
        BY <2>5, <4>1
      <4>5. chosen[(n + 1) + 1] = g[(n + 1) + 1]
        BY <4>2, <4>3, <4>4, Zenon
      <4> QED
        BY <3>0, <4>5, Zenon
    <3>2. CASE ~((n + 1) + 1 <= len)
      BY <3>0, <3>2, Zenon
    <3> QED
      BY <3>1, <3>2
  <2> HIDE DEF Same
  <2>6. \A n \in Nat : n \in Same
    BY <2>4, <2>5, NatSetInduction
  <2>7. PICK k \in Nat : k + 1 = len
    <3>1. len - 1 \in Nat /\ (len - 1) + 1 = len
      BY <1>1, <1>9
    <3> QED
      BY <3>1
  <2>8. chosen[len] = g[len]
    <3>1. k + 1 <= len
      BY <1>1, <2>7
    <3>2. chosen[k + 1] = g[k + 1]
      BY <2>6, <3>1 DEF Same
    <3> QED
      BY <2>7, <3>2, Zenon
  <2> QED
    BY <1>6, <1>7, <2>1, <2>8
<1> QED
  BY <1>8, <1>9

LEMMA FlattenInSeq ==
    ASSUME NEW S, NEW seqs \in Seq(Seq(S))
    PROVE  FlattenSeq(seqs) \in Seq(S)
<1>1. Len(seqs) \in 0 .. Len(seqs)
  BY LenProperties
<1>2. PICK f \in [0 .. Len(seqs) -> Seq(S)] : FlattenSeq(seqs) = f[Len(seqs)]
  BY FlattenRecursion
<1> QED
  BY <1>1, <1>2

LEMMA FlattenOne ==
    ASSUME NEW S, NEW s \in Seq(S)
    PROVE  FlattenSeq(<<s>>) = s
<1>1. <<s>> \in Seq(Seq(S)) /\ Len(<<s>>) = 1 /\ <<s>>[1] = s
  OBVIOUS
<1>2. PICK f \in [0 .. 1 -> Seq(S)] :
        /\ f[0] = <<>>
        /\ \A n \in 1 .. 1 : f[n] = f[n - 1] \o <<s>>[n]
        /\ FlattenSeq(<<s>>) = f[1]
  BY <1>1, FlattenRecursion
<1>3. f[1] = f[0] \o s
  BY <1>1, <1>2, 1 - 1 = 0, 1 \in 1 .. 1
<1> QED
  BY <1>2, <1>3, ConcatEmptySeq

LEMMA FlattenConcat ==
    ASSUME NEW S, NEW s \in Seq(Seq(S)), NEW t \in Seq(Seq(S))
    PROVE  FlattenSeq(s \o t) = FlattenSeq(s) \o FlattenSeq(t)
<1> DEFINE st == s \o t
<1>1. /\ st \in Seq(Seq(S)) /\ Len(st) = Len(s) + Len(t)
      /\ \A i \in 1 .. Len(s) + Len(t) :
           st[i] = IF i <= Len(s) THEN s[i] ELSE t[i - Len(s)]
      /\ Len(s) \in Nat /\ Len(t) \in Nat
      /\ \A i \in 1 .. Len(t) : t[i] \in Seq(S)
  BY ConcatProperties, LenProperties, ElementOfSeq
<1> HIDE DEF st
<1>2. PICK f \in [0 .. Len(s) -> Seq(S)] :
        /\ f[0] = <<>>
        /\ \A n \in 1 .. Len(s) : f[n] = f[n - 1] \o s[n]
        /\ FlattenSeq(s) = f[Len(s)]
  BY FlattenRecursion
<1>3. PICK g \in [0 .. Len(t) -> Seq(S)] :
        /\ g[0] = <<>>
        /\ \A n \in 1 .. Len(t) : g[n] = g[n - 1] \o t[n]
        /\ FlattenSeq(t) = g[Len(t)]
  BY FlattenRecursion
<1>4. PICK h \in [0 .. Len(st) -> Seq(S)] :
        /\ h[0] = <<>>
        /\ \A n \in 1 .. Len(st) : h[n] = h[n - 1] \o st[n]
        /\ FlattenSeq(st) = h[Len(st)]
  BY <1>1, FlattenRecursion
<1> DEFINE First == {n \in Nat : n <= Len(s) => h[n] = f[n]}
<1>5. 0 \in First
  BY <1>2, <1>4
<1>6. ASSUME NEW n \in Nat, n \in First PROVE n + 1 \in First
  <2>1. CASE n + 1 <= Len(s)
    <3>1. /\ n + 1 \in 1 .. Len(s) /\ n + 1 \in 1 .. Len(st)
          /\ n + 1 \in 1 .. Len(s) + Len(t)
          /\ (n + 1) - 1 = n /\ n <= Len(s)
      BY <1>1, <2>1
    <3>2. h[n + 1] = h[n] \o st[n + 1] /\ f[n + 1] = f[n] \o s[n + 1]
      BY <1>2, <1>4, <3>1
    <3>3. st[n + 1] = s[n + 1]
      BY <1>1, <2>1, <3>1
    <3>4. h[n] = f[n]
      BY <1>6, <3>1
    <3>5. h[n + 1] = f[n + 1] /\ n + 1 \in Nat
      BY <3>2, <3>3, <3>4
    <3> QED
      BY <3>5, Zenon
  <2>2. CASE ~(n + 1 <= Len(s))
    BY <2>2
  <2> QED
    BY <2>1, <2>2
<1> HIDE DEF First
<1>7. Len(s) \in First
  BY <1>1, <1>5, <1>6, NatSetInduction
<1>8. h[Len(s)] = f[Len(s)] /\ f[Len(s)] \in Seq(S)
  BY <1>1, <1>7 DEF First
<1> DEFINE Second == {n \in Nat : n <= Len(t) => h[Len(s) + n] = f[Len(s)] \o g[n]}
<1>9. 0 \in Second
  BY <1>1, <1>3, <1>8, ConcatEmptySeq
<1>10. ASSUME NEW n \in Nat, n \in Second PROVE n + 1 \in Second
  <2>0. n + 1 \in Nat
    OBVIOUS
  <2>1. CASE n + 1 <= Len(t)
    <3>1. /\ n + 1 \in 1 .. Len(t) /\ Len(s) + (n + 1) \in 1 .. Len(st)
          /\ Len(s) + (n + 1) \in 1 .. Len(s) + Len(t)
          /\ ~(Len(s) + (n + 1) <= Len(s))
          /\ (Len(s) + (n + 1)) - Len(s) = n + 1
          /\ (Len(s) + (n + 1)) - 1 = Len(s) + n
          /\ (n + 1) - 1 = n /\ n <= Len(t) /\ n \in 0 .. Len(t)
      BY <1>1, <2>1
    <3>2. h[Len(s) + (n + 1)] = h[Len(s) + n] \o st[Len(s) + (n + 1)]
      BY <1>4, <3>1
    <3>3. g[n + 1] = g[n] \o t[n + 1] /\ g[n] \in Seq(S)
      BY <1>3, <3>1
    <3>4. st[Len(s) + (n + 1)] = t[n + 1] /\ t[n + 1] \in Seq(S)
      BY <1>1, <3>1
    <3>5. h[Len(s) + n] = f[Len(s)] \o g[n]
      BY <1>10, <3>1
    <3>6. (f[Len(s)] \o g[n]) \o t[n + 1] = f[Len(s)] \o (g[n] \o t[n + 1])
      <4>1. \A u, v, w \in Seq(S) : (u \o v) \o w = u \o (v \o w)
        BY ConcatAssociative
      <4>2. f[Len(s)] \in Seq(S) /\ g[n] \in Seq(S) /\ t[n + 1] \in Seq(S)
        BY <1>8, <3>3, <3>4
      <4> QED
        BY <4>1, <4>2, Zenon
    <3>7. h[Len(s) + (n + 1)] = f[Len(s)] \o g[n + 1]
      BY <3>2, <3>3, <3>4, <3>5, <3>6, Zenon
    <3> QED
      BY <2>0, <3>7, Zenon
  <2>2. CASE ~(n + 1 <= Len(t))
    BY <2>0, <2>2, Zenon
  <2> QED
    BY <2>1, <2>2
<1> HIDE DEF Second
<1>11. Len(t) \in Second
  BY <1>1, <1>9, <1>10, NatSetInduction
<1>12. h[Len(st)] = f[Len(s)] \o g[Len(t)]
  BY <1>1, <1>11 DEF Second
<1> QED
  BY <1>2, <1>3, <1>4, <1>12 DEF st

-----------------------------------------------------------------------------
(* Sequences that are made from another one element by element.  d says    *)
(* what becomes of an element.                                             *)

FlatMap(s, d) == FlattenSeq([n \in 1 .. Len(s) |-> d[s[n]]])

LEMMA FlatMapParts ==
    ASSUME NEW S, NEW T, NEW d \in [S -> Seq(T)], NEW s \in Seq(S)
    PROVE  /\ [n \in 1 .. Len(s) |-> d[s[n]]] \in Seq(Seq(T))
           /\ Len([n \in 1 .. Len(s) |-> d[s[n]]]) = Len(s)
<1> DEFINE parts == [n \in 1 .. Len(s) |-> d[s[n]]]
<1>1. Len(s) \in Nat /\ \A n \in 1 .. Len(s) : s[n] \in S
  BY LenProperties, ElementOfSeq
<1>2. parts \in [1 .. Len(s) -> Seq(T)]
  BY <1>1
<1> HIDE DEF parts
<1>3. parts \in Seq(Seq(T))
  <2>1. Seq(Seq(T)) = UNION {[1 .. n -> Seq(T)] : n \in Nat}
    BY SeqDef
  <2> QED
    BY <1>1, <1>2, <2>1
<1>4. DOMAIN parts = 1 .. Len(s) /\ DOMAIN parts = 1 .. Len(parts) /\ Len(parts) \in Nat
  BY <1>2, <1>3, LenProperties
<1>5. Len(parts) = Len(s)
  BY <1>1, <1>4
<1> QED
  BY <1>3, <1>5 DEF parts

LEMMA FlatMapType ==
    ASSUME NEW S, NEW T, NEW d \in [S -> Seq(T)], NEW s \in Seq(S)
    PROVE  FlatMap(s, d) \in Seq(T)
<1> DEFINE parts == [n \in 1 .. Len(s) |-> d[s[n]]]
<1>1. parts \in Seq(Seq(T))
  BY FlatMapParts
<1> HIDE DEF parts
<1>2. FlattenSeq(parts) \in Seq(T)
  BY <1>1, FlattenInSeq
<1> QED
  BY <1>2 DEF FlatMap, parts

LEMMA FlatMapEmpty ==
    ASSUME NEW S, NEW T, NEW d \in [S -> Seq(T)]
    PROVE  FlatMap(<<>>, d) = <<>>
<1> DEFINE parts == [n \in 1 .. Len(<<>>) |-> d[<<>>[n]]]
<1>1. <<>> \in Seq(S) /\ Len(<<>>) = 0
  BY EmptySeq
<1>2. parts \in Seq(Seq(T)) /\ Len(parts) = 0
  BY <1>1, FlatMapParts
<1>3. parts = <<>>
  BY <1>2, EmptySeq
<1>4. FlattenSeq(parts) = parts
  BY <1>2 DEF FlattenSeq
<1> QED
  BY <1>3, <1>4 DEF FlatMap

LEMMA FlatMapConcat ==
    ASSUME NEW S, NEW T, NEW d \in [S -> Seq(T)], NEW s \in Seq(S), NEW t \in Seq(S)
    PROVE  FlatMap(s \o t, d) = FlatMap(s, d) \o FlatMap(t, d)
<1> DEFINE Parts(u) == [n \in 1 .. Len(u) |-> d[u[n]]]
           st == s \o t
<1>1. /\ st \in Seq(S) /\ Len(st) = Len(s) + Len(t)
      /\ \A i \in 1 .. Len(s) + Len(t) :
           st[i] = IF i <= Len(s) THEN s[i] ELSE t[i - Len(s)]
      /\ Len(s) \in Nat /\ Len(t) \in Nat
  BY ConcatProperties, LenProperties
<1> HIDE DEF st
<1>2. \A u \in Seq(S) : Parts(u) \in Seq(Seq(T)) /\ Len(Parts(u)) = Len(u)
  BY FlatMapParts
<1>3. \A u \in Seq(S) : \A n \in 1 .. Len(u) : Parts(u)[n] = d[u[n]]
  OBVIOUS
<1> HIDE DEF Parts
<1>4. Parts(st) = Parts(s) \o Parts(t)
  <2> DEFINE both == Parts(s) \o Parts(t)
  <2>1. /\ both \in Seq(Seq(T)) /\ Len(both) = Len(s) + Len(t)
        /\ \A i \in 1 .. Len(s) + Len(t) :
             both[i] = IF i <= Len(s) THEN Parts(s)[i] ELSE Parts(t)[i - Len(s)]
    <3>1. /\ Parts(s) \in Seq(Seq(T)) /\ Len(Parts(s)) = Len(s)
          /\ Parts(t) \in Seq(Seq(T)) /\ Len(Parts(t)) = Len(t)
      BY <1>2
    <3>2. /\ both \in Seq(Seq(T)) /\ Len(both) = Len(Parts(s)) + Len(Parts(t))
          /\ \A i \in 1 .. Len(Parts(s)) + Len(Parts(t)) :
               both[i] = IF i <= Len(Parts(s)) THEN Parts(s)[i]
                         ELSE Parts(t)[i - Len(Parts(s))]
      BY <3>1, ConcatProperties
    <3> QED
      BY <3>1, <3>2
  <2> HIDE DEF both
  <2>2. Parts(st) \in Seq(Seq(T)) /\ Len(Parts(st)) = Len(s) + Len(t)
    BY <1>1, <1>2
  <2>3. ASSUME NEW i \in 1 .. Len(s) + Len(t) PROVE Parts(st)[i] = both[i]
    <3>1. Parts(st)[i] = d[st[i]]
      BY <1>1, <1>3
    <3>2. CASE i <= Len(s)
      <4>1. i \in 1 .. Len(s)
        BY <1>1, <3>2
      <4> QED
        BY <1>1, <1>3, <2>1, <3>1, <3>2, <4>1
    <3>3. CASE ~(i <= Len(s))
      <4>1. i - Len(s) \in 1 .. Len(t)
        BY <1>1, <3>3
      <4> QED
        BY <1>1, <1>3, <2>1, <3>1, <3>3, <4>1
    <3> QED
      BY <3>2, <3>3
  <2>4. Parts(st) = both
    BY <2>1, <2>2, <2>3, SeqEqual
  <2> QED
    BY <2>4 DEF both
<1>5. FlattenSeq(Parts(s) \o Parts(t)) = FlattenSeq(Parts(s)) \o FlattenSeq(Parts(t))
  BY <1>2, FlattenConcat
<1>6. FlattenSeq(Parts(st)) = FlattenSeq(Parts(s)) \o FlattenSeq(Parts(t))
  BY <1>4, <1>5
<1> QED
  BY <1>6 DEF FlatMap, Parts, st

LEMMA FlatMapOne ==
    ASSUME NEW S, NEW T, NEW d \in [S -> Seq(T)], NEW e \in S
    PROVE  FlatMap(<<e>>, d) = d[e]
<1> DEFINE parts == [n \in 1 .. Len(<<e>>) |-> d[<<e>>[n]]]
<1>1. <<e>> \in Seq(S) /\ Len(<<e>>) = 1 /\ <<e>>[1] = e /\ d[e] \in Seq(T)
  OBVIOUS
<1>2. parts \in Seq(Seq(T)) /\ Len(parts) = 1
  BY <1>1, FlatMapParts
<1>3. parts[1] = d[e]
  BY <1>1
<1>4. parts = <<d[e]>>
  <2>1. <<d[e]>> \in Seq(Seq(T)) /\ Len(<<d[e]>>) = 1 /\ <<d[e]>>[1] = d[e]
    BY <1>1
  <2> HIDE DEF parts
  <2> QED
    BY <1>2, <1>3, <2>1, SeqEqual
<1>5. FlattenSeq(parts) = d[e]
  BY <1>1, <1>4, FlattenOne
<1> QED
  BY <1>5 DEF FlatMap

LEMMA FlatMapAppend ==
    ASSUME NEW S, NEW T, NEW d \in [S -> Seq(T)], NEW s \in Seq(S), NEW e \in S
    PROVE  FlatMap(Append(s, e), d) = FlatMap(s, d) \o d[e]
<1>1. Append(s, e) = s \o <<e>> /\ <<e>> \in Seq(S)
  BY AppendIsConcat
<1>2. FlatMap(s \o <<e>>, d) = FlatMap(s, d) \o FlatMap(<<e>>, d)
  BY <1>1, FlatMapConcat
<1> QED
  BY <1>1, <1>2, FlatMapOne

LEMMA FlatMapFacts ==
    ASSUME NEW S, NEW T, NEW d \in [S -> Seq(T)]
    PROVE  /\ FlatMap(<<>>, d) = <<>>
           /\ \A e \in S : FlatMap(<<e>>, d) = d[e]
           /\ \A s \in Seq(S) : FlatMap(s, d) \in Seq(T)
           /\ \A s, t \in Seq(S) : FlatMap(s \o t, d) = FlatMap(s, d) \o FlatMap(t, d)
<1>1. FlatMap(<<>>, d) = <<>>
  BY FlatMapEmpty
<1>2. ASSUME NEW e \in S PROVE FlatMap(<<e>>, d) = d[e]
  BY FlatMapOne
<1>3. ASSUME NEW s \in Seq(S) PROVE FlatMap(s, d) \in Seq(T)
  BY FlatMapType
<1>4. ASSUME NEW s \in Seq(S), NEW t \in Seq(S)
      PROVE  FlatMap(s \o t, d) = FlatMap(s, d) \o FlatMap(t, d)
  BY FlatMapConcat
<1> QED
  BY <1>1, <1>2, <1>3, <1>4

Keeping(S, set) == [e \in S |-> IF e \in set THEN <<e>> ELSE <<>>]
Dropping(S, set) == [e \in S |-> IF e \in set THEN <<>> ELSE <<e>>]

LEMMA KeepingDropping ==
    ASSUME NEW S, NEW set
    PROVE  Keeping(S, set) \in [S -> Seq(S)] /\ Dropping(S, set) \in [S -> Seq(S)]
<1>1. \A e \in S : <<e>> \in Seq(S) /\ <<>> \in Seq(S)
  BY EmptySeq
<1> QED
  BY <1>1 DEF Keeping, Dropping

LEMMA AmongIsFlatMap ==
    ASSUME NEW S, NEW set, NEW s \in Seq(S)
    PROVE  /\ Among(s, set) = FlatMap(s, Keeping(S, set))
           /\ NotAmong(s, set) = FlatMap(s, Dropping(S, set))
<1>1. DOMAIN s = 1 .. Len(s) /\ \A n \in 1 .. Len(s) : s[n] \in S
  BY LenProperties, ElementOfSeq
<1>2. [n \in DOMAIN s |-> IF s[n] \in set THEN <<s[n]>> ELSE <<>>]
        = [n \in 1 .. Len(s) |-> Keeping(S, set)[s[n]]]
  BY <1>1 DEF Keeping
<1>3. [n \in DOMAIN s |-> IF s[n] \in set THEN <<>> ELSE <<s[n]>>]
        = [n \in 1 .. Len(s) |-> Dropping(S, set)[s[n]]]
  BY <1>1 DEF Dropping
<1> QED
  BY <1>2, <1>3 DEF Among, NotAmong, FlatMap

LEMMA AmongFacts ==
    ASSUME NEW S, NEW set
    PROVE  /\ Among(<<>>, set) = <<>>
           /\ \A e \in S : Among(<<e>>, set) = IF e \in set THEN <<e>> ELSE <<>>
           /\ \A s \in Seq(S) : Among(s, set) \in Seq(S)
           /\ \A s, t \in Seq(S) :
                Among(s \o t, set) = Among(s, set) \o Among(t, set)
<1> DEFINE d == Keeping(S, set)
<1>1. \A s \in Seq(S) : Among(s, set) = FlatMap(s, d)
  BY AmongIsFlatMap
<1>2. d \in [S -> Seq(S)]
  BY KeepingDropping
<1>3. \A e \in S : d[e] = IF e \in set THEN <<e>> ELSE <<>>
  BY DEF Keeping
<1> HIDE DEF d
<1>4. /\ FlatMap(<<>>, d) = <<>>
      /\ \A e \in S : FlatMap(<<e>>, d) = d[e]
      /\ \A s \in Seq(S) : FlatMap(s, d) \in Seq(S)
      /\ \A s, t \in Seq(S) : FlatMap(s \o t, d) = FlatMap(s, d) \o FlatMap(t, d)
  BY <1>2, FlatMapFacts
<1>5. <<>> \in Seq(S) /\ \A e \in S : <<e>> \in Seq(S)
  BY EmptySeq
<1>6. \A s, t \in Seq(S) : s \o t \in Seq(S)
  BY ConcatProperties
<1> QED
  BY <1>1, <1>3, <1>4, <1>5, <1>6

LEMMA NotAmongFacts ==
    ASSUME NEW S, NEW set
    PROVE  /\ NotAmong(<<>>, set) = <<>>
           /\ \A e \in S : NotAmong(<<e>>, set) = IF e \in set THEN <<>> ELSE <<e>>
           /\ \A s \in Seq(S) : NotAmong(s, set) \in Seq(S)
           /\ \A s, t \in Seq(S) :
                NotAmong(s \o t, set) = NotAmong(s, set) \o NotAmong(t, set)
<1> DEFINE d == Dropping(S, set)
<1>1. \A s \in Seq(S) : NotAmong(s, set) = FlatMap(s, d)
  BY AmongIsFlatMap
<1>2. d \in [S -> Seq(S)]
  BY KeepingDropping
<1>3. \A e \in S : d[e] = IF e \in set THEN <<>> ELSE <<e>>
  BY DEF Dropping
<1> HIDE DEF d
<1>4. /\ FlatMap(<<>>, d) = <<>>
      /\ \A e \in S : FlatMap(<<e>>, d) = d[e]
      /\ \A s \in Seq(S) : FlatMap(s, d) \in Seq(S)
      /\ \A s, t \in Seq(S) : FlatMap(s \o t, d) = FlatMap(s, d) \o FlatMap(t, d)
  BY <1>2, FlatMapFacts
<1>5. <<>> \in Seq(S) /\ \A e \in S : <<e>> \in Seq(S)
  BY EmptySeq
<1>6. \A s, t \in Seq(S) : s \o t \in Seq(S)
  BY ConcatProperties
<1> QED
  BY <1>1, <1>3, <1>4, <1>5, <1>6
=============================================================================
