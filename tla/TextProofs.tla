------------------------------ MODULE TextProofs ------------------------------
(***************************************************************************)
(* The texts that wordwrap() cuts into lines.  display_text(): the display *)
(* buffer has the text of the page, wrapping it loses nothing and splits   *)
(* no word that fits on a line, and paging skips nothing.  menu_explode(): *)
(* the table has every link of the menu once, with its own selector and    *)
(* host, and shows the descriptions in full.  For every page, menu and     *)
(* size of the screen.                                                     *)
(***************************************************************************)
EXTENDS TextView, TextFilter, MenuExplode, SequenceTheorems, FiniteSetTheorems, Induction,
        TLAPS

Char == STRING \cup {NUL, TAB, CR, LF, SPACE}
Clean == {str \in Seq(Char) : \A i \in 1 .. Len(str) : str[i] \notin {NUL, TAB, CR}}

LEMMA Marks ==
    /\ NUL # LF /\ NUL # SPACE /\ NUL # TAB /\ NUL # CR
    /\ LF # SPACE /\ LF # TAB /\ LF # CR /\ SPACE # TAB /\ SPACE # CR
    /\ NUL \in Char /\ LF \in Char /\ SPACE \in Char
    /\ Separators = {SPACE, TAB, LF, CR}
BY DEF NUL, LF, SPACE, TAB, CR, Char, Separators

LEMMA TabIsNone == TAB # CR /\ TAB \in Char /\ CR \in Char /\ TAB # NUL
BY DEF TAB, CR, NUL, Char

-----------------------------------------------------------------------------
(* Sequences: prefixes, one element more, and what is made of them.        *)

LEMMA PrefixGrows ==
    ASSUME NEW S, NEW s \in Seq(S), NEW k \in Nat, k < Len(s)
    PROVE  /\ SubSeq(s, 1, k) \in Seq(S) /\ SubSeq(s, 1, k + 1) \in Seq(S)
           /\ SubSeq(s, k + 1, Len(s)) \in Seq(S)
           /\ s[k + 1] \in S
           /\ SubSeq(s, 1, k + 1) = SubSeq(s, 1, k) \o <<s[k + 1]>>
           /\ s = SubSeq(s, 1, k) \o SubSeq(s, k + 1, Len(s))
<1> DEFINE n == Len(s)
<1>1. /\ n \in Nat /\ k + 1 \in 1 .. n /\ 1 \in 1 .. n + 1
      /\ k \in 1 - 1 .. n /\ k + 1 \in 1 - 1 .. n /\ k \in 1 - 1 .. k + 1 /\ n \in 1 - 1 .. n
      /\ k + 1 \in 1 .. n + 1 /\ n \in (k + 1) - 1 .. n /\ k + 1 \in (k + 1) - 1 .. n
      /\ (k + 1) - (k + 1) + 1 = 1 /\ (k + 1) + 1 - 1 = k + 1 /\ 1 \in 1 .. 1
  BY LenProperties
<1>2. /\ SubSeq(s, 1, k) \in Seq(S) /\ SubSeq(s, 1, k + 1) \in Seq(S)
      /\ SubSeq(s, k + 1, n) \in Seq(S)
  BY <1>1, SubSeqFacts
<1>3. s[k + 1] \in S
  BY <1>1, ElementOfSeq
<1>4. SubSeq(s, 1, k + 1) = SubSeq(s, 1, k) \o SubSeq(s, k + 1, k + 1)
  BY <1>1, SubSeqSplit
<1>5. SubSeq(s, 1, n) = SubSeq(s, 1, k) \o SubSeq(s, k + 1, n)
  BY <1>1, SubSeqSplit
<1>6. SubSeq(s, 1, n) = s
  BY SubSeqFull
<1> DEFINE one == SubSeq(s, k + 1, k + 1)
<1>7. one \in Seq(S) /\ Len(one) = 1 /\ one[1] = s[k + 1]
  BY <1>1, SubSeqFacts
<1> HIDE DEF one
<1>8. one = <<s[k + 1]>>
  BY <1>7
<1> QED
  BY <1>2, <1>3, <1>4, <1>5, <1>6, <1>8 DEF one

LEMMA OneBehind ==
    ASSUME NEW S, NEW s \in Seq(S), NEW e \in S
    PROVE  /\ s \o <<e>> \in Seq(S) /\ Len(s \o <<e>>) = Len(s) + 1 /\ Len(s) \in Nat
           /\ (s \o <<e>>)[Len(s) + 1] = e
           /\ \A i \in 1 .. Len(s) : (s \o <<e>>)[i] = s[i]
<1>1. <<e>> \in Seq(S) /\ Len(<<e>>) = 1 /\ <<e>>[1] = e /\ Len(s) \in Nat
  BY LenProperties
<1> DEFINE t == <<e>>
<1> HIDE DEF t
<1>2. /\ s \o t \in Seq(S) /\ Len(s \o t) = Len(s) + Len(t)
      /\ \A i \in 1 .. Len(s) + Len(t) : (s \o t)[i] = IF i <= Len(s) THEN s[i] ELSE t[i - Len(s)]
  BY <1>1, ConcatProperties DEF t
<1>3. t \in Seq(S) /\ Len(t) = 1 /\ t[1] = e
  BY <1>1 DEF t
<1> DEFINE st == s \o t
<1> HIDE DEF st
<1>4. /\ st \in Seq(S) /\ Len(st) = Len(s) + 1
      /\ \A i \in 1 .. Len(s) + 1 : st[i] = IF i <= Len(s) THEN s[i] ELSE t[i - Len(s)]
  BY <1>2, <1>3 DEF st
<1>5. st[Len(s) + 1] = e
  BY <1>1, <1>3, <1>4
<1>6. \A i \in 1 .. Len(s) : st[i] = s[i]
  BY <1>1, <1>4
<1> QED
  BY <1>1, <1>4, <1>5, <1>6 DEF st, t

LEMMA FrontOfOne ==
    ASSUME NEW S, NEW s \in Seq(S), NEW e \in S
    PROVE  Front(s \o <<e>>) = s
<1> DEFINE t == s \o <<e>>
           n == Len(s)
<1>1. t \in Seq(S) /\ Len(t) = n + 1 /\ n \in Nat /\ \A i \in 1 .. n : t[i] = s[i]
  BY OneBehind
<1> HIDE DEF t
<1>2. Front(t) = SubSeq(t, 1, n)
  <2>1. Len(t) - 1 = n
    BY <1>1
  <2> QED
    BY <2>1 DEF Front
<1>3. 1 \in 1 .. Len(t) + 1 /\ n \in 1 - 1 .. Len(t) /\ n - 1 + 1 = n
      /\ \A i \in 1 .. n : 1 + i - 1 = i
  BY <1>1
<1> HIDE DEF n
<1>4. /\ SubSeq(t, 1, n) \in Seq(S) /\ Len(SubSeq(t, 1, n)) = n - 1 + 1
      /\ \A i \in 1 .. n - 1 + 1 : SubSeq(t, 1, n)[i] = t[1 + i - 1]
  BY <1>1, <1>3, SubSeqFacts
<1>5. SubSeq(t, 1, n) = s
  BY <1>1, <1>3, <1>4, SeqEqual DEF n
<1> QED
  BY <1>2, <1>5 DEF t

\* The first k of some sequences joined, and one more.
LEMMA OneMore ==
    ASSUME NEW S, NEW seqs \in Seq(Seq(S)), NEW k \in Nat, k < Len(seqs)
    PROVE  /\ FlattenSeq(SubSeq(seqs, 1, k)) \in Seq(S)
           /\ seqs[k + 1] \in Seq(S)
           /\ FlattenSeq(SubSeq(seqs, 1, k + 1)) =
                FlattenSeq(SubSeq(seqs, 1, k)) \o seqs[k + 1]
           /\ \E rest \in Seq(S) :
                FlattenSeq(seqs) = FlattenSeq(SubSeq(seqs, 1, k + 1)) \o rest
<1> DEFINE n == Len(seqs)
           a == SubSeq(seqs, 1, k)
           b == SubSeq(seqs, 1, k + 1)
           c == SubSeq(seqs, k + 2, n)
<1>1. n \in Nat /\ k + 1 \in 1 .. n /\ k \in 0 .. n /\ k + 2 \in 1 .. n + 1
  BY LenProperties
<1>2. /\ a \in Seq(Seq(S)) /\ b \in Seq(Seq(S)) /\ c \in Seq(Seq(S))
      /\ seqs[k + 1] \in Seq(S)
  <2>1. 1 \in 1 .. n + 1 /\ k \in 1 - 1 .. n /\ k + 1 \in 1 - 1 .. n /\ n \in (k + 2) - 1 .. n
    BY <1>1
  <2> QED
    BY <1>1, <2>1, SubSeqFacts, ElementOfSeq
<1>3. b = a \o <<seqs[k + 1]>>
  <2>1. 1 \in 1 .. n + 1 /\ k + 1 \in 1 - 1 .. n /\ k \in 1 - 1 .. k + 1
    BY <1>1
  <2>2. b = a \o SubSeq(seqs, k + 1, k + 1)
    BY <2>1, SubSeqSplit
  <2>3. /\ k + 1 \in 1 .. n + 1 /\ k + 1 \in (k + 1) - 1 .. n
        /\ (k + 1) - (k + 1) + 1 = 1 /\ (k + 1) + 1 - 1 = k + 1 /\ 1 \in 1 .. 1
    BY <1>1
  <2> DEFINE one == SubSeq(seqs, k + 1, k + 1)
  <2>4. one \in Seq(Seq(S)) /\ Len(one) = 1 /\ one[1] = seqs[k + 1]
    BY <2>3, SubSeqFacts
  <2> HIDE DEF one
  <2>5. one = <<seqs[k + 1]>>
    BY <2>4
  <2> QED
    BY <2>2, <2>5 DEF one
<1>4. seqs = b \o c
  <2>1. /\ 1 \in 1 .. n + 1 /\ n \in 1 - 1 .. n /\ k + 1 \in 1 - 1 .. n
        /\ (k + 1) + 1 = k + 2
    BY <1>1
  <2>2. SubSeq(seqs, 1, n) = b \o c
    BY <2>1, SubSeqSplit
  <2>3. SubSeq(seqs, 1, n) = seqs
    BY SubSeqFull
  <2> QED
    BY <2>2, <2>3
<1> HIDE DEF a, b, c
<1>5. FlattenSeq(b) = FlattenSeq(a) \o seqs[k + 1]
  <2>1. <<seqs[k + 1]>> \in Seq(Seq(S)) /\ FlattenSeq(<<seqs[k + 1]>>) = seqs[k + 1]
    BY <1>2, FlattenOne
  <2> QED
    BY <1>2, <1>3, <2>1, FlattenConcat
<1>6. FlattenSeq(a) \in Seq(S) /\ FlattenSeq(c) \in Seq(S)
  BY <1>2, FlattenInSeq
<1>7. FlattenSeq(seqs) = FlattenSeq(b) \o FlattenSeq(c)
  BY <1>2, <1>4, FlattenConcat
<1> QED
  BY <1>2, <1>5, <1>6, <1>7 DEF a, b

\* Where in some sequences, joined, the one after the first k is.
Joint(seqs, k) == Len(FlattenSeq(SubSeq(seqs, 1, k)))

LEMMA PartAt ==
    ASSUME NEW S, NEW seqs \in Seq(Seq(S)), NEW k \in Nat, k < Len(seqs)
    PROVE  /\ Joint(seqs, k) \in Nat /\ Len(seqs[k + 1]) \in Nat
           /\ Len(FlattenSeq(seqs)) \in Nat
           /\ Joint(seqs, k + 1) = Joint(seqs, k) + Len(seqs[k + 1])
           /\ Joint(seqs, k) + Len(seqs[k + 1]) <= Len(FlattenSeq(seqs))
           /\ \A j \in 1 .. Len(seqs[k + 1]) :
                FlattenSeq(seqs)[Joint(seqs, k) + j] = seqs[k + 1][j]
<1> DEFINE a == FlattenSeq(SubSeq(seqs, 1, k))
           b == FlattenSeq(SubSeq(seqs, 1, k + 1))
           e == seqs[k + 1]
           all == FlattenSeq(seqs)
<1>1. /\ a \in Seq(S) /\ e \in Seq(S) /\ b = a \o e
      /\ \E rest \in Seq(S) : all = b \o rest
  BY OneMore
<1> HIDE DEF a, b, e, all
<1>2. PICK rest \in Seq(S) : all = b \o rest
  BY <1>1
<1>3. \A s, t \in Seq(S) :
        /\ s \o t \in Seq(S) /\ Len(s \o t) = Len(s) + Len(t)
        /\ Len(s) \in Nat /\ Len(t) \in Nat
        /\ \A i \in 1 .. Len(s) + Len(t) :
             (s \o t)[i] = IF i <= Len(s) THEN s[i] ELSE t[i - Len(s)]
  BY ConcatProperties, LenProperties
<1>4. /\ b \in Seq(S) /\ Len(b) = Len(a) + Len(e)
      /\ \A i \in 1 .. Len(a) + Len(e) : b[i] = IF i <= Len(a) THEN a[i] ELSE e[i - Len(a)]
      /\ Len(a) \in Nat /\ Len(e) \in Nat
  BY <1>1, <1>3, Zenon
<1>5. /\ all \in Seq(S) /\ Len(all) = Len(b) + Len(rest) /\ Len(rest) \in Nat
      /\ \A i \in 1 .. Len(b) + Len(rest) :
           all[i] = IF i <= Len(b) THEN b[i] ELSE rest[i - Len(b)]
  BY <1>2, <1>3, <1>4, Zenon
<1>6. ASSUME NEW j \in 1 .. Len(e) PROVE all[Len(a) + j] = e[j]
  <2>1. /\ Len(a) + j \in 1 .. Len(a) + Len(e) /\ ~(Len(a) + j <= Len(a))
        /\ (Len(a) + j) - Len(a) = j
        /\ Len(a) + j \in 1 .. Len(b) + Len(rest) /\ Len(a) + j <= Len(b)
    BY <1>4, <1>5
  <2> QED
    BY <1>4, <1>5, <2>1
<1>7. Len(a) + Len(e) <= Len(all) /\ Len(all) \in Nat
  BY <1>4, <1>5
<1> QED
  BY <1>4, <1>6, <1>7 DEF a, b, e, all, Joint

LEMMA NothingFlat == FlattenSeq(<<>>) = <<>>
<1>1. <<>> \in Seq(Seq(STRING)) /\ Len(<<>>) = 0
  BY EmptySeq
<1>2. PICK f \in [0 .. 0 -> Seq(STRING)] :
        f[0] = <<>> /\ FlattenSeq(<<>>) = f[0]
  BY <1>1, FlattenRecursion
<1> QED
  BY <1>2

LEMMA PrefixMapped ==
    ASSUME NEW S, NEW T, NEW d \in [S -> Seq(T)], NEW s \in Seq(S), NEW k \in Nat, k < Len(s)
    PROVE  FlatMap(SubSeq(s, 1, k + 1), d) = FlatMap(SubSeq(s, 1, k), d) \o d[s[k + 1]]
<1> DEFINE a == SubSeq(s, 1, k)
           b == SubSeq(s, 1, k + 1)
           e == s[k + 1]
<1>1. /\ a \in Seq(S) /\ e \in S /\ b = a \o <<e>>
  BY PrefixGrows
<1> HIDE DEF a, b, e
<1>2. /\ FlatMap(<<e>>, d) = d[e]
      /\ \A u, v \in Seq(S) : FlatMap(u \o v, d) = FlatMap(u, d) \o FlatMap(v, d)
  BY <1>1, FlatMapFacts
<1>3. <<e>> \in Seq(S)
  BY <1>1
<1>4. FlatMap(b, d) = FlatMap(a, d) \o d[e]
  BY <1>1, <1>2, <1>3
<1> QED
  BY <1>4 DEF a, b, e

LEMMA RestMapped ==
    ASSUME NEW S, NEW T, NEW d \in [S -> Seq(T)], NEW s \in Seq(S), NEW k \in Nat, k < Len(s)
    PROVE  FlatMap(s, d) = FlatMap(SubSeq(s, 1, k), d) \o FlatMap(SubSeq(s, k + 1, Len(s)), d)
<1> DEFINE a == SubSeq(s, 1, k)
           c == SubSeq(s, k + 1, Len(s))
<1>1. /\ a \in Seq(S) /\ c \in Seq(S) /\ s = a \o c
  BY PrefixGrows
<1> HIDE DEF a, c
<1>2. FlatMap(a \o c, d) = FlatMap(a, d) \o FlatMap(c, d)
  BY <1>1, FlatMapConcat
<1> QED
  BY <1>1, <1>2 DEF a, c

\* Nothing is left of a sequence whose elements are all dropped.
LEMMA AllDropped ==
    ASSUME NEW S, NEW set, NEW s \in Seq(S), \A i \in 1 .. Len(s) : s[i] \in set
    PROVE  NotAmong(s, set) = <<>>
<1>1. Len(s) \in Nat /\ \A i \in 1 .. Len(s) : s[i] \in S
  BY LenProperties, ElementOfSeq
<1> DEFINE Good == {n \in Nat : n <= Len(s) => NotAmong(SubSeq(s, 1, n), set) = <<>>}
<1>2. 0 \in Good
  <2>1. SubSeq(s, 1, 0) = <<>>
    BY SubSeqEmpty
  <2> QED
    BY <2>1, NotAmongFacts
<1>3. ASSUME NEW n \in Nat, n \in Good PROVE n + 1 \in Good
  <2> SUFFICES ASSUME n + 1 <= Len(s) PROVE NotAmong(SubSeq(s, 1, n + 1), set) = <<>>
    OBVIOUS
  <2> DEFINE a == SubSeq(s, 1, n)
             e == s[n + 1]
  <2>1. n < Len(s) /\ n <= Len(s) /\ n + 1 \in 1 .. Len(s)
    BY <1>1
  <2>2. a \in Seq(S) /\ e \in S /\ SubSeq(s, 1, n + 1) = a \o <<e>>
    BY <2>1, PrefixGrows
  <2>3. NotAmong(a, set) = <<>> /\ e \in set
    BY <1>3, <2>1
  <2> HIDE DEF a, e
  <2>4. <<e>> \in Seq(S)
    BY <2>2
  <2>5. NotAmong(<<e>>, set) = <<>>
    BY <2>2, <2>3, NotAmongFacts
  <2>6. NotAmong(a \o <<e>>, set) = NotAmong(a, set) \o NotAmong(<<e>>, set)
    <3>1. \A u, v \in Seq(S) : NotAmong(u \o v, set) = NotAmong(u, set) \o NotAmong(v, set)
      BY NotAmongFacts
    <3> QED
      BY <2>2, <2>4, <3>1, Zenon
  <2>7. NotAmong(a \o <<e>>, set) = <<>> \o <<>>
    BY <2>3, <2>5, <2>6, Zenon
  <2>8. <<>> \o <<>> = <<>>
    BY ConcatEmptySeq, EmptySeq
  <2> QED
    BY <2>2, <2>7, <2>8
<1> HIDE DEF Good
<1>4. \A n \in Nat : n \in Good
  BY <1>2, <1>3, NatSetInduction
<1>5. NotAmong(SubSeq(s, 1, Len(s)), set) = <<>>
  BY <1>1, <1>4 DEF Good
<1> QED
  BY <1>5, SubSeqFull

-----------------------------------------------------------------------------
(* wordwrap(): how one line is cut off.                                    *)

\* The first position with one of some characters, where there is one.
LEMMA FirstFound ==
    ASSUME NEW S, NEW str \in Seq(S), NEW i \in 1 .. Len(str) + 1, NEW chars,
           NEW f \in i .. Len(str) + 1, At(str, f) \in chars
    PROVE  /\ FirstIn(str, i, chars) \in i .. f
           /\ At(str, FirstIn(str, i, chars)) \in chars
           /\ \A k \in i .. FirstIn(str, i, chars) - 1 : At(str, k) \notin chars
<1> DEFINE Found == {j \in i .. Len(str) + 1 : At(str, j) \in chars}
           first == FirstIn(str, i, chars)
<1>1. Len(str) \in Nat
  BY LenProperties
<1>2. PICK j \in Found : \A n \in Found : j <= n
  <2>1. Found \subseteq Nat /\ f \in Found
    BY <1>1
  <2> HIDE DEF Found
  <2> QED
    BY <2>1, LeastNumber
<1>3. /\ j \in i .. Len(str) + 1 /\ At(str, j) \in chars
      /\ \A k \in i .. j - 1 : At(str, k) \notin chars
  <2> SUFFICES ASSUME NEW k \in i .. j - 1, At(str, k) \in chars PROVE FALSE
    BY <1>2
  <2>1. k \in Found /\ ~(j <= k)
    BY <1>1, <1>2
  <2> QED
    BY <1>2, <2>1
<1>4. /\ first \in i .. Len(str) + 1 /\ At(str, first) \in chars
      /\ \A k \in i .. first - 1 : At(str, k) \notin chars
  BY <1>3 DEF FirstIn
<1> HIDE DEF first
<1>5. first <= f
  <2> SUFFICES ASSUME f < first PROVE FALSE
    BY <1>1, <1>4
  <2>1. f \in i .. first - 1
    BY <1>1, <1>4
  <2> QED
    BY <1>4, <2>1
<1> QED
  BY <1>1, <1>4, <1>5 DEF first

\* There is only one such position.
LEMMA FirstIsUnique ==
    ASSUME NEW S, NEW str \in Seq(S), NEW i \in 1 .. Len(str) + 1, NEW chars,
           NEW f \in i .. Len(str) + 1, At(str, f) \in chars,
           \A k \in i .. f - 1 : At(str, k) \notin chars
    PROVE  FirstIn(str, i, chars) = f
<1>1. Len(str) \in Nat
  BY LenProperties
<1>2. /\ FirstIn(str, i, chars) \in i .. f
      /\ At(str, FirstIn(str, i, chars)) \in chars
  BY FirstFound
<1> QED
  BY <1>1, <1>2

LEMMA FirstOther ==
    ASSUME NEW S, NEW str \in Seq(S), NEW i \in 1 .. Len(str) + 1, NEW chars,
           NUL \notin chars
    PROVE  /\ FirstNotIn(str, i, chars) \in i .. Len(str) + 1
           /\ At(str, FirstNotIn(str, i, chars)) \notin chars
           /\ \A k \in i .. FirstNotIn(str, i, chars) - 1 : At(str, k) \in chars
<1> DEFINE Found == {j \in i .. Len(str) + 1 : At(str, j) \notin chars}
<1>1. Len(str) \in Nat
  BY LenProperties
<1>2. Len(str) + 1 \in Found
  BY <1>1 DEF At
<1>3. PICK j \in Found : \A n \in Found : j <= n
  <2>1. Found \subseteq Nat /\ Found # {}
    BY <1>1, <1>2
  <2> HIDE DEF Found
  <2> QED
    BY <2>1, LeastNumber
<1>4. /\ j \in i .. Len(str) + 1 /\ At(str, j) \notin chars
      /\ \A k \in i .. j - 1 : At(str, k) \in chars
  <2> SUFFICES ASSUME NEW k \in i .. j - 1, At(str, k) \notin chars PROVE FALSE
    BY <1>3
  <2>1. k \in Found /\ ~(j <= k)
    BY <1>1, <1>3
  <2> QED
    BY <1>3, <2>1
<1> QED
  BY <1>4 DEF FirstNotIn

LEMMA GreatestNumber ==
    ASSUME NEW N \in Nat, NEW S, S \subseteq 0 .. N, S # {}
    PROVE  Max(S) \in S
<1> DEFINE Mirrored == {n \in Nat : N - n \in S}
<1>1. PICK some \in S : TRUE
  OBVIOUS
<1>2. N - some \in Mirrored
  BY <1>1
<1>3. PICK m \in Mirrored : \A n \in Mirrored : m <= n
  <2>1. Mirrored \subseteq Nat /\ Mirrored # {}
    BY <1>2
  <2> HIDE DEF Mirrored
  <2> QED
    BY <2>1, LeastNumber
<1>4. \E top \in S : \A n \in S : top >= n
  <2> SUFFICES ASSUME NEW n \in S PROVE N - m >= n
    BY <1>3
  <2>1. N - n \in Mirrored
    OBVIOUS
  <2>2. m \in Nat /\ m <= N - n
    BY <1>3, <2>1
  <2>3. n \in Nat
    OBVIOUS
  <2> QED
    BY <2>2, <2>3
<1> QED
  BY <1>4 DEF Max

LEMMA PieceIsSubSeq ==
    ASSUME NEW str \in Clean, NEW i \in 1 .. Len(str) + 1, NEW j \in i .. Len(str) + 1
    PROVE  /\ Piece(str, i, j - i) = SubSeq(str, i, j - 1)
           /\ SubSeq(str, i, j - 1) \in Seq(Char)
<1>1. Len(str) \in Nat /\ str \in Seq(Char) /\ j - i \in Nat
  BY LenProperties DEF Clean
<1>2. j - 1 \in i - 1 .. Len(str) /\ (j - 1) - i + 1 = j - i
  BY <1>1
<1>3. /\ SubSeq(str, i, j - 1) \in Seq(Char) /\ Len(SubSeq(str, i, j - 1)) = j - i
      /\ \A k \in 1 .. j - i : SubSeq(str, i, j - 1)[k] = str[i + k - 1]
  BY <1>1, <1>2, SubSeqFacts
<1>4. ASSUME NEW k \in 1 .. j - i PROVE str[i + k - 1] # TAB
  <2>1. i + k - 1 \in 1 .. Len(str)
    BY <1>1
  <2> QED
    BY <2>1 DEF Clean
<1>5. SubSeq(str, i, j - 1) = [k \in 1 .. j - i |-> SubSeq(str, i, j - 1)[k]]
  <2>1. DOMAIN SubSeq(str, i, j - 1) = 1 .. Len(SubSeq(str, i, j - 1))
        /\ SubSeq(str, i, j - 1) \in [1 .. Len(SubSeq(str, i, j - 1)) -> Char]
    BY <1>3, LenProperties
  <2> QED
    BY <1>3, <2>1
<1> QED
  BY <1>3, <1>4, <1>5 DEF Piece

\* The line is str[i .. j - 1] and the next one begins at r.  What is between
\* them is a line feed or spaces; when there is nothing between them, the line
\* is full and there was no place to cut it.
Cut(str, i, width, w, j, r) ==
    /\ j \in i .. Len(str) + 1 /\ r \in j .. Len(str) + 1
    /\ w.line = SubSeq(str, i, j - 1)
    /\ \A k \in j .. r - 1 : str[k] \in {SPACE, LF}
    /\ \/ w.next = 0 /\ r = Len(str) + 1
       \/ w.next = r /\ i < r
    /\ w.next # 0 =>
         /\ At(str, r) # SPACE \/ str[r - 1] = LF
         /\ r = j => /\ j = i + width /\ j <= Len(str)
                     /\ \A k \in i + 1 .. j : str[k] # SPACE
                     /\ \A k \in i .. j - 1 : str[k] # LF

LEMMA WordwrapCuts ==
    ASSUME NEW str \in Clean, NEW i \in 1 .. Len(str) + 1, NEW width \in Nat \ {0}
    PROVE  \E j, r \in Nat : Cut(str, i, width, wordwrap(str, i, width), j, r)
<1> DEFINE len == Len(str)
           eol == FirstIn(str, i, {NUL, LF})
           stop == Stop(str, i, width)
           w == wordwrap(str, i, width)
<1>1. len \in Nat /\ \A k \in 1 .. len : str[k] \notin {NUL, TAB, CR} /\ At(str, k) = str[k]
  BY LenProperties DEF Clean, At
<1>2. /\ eol \in i .. len + 1 /\ At(str, eol) \in {NUL, LF}
      /\ \A k \in i .. eol - 1 : At(str, k) \notin {NUL, LF}
  <2>1. str \in Seq(Char) /\ len + 1 \in i .. len + 1 /\ At(str, len + 1) \in {NUL, LF}
    BY <1>1 DEF Clean, At
  <2> QED
    BY <2>1, FirstFound
<1>3. stop \in {eol, i + width} /\ stop <= eol /\ stop <= i + width
  <2> HIDE DEF eol
  <2>1. Min({eol, i + width}) \in {eol, i + width}
        /\ \A n \in {eol, i + width} : Min({eol, i + width}) <= n
    <3>1. \E u \in {eol, i + width} : \A n \in {eol, i + width} : u <= n
      BY <1>1, <1>2
    <3> QED
      BY <3>1 DEF Min
  <2> QED
    BY <2>1 DEF Stop, eol
<1> HIDE DEF eol, stop
<1>4. /\ stop \in i .. len + 1 /\ stop \in Nat
      /\ \A k \in i .. stop - 1 : str[k] # LF
  <2>1. stop \in i .. len + 1 /\ stop \in Nat
    BY <1>1, <1>2, <1>3
  <2>2. ASSUME NEW k \in i .. stop - 1 PROVE str[k] # LF
    <3>1. k \in i .. eol - 1 /\ k \in 1 .. len
      BY <1>1, <1>2, <1>3, <2>1
    <3> QED
      BY <1>1, <1>2, <3>1
  <2> QED
    BY <2>1, <2>2
<1>5. Piece(str, i, stop - i) = SubSeq(str, i, stop - 1)
  BY <1>4, PieceIsSubSeq
<1>6. CASE At(str, stop) = NUL
  <2>1. stop = len + 1
    <3> SUFFICES ASSUME stop \in 1 .. len PROVE FALSE
      BY <1>1, <1>4
    <3> QED
      BY <1>1, <1>6
  <2>2. w = [line |-> SubSeq(str, i, stop - 1), next |-> 0]
    BY <1>5, <1>6 DEF wordwrap, stop
  <2>3. stop .. stop - 1 = {}
    BY <1>4
  <2>4. Cut(str, i, width, w, stop, stop)
    BY <1>4, <2>1, <2>2, <2>3 DEF Cut
  <2> QED
    BY <1>4, <2>4
<1>7. CASE At(str, stop) # NUL /\ stop < i + width
  <2>1. stop = eol /\ At(str, stop) = LF /\ stop \in 1 .. len
    <3>1. stop = eol
      BY <1>3, <1>7
    <3>2. stop # len + 1
      BY <1>1, <1>7 DEF At
    <3> QED
      BY <1>1, <1>2, <1>4, <1>7, <3>1, <3>2
  <2>2. ~(stop > i /\ At(str, stop - 1) = CR)
    <3> SUFFICES ASSUME stop > i PROVE At(str, stop - 1) # CR
      OBVIOUS
    <3>1. stop - 1 \in 1 .. len
      BY <1>1, <1>4, <2>1
    <3> QED
      BY <1>1, <3>1
  <2>3. stop - i - 0 = stop - i /\ (stop + 1) - 1 = stop /\ stop .. stop = {stop}
        /\ stop + 1 \in stop .. len + 1 /\ i < stop + 1 /\ stop + 1 # stop /\ stop + 1 # 0
        /\ stop + 1 \in Nat
    BY <1>1, <1>4, <2>1
  <2>4. w = [line |-> SubSeq(str, i, stop - 1), next |-> stop + 1]
    BY <1>5, <1>7, <2>2, <2>3 DEF wordwrap, stop
  <2>5. str[stop] = LF
    BY <1>1, <2>1
  <2>6. Cut(str, i, width, w, stop, stop + 1)
    <3>1. \A k \in stop .. (stop + 1) - 1 : str[k] \in {SPACE, LF}
      BY <2>3, <2>5
    <3>2. str[(stop + 1) - 1] = LF
      BY <2>3, <2>5
    <3> HIDE DEF w
    <3> QED
      BY <1>4, <2>3, <2>4, <3>1, <3>2 DEF Cut
  <2> QED
    BY <1>4, <2>3, <2>6
<1>8. CASE At(str, stop) # NUL /\ ~(stop < i + width)
  <2>1. stop = i + width /\ stop \in 1 .. len /\ i < stop
    <3>1. stop # len + 1
      BY <1>1, <1>8 DEF At
    <3> QED
      BY <1>1, <1>3, <1>4, <1>8, <3>1
  <2> DEFINE spaces == Spaces(str, i, stop)
  <2>2. /\ spaces \subseteq i + 1 .. stop
        /\ \A k \in i + 1 .. stop : k \in spaces <=> str[k] = SPACE
    <3>1. \A k \in i + 1 .. stop : k \in 1 .. len
      BY <1>1, <2>1
    <3>2. \A k \in i + 1 .. stop : At(str, k) \in {SPACE, TAB} <=> str[k] = SPACE
      BY <1>1, <3>1
    <3> QED
      BY <3>2 DEF Spaces
  <2> HIDE DEF spaces
  <2>3. CASE spaces = {}
    <3>1. w = [line |-> SubSeq(str, i, stop - 1), next |-> stop]
      BY <1>5, <1>8, <2>3 DEF wordwrap, stop, spaces, CutWord
    <3>2. At(str, stop) # SPACE
      <4>1. stop \in i + 1 .. stop
        BY <1>1, <2>1
      <4> QED
        BY <1>1, <2>1, <2>2, <2>3, <4>1
    <3>3. stop .. stop - 1 = {} /\ stop \in stop .. len + 1
      BY <1>4
    <3>4. Cut(str, i, width, w, stop, stop)
      <4> HIDE DEF w
      <4> QED
        BY <1>1, <1>4, <2>1, <2>2, <2>3, <3>1, <3>2, <3>3 DEF Cut
    <3> QED
      BY <1>4, <3>4
  <2>4. CASE spaces # {}
    <3> DEFINE j == Max(spaces)
               rest == FirstNotIn(str, j, {SPACE})
    <3>1. j \in spaces
      <4>1. stop \in Nat /\ spaces \subseteq 0 .. stop
        BY <1>4, <2>1, <2>2
      <4> QED
        BY <2>4, <4>1, GreatestNumber
    <3> HIDE DEF j, rest
    <3>2. j \in i + 1 .. stop /\ str[j] = SPACE /\ j \in 1 .. len /\ j \in i .. len + 1
      <4>1. j \in i + 1 .. stop /\ str[j] = SPACE
        BY <2>2, <3>1
      <4> QED
        BY <1>1, <2>1, <4>1
    <3>3. /\ rest \in j .. len + 1 /\ At(str, rest) # SPACE
          /\ \A k \in j .. rest - 1 : At(str, k) = SPACE
      <4>1. str \in Seq(Char) /\ j \in 1 .. Len(str) + 1 /\ NUL \notin {SPACE}
        BY <1>1, <3>2, Marks DEF Clean
      <4> QED
        BY <4>1, FirstOther DEF rest
    <3>4. w = [line |-> Piece(str, i, j - i), next |-> IF At(str, rest) = NUL THEN 0 ELSE rest]
      <4>1. w = CutAtSpace(str, i, j)
        BY <1>8, <2>4 DEF wordwrap, stop, spaces, j
      <4> QED
        BY <4>1 DEF CutAtSpace, rest
    <3>5. rest # j /\ rest \in Nat /\ i < rest /\ rest # 0
      BY <1>1, <3>2, <3>3
    <3>6. \A k \in j .. rest - 1 : str[k] \in {SPACE, LF}
      <4>1. \A k \in j .. rest - 1 : k \in 1 .. len
        BY <1>1, <3>2, <3>3
      <4> QED
        BY <1>1, <3>3, <4>1
    <3>7. Piece(str, i, j - i) = SubSeq(str, i, j - 1)
      BY <3>2, PieceIsSubSeq
    <3>8. At(str, rest) = NUL => rest = len + 1
      <4> SUFFICES ASSUME rest \in 1 .. len, At(str, rest) = NUL PROVE FALSE
        BY <1>1, <3>3, <3>5
      <4> QED
        BY <1>1
    <3>9. Cut(str, i, width, w, j, rest)
      <4> HIDE DEF w
      <4>1. w.line = SubSeq(str, i, j - 1) /\ w.next = IF At(str, rest) = NUL THEN 0 ELSE rest
        BY <3>4, <3>7
      <4> QED
        BY <3>2, <3>3, <3>5, <3>6, <3>8, <4>1 DEF Cut
    <3> QED
      BY <3>2, <3>5, <3>9
  <2> QED
    BY <2>3, <2>4
<1> QED
  BY <1>6, <1>7, <1>8

-----------------------------------------------------------------------------
(* The lines of a text.                                                    *)

\* Its recursive function, as the equations it satisfies.
LEMMA WrappedRecursion ==
    ASSUME NEW str \in Clean, NEW width \in Nat \ {0}
    PROVE  \E from \in [1 .. Len(str) + 1 -> Seq(Seq(Char))] :
             /\ Wrapped(str, width) = from[1]
             /\ \A i \in 1 .. Len(str) + 1 :
                  LET w == wordwrap(str, i, width)
                  IN  from[i] = <<w.line>> \o
                                  (IF w.next = 0 THEN <<>> ELSE from[w.next])
<1> DEFINE N == Len(str) + 1
           W(i) == wordwrap(str, i, width)
           Lists == Seq(Seq(Char))
           Flat(s) == [i \in 1 .. Len(str) + 1 |->
                         <<wordwrap(str, i, width).line>> \o
                           (IF wordwrap(str, i, width).next = 0 THEN <<>>
                            ELSE s[wordwrap(str, i, width).next])]
           chosen == CHOOSE s : s = Flat(s)
<1>1. N \in Nat /\ 1 \in 1 .. N
  BY LenProperties DEF Clean
<1>2. ASSUME NEW i \in 1 .. N
      PROVE  W(i).line \in Seq(Char) /\ (W(i).next = 0 \/ W(i).next \in i + 1 .. N)
  <2>1. PICK j \in Nat, r \in Nat : Cut(str, i, width, W(i), j, r)
    BY WordwrapCuts
  <2>2. SubSeq(str, i, j - 1) \in Seq(Char)
    BY <2>1, PieceIsSubSeq DEF Cut
  <2>3. r \in j .. N /\ (W(i).next = 0 \/ (W(i).next = r /\ i < r)) /\ j \in i .. N
        /\ W(i).line = SubSeq(str, i, j - 1)
    <3> HIDE DEF W
    <3> QED
      BY <2>1 DEF Cut
  <2> HIDE DEF W, N
  <2> QED
    BY <1>1, <2>2, <2>3
<1>3. Wrapped(str, width) = chosen[1]
  BY DEF Wrapped
<1> HIDE DEF N
<1> DEFINE ending == {i \in 1 .. N : W(i).next = 0}
           b == [i \in 1 .. N |-> <<W(i).line>>]
           d == [i \in 1 .. N |-> IF W(i).next = 0 THEN i ELSE W(i).next]
           h == [p \in (1 .. N) \X Lists |-> <<W(p[1]).line>> \o p[2]]
<1> HIDE DEF W
<1>4. \A i \in 1 .. N : <<W(i).line>> \in Lists
  BY <1>2
<1>5. \A l, m \in Lists : l \o m \in Lists
  BY ConcatProperties
<1> HIDE DEF Lists
<1>6. b \in [1 .. N -> Lists] /\ h \in [(1 .. N) \X Lists -> Lists]
  BY <1>4, <1>5
<1>7. d \in [1 .. N -> 1 .. N] /\ \A i \in 1 .. N : i \notin ending => i < d[i]
  BY <1>1, <1>2
<1>8. PICK g \in UpwardRecursions(Lists, N, ending, b, d, h) : TRUE
  <2> HIDE DEF b, d, h, ending
  <2>1. UpwardRecursions(Lists, N, ending, b, d, h) # {}
    BY <1>1, <1>6, <1>7, RecursionUpward
  <2> QED
    BY <2>1
<1>9. g \in [1 .. N -> Lists]
      /\ \A i \in 1 .. N : g[i] = IF i \in ending THEN b[i] ELSE h[<<i, g[d[i]]>>]
  <2> HIDE DEF b, d, h, ending
  <2> QED
    BY <1>8 DEF UpwardRecursions
<1>10. ASSUME NEW i \in 1 .. N
       PROVE  g[i] = <<W(i).line>> \o (IF W(i).next = 0 THEN <<>> ELSE g[W(i).next])
  <2>1. CASE W(i).next = 0
    <3>1. g[i] = <<W(i).line>>
      BY <1>9, <2>1
    <3>2. <<W(i).line>> \o <<>> = <<W(i).line>>
      BY <1>4, ConcatEmptySeq DEF Lists
    <3> QED
      BY <2>1, <3>1, <3>2
  <2>2. CASE W(i).next # 0
    <3>1. W(i).next \in 1 .. N /\ d[i] = W(i).next
      BY <1>1, <1>2, <2>2
    <3>2. g[i] = h[<<i, g[d[i]]>>] /\ g[d[i]] \in Lists
      BY <1>9, <2>2, <3>1
    <3> QED
      BY <2>2, <3>1, <3>2
  <2> QED
    BY <2>1, <2>2
<1>11. chosen = Flat(chosen)
  <2>1. g = [i \in 1 .. N |-> g[i]]
    BY <1>9
  <2>2. g = [i \in 1 .. N |-> <<W(i).line>> \o
                                (IF W(i).next = 0 THEN <<>> ELSE g[W(i).next])]
    BY <1>10, <2>1
  <2>3. g = Flat(g)
    BY <2>2 DEF N, W
  <2> QED
    BY <2>3
<1>12. \A i \in 1 .. N : chosen[i] = <<W(i).line>> \o
                           (IF W(i).next = 0 THEN <<>> ELSE chosen[W(i).next])
  <2> HIDE DEF chosen
  <2> QED
    BY <1>11 DEF N, W
<1> HIDE DEF chosen
<1> DEFINE Good == {i \in 1 .. N : chosen[i] \in Lists}
<1>13. ASSUME NEW i \in 1 .. N, \A k \in i + 1 .. N : k \in Good PROVE i \in Good
  <2>1. CASE W(i).next = 0
    <3>1. <<>> \in Lists
      BY EmptySeq DEF Lists
    <3> QED
      BY <1>4, <1>5, <1>12, <2>1, <3>1
  <2>2. CASE W(i).next # 0
    <3>1. chosen[W(i).next] \in Lists
      BY <1>2, <1>13, <2>2
    <3> QED
      BY <1>4, <1>5, <1>12, <2>2, <3>1
  <2> QED
    BY <2>1, <2>2
<1>14. \A i \in 1 .. N : i \in Good
  <2> HIDE DEF Good
  <2> QED
    BY <1>1, <1>13, DownwardInduction
<1> DEFINE from == [i \in 1 .. N |-> chosen[i]]
<1>15. from \in [1 .. N -> Lists]
  BY <1>14
<1>16. from[1] = chosen[1]
  BY <1>1
<1>17. ASSUME NEW i \in 1 .. N
       PROVE  from[i] = <<W(i).line>> \o (IF W(i).next = 0 THEN <<>> ELSE from[W(i).next])
  <2>1. W(i).next = 0 \/ W(i).next \in 1 .. N
    BY <1>1, <1>2
  <2>2. chosen[i] = <<W(i).line>> \o (IF W(i).next = 0 THEN <<>> ELSE chosen[W(i).next])
    BY <1>12
  <2>3. CASE W(i).next = 0
    BY <2>2, <2>3
  <2>4. CASE W(i).next # 0
    BY <2>1, <2>2, <2>4
  <2> QED
    BY <2>3, <2>4
<1> HIDE DEF from
<1> QED
  BY <1>3, <1>15, <1>16, <1>17 DEF N, W, Lists

-----------------------------------------------------------------------------
(* Visible and Gaps.                                                       *)

LEMMA VisibleFacts ==
    /\ Visible(<<>>) = <<>>
    /\ \A e \in Char : Visible(<<e>>) = IF e \in Separators THEN <<>> ELSE <<e>>
    /\ \A s \in Seq(Char) : Visible(s) \in Seq(Char) /\ Len(Visible(s)) \in Nat
    /\ \A s, t \in Seq(Char) : Visible(s \o t) = Visible(s) \o Visible(t)
    /\ \A s, t \in Seq(Char) : Len(Visible(s \o t)) = Len(Visible(s)) + Len(Visible(t))
<1>1. /\ NotAmong(<<>>, Separators) = <<>>
      /\ \A e \in Char : NotAmong(<<e>>, Separators) =
                           IF e \in Separators THEN <<>> ELSE <<e>>
      /\ \A s \in Seq(Char) : NotAmong(s, Separators) \in Seq(Char)
      /\ \A s, t \in Seq(Char) : NotAmong(s \o t, Separators) =
                                   NotAmong(s, Separators) \o NotAmong(t, Separators)
  BY NotAmongFacts
<1>2. /\ Visible(<<>>) = <<>>
      /\ \A e \in Char : Visible(<<e>>) = IF e \in Separators THEN <<>> ELSE <<e>>
      /\ \A s \in Seq(Char) : Visible(s) \in Seq(Char)
      /\ \A s, t \in Seq(Char) : Visible(s \o t) = Visible(s) \o Visible(t)
  BY <1>1, Zenon DEF Visible
<1>3. \A s \in Seq(Char) : Len(Visible(s)) \in Nat
  BY <1>2, LenProperties
<1>4. \A s, t \in Seq(Char) : Len(Visible(s) \o Visible(t)) = Len(Visible(s)) + Len(Visible(t))
  <2>1. \A u, v \in Seq(Char) : Len(u \o v) = Len(u) + Len(v)
    BY ConcatProperties
  <2> QED
    BY <1>2, <2>1, Zenon
<1> QED
  BY <1>2, <1>3, <1>4, Zenon

LEMMA BlankVisible ==
    ASSUME NEW s \in Seq(Char), \A i \in 1 .. Len(s) : s[i] \in Separators
    PROVE  /\ Visible(s) = <<>>
           /\ \A n \in 1 .. Len(s) : Visible(SubSeq(s, 1, n)) = <<>>
<1>1. Visible(s) = <<>>
  BY AllDropped DEF Visible
<1>2. ASSUME NEW n \in 1 .. Len(s) PROVE Visible(SubSeq(s, 1, n)) = <<>>
  <2> DEFINE a == SubSeq(s, 1, n)
  <2>1. Len(s) \in Nat
    BY LenProperties
  <2>2. /\ 1 \in 1 .. Len(s) + 1 /\ n \in 1 - 1 .. Len(s) /\ n - 1 + 1 = n
        /\ \A i \in 1 .. n : 1 + i - 1 = i /\ i \in 1 .. Len(s)
    BY <2>1
  <2>3. /\ a \in Seq(Char) /\ Len(a) = n - 1 + 1
        /\ \A i \in 1 .. n - 1 + 1 : a[i] = s[1 + i - 1]
    BY <2>2, SubSeqFacts
  <2> HIDE DEF a
  <2>4. Len(a) = n /\ \A i \in 1 .. Len(a) : a[i] \in Separators
    BY <2>2, <2>3
  <2>5. Visible(a) = <<>>
    BY <2>3, <2>4, AllDropped DEF Visible
  <2> QED
    BY <2>5 DEF a
<1> QED
  BY <1>1, <1>2

LEMMA GapsMembers ==
    ASSUME NEW s \in Seq(Char)
    PROVE  /\ \A g : g \in Gaps(s) <=> \E i \in 1 .. Len(s) :
                s[i] \in Separators /\ g = Len(Visible(SubSeq(s, 1, i)))
           /\ Gaps(s) \subseteq Nat
<1>1. ASSUME NEW i \in 1 .. Len(s) PROVE Len(Visible(SubSeq(s, 1, i))) \in Nat
  <2>1. 1 \in 1 .. Len(s) + 1 /\ i \in 1 - 1 .. Len(s)
    BY LenProperties
  <2>2. SubSeq(s, 1, i) \in Seq(Char)
    BY <2>1, SubSeqFacts
  <2> QED
    BY <2>2, VisibleFacts
<1>2. \A g : g \in Gaps(s) <=> \E i \in 1 .. Len(s) :
        s[i] \in Separators /\ g = Len(Visible(SubSeq(s, 1, i)))
  BY DEF Gaps
<1>3. Gaps(s) \subseteq Nat
  BY <1>1, <1>2
<1> QED
  BY <1>2, <1>3

LEMMA GapsConcat ==
    ASSUME NEW a \in Seq(Char), NEW b \in Seq(Char)
    PROVE  \A g : g \in Gaps(a \o b) <=>
             g \in Gaps(a) \/ \E h \in Gaps(b) : g = Len(Visible(a)) + h
<1> DEFINE c == a \o b
<1>1. /\ c \in Seq(Char) /\ Len(c) = Len(a) + Len(b) /\ Len(a) \in Nat /\ Len(b) \in Nat
      /\ \A i \in 1 .. Len(a) + Len(b) :
           c[i] = IF i <= Len(a) THEN a[i] ELSE b[i - Len(a)]
  BY ConcatProperties, LenProperties
<1>2. ASSUME NEW i \in 1 .. Len(a)
      PROVE  c[i] = a[i] /\ i \in 1 .. Len(c) /\ SubSeq(c, 1, i) = SubSeq(a, 1, i)
  <2>1. SubSeq(c, 1, i) = SubSeq(a, 1, i)
    BY PrefixOfConcat
  <2> HIDE DEF c
  <2> QED
    BY <1>1, <2>1
<1>3. ASSUME NEW i \in 1 .. Len(b)
      PROVE  /\ c[Len(a) + i] = b[i] /\ Len(a) + i \in 1 .. Len(c)
             /\ Len(Visible(SubSeq(c, 1, Len(a) + i)))
                  = Len(Visible(a)) + Len(Visible(SubSeq(b, 1, i)))
  <2>1. SubSeq(c, 1, Len(a) + i) = a \o SubSeq(b, 1, i)
    BY PrefixOfConcat
  <2>2. SubSeq(b, 1, i) \in Seq(Char)
    <3>1. 1 \in 1 .. Len(b) + 1 /\ i \in 1 - 1 .. Len(b)
      BY <1>1
    <3> QED
      BY <3>1, SubSeqFacts
  <2>3. Len(Visible(a \o SubSeq(b, 1, i))) = Len(Visible(a)) + Len(Visible(SubSeq(b, 1, i)))
    BY <2>2, VisibleFacts
  <2> HIDE DEF c
  <2>4. Len(a) + i \in 1 .. Len(a) + Len(b) /\ ~(Len(a) + i <= Len(a))
        /\ (Len(a) + i) - Len(a) = i
    BY <1>1
  <2> QED
    BY <1>1, <2>1, <2>3, <2>4
<1> HIDE DEF c
<1>4. ASSUME NEW i \in 1 .. Len(c), ~(i <= Len(a))
      PROVE  i - Len(a) \in 1 .. Len(b) /\ Len(a) + (i - Len(a)) = i
  BY <1>1, <1>4
<1>5. ASSUME NEW g, g \in Gaps(c)
      PROVE  g \in Gaps(a) \/ \E h \in Gaps(b) : g = Len(Visible(a)) + h
  <2>1. PICK i \in 1 .. Len(c) : c[i] \in Separators /\ g = Len(Visible(SubSeq(c, 1, i)))
    BY <1>1, <1>5, GapsMembers
  <2>2. CASE i <= Len(a)
    <3>1. i \in 1 .. Len(a)
      BY <1>1, <2>2
    <3>2. a[i] \in Separators /\ g = Len(Visible(SubSeq(a, 1, i)))
      BY <1>2, <2>1, <3>1
    <3> QED
      BY <3>1, <3>2, GapsMembers
  <2>3. CASE ~(i <= Len(a))
    <3>1. PICK k \in 1 .. Len(b) : Len(a) + k = i
      BY <1>4, <2>3
    <3>2. b[k] \in Separators /\ g = Len(Visible(a)) + Len(Visible(SubSeq(b, 1, k)))
      BY <1>3, <2>1, <3>1
    <3>3. Len(Visible(SubSeq(b, 1, k))) \in Gaps(b)
      BY <3>2, GapsMembers
    <3> QED
      BY <3>2, <3>3
  <2> QED
    BY <2>2, <2>3
<1>6. ASSUME NEW g, g \in Gaps(a) PROVE g \in Gaps(c)
  <2>1. PICK i \in 1 .. Len(a) : a[i] \in Separators /\ g = Len(Visible(SubSeq(a, 1, i)))
    BY <1>6, GapsMembers
  <2>2. /\ i \in 1 .. Len(c) /\ c[i] \in Separators
        /\ g = Len(Visible(SubSeq(c, 1, i)))
    BY <1>2, <2>1
  <2> QED
    BY <1>1, <2>2, GapsMembers
<1>7. ASSUME NEW h \in Gaps(b) PROVE Len(Visible(a)) + h \in Gaps(c)
  <2>1. PICK i \in 1 .. Len(b) : b[i] \in Separators /\ h = Len(Visible(SubSeq(b, 1, i)))
    BY <1>7, GapsMembers
  <2>2. /\ Len(a) + i \in 1 .. Len(c) /\ c[Len(a) + i] \in Separators
        /\ Len(Visible(a)) + h = Len(Visible(SubSeq(c, 1, Len(a) + i)))
    BY <1>3, <2>1
  <2> QED
    BY <1>1, <2>2, GapsMembers
<1> QED
  BY <1>5, <1>6, <1>7 DEF c

LEMMA GapsBlank ==
    ASSUME NEW s \in Seq(Char), \A i \in 1 .. Len(s) : s[i] \in Separators
    PROVE  \A g : g \in Gaps(s) <=> s # <<>> /\ g = 0
<1>1. \A n \in 1 .. Len(s) : Visible(SubSeq(s, 1, n)) = <<>>
  BY BlankVisible
<1>2. Len(<<>>) = 0 /\ Len(s) \in Nat /\ (s = <<>> <=> Len(s) = 0)
  BY EmptySeq, LenProperties
<1>3. \A g : g \in Gaps(s) <=> \E i \in 1 .. Len(s) :
        s[i] \in Separators /\ g = Len(Visible(SubSeq(s, 1, i)))
  BY GapsMembers
<1>4. \A g : g \in Gaps(s) => s # <<>> /\ g = 0
  BY <1>1, <1>2, <1>3
<1>5. s # <<>> => 0 \in Gaps(s)
  <2> SUFFICES ASSUME s # <<>> PROVE 0 \in Gaps(s)
    OBVIOUS
  <2>1. 1 \in 1 .. Len(s)
    BY <1>2
  <2>2. s[1] \in Separators /\ Len(Visible(SubSeq(s, 1, 1))) = 0
    BY <1>1, <1>2, <2>1
  <2> QED
    BY <1>3, <2>1, <2>2
<1> QED
  BY <1>4, <1>5

-----------------------------------------------------------------------------
(* What the lines say is what the text says.                               *)

From(str, i) == SubSeq(str, i, Len(str))

\* A text is a line, what is between it and the next, and the text from there.
LEMMA TextParts ==
    ASSUME NEW str \in Clean, NEW i \in 1 .. Len(str) + 1,
           NEW j \in i .. Len(str) + 1, NEW r \in j .. Len(str) + 1,
           \A k \in j .. r - 1 : str[k] \in {SPACE, LF}
    PROVE  LET line == SubSeq(str, i, j - 1)
           IN  /\ line \in Seq(Char) /\ From(str, r) \in Seq(Char)
               /\ Visible(From(str, i)) = Visible(line) \o Visible(From(str, r))
               /\ \A g : g \in Gaps(From(str, i)) <=>
                    \/ g \in Gaps(line)
                    \/ j # r /\ g = Len(Visible(line))
                    \/ \E h \in Gaps(From(str, r)) : g = Len(Visible(line)) + h
<1> DEFINE line == SubSeq(str, i, j - 1)
           gap == SubSeq(str, j, r - 1)
           tail == From(str, r)
<1>1. str \in Seq(Char) /\ Len(str) \in Nat
  BY LenProperties DEF Clean
<1>2. /\ i \in 1 .. Len(str) + 1 /\ j - 1 \in i - 1 .. Len(str)
      /\ Len(str) \in i - 1 .. Len(str) /\ (j - 1) + 1 = j
      /\ j \in 1 .. Len(str) + 1 /\ r - 1 \in j - 1 .. Len(str)
      /\ Len(str) \in j - 1 .. Len(str) /\ (r - 1) + 1 = r
      /\ r \in 1 .. Len(str) + 1 /\ Len(str) \in r - 1 .. Len(str)
      /\ (r - 1) - j + 1 = r - j
  BY <1>1
<1>3. line \in Seq(Char)
  BY <1>1, <1>2, SubSeqFacts
<1>4. gap \in Seq(Char) /\ Len(gap) = r - j
      /\ \A k \in 1 .. r - j : gap[k] = str[j + k - 1]
  BY <1>1, <1>2, SubSeqFacts
<1>5. tail \in Seq(Char)
  BY <1>1, <1>2, SubSeqFacts DEF From
<1>6. From(str, i) = line \o From(str, j)
  <2>1. SubSeq(str, i, Len(str))
          = SubSeq(str, i, j - 1) \o SubSeq(str, (j - 1) + 1, Len(str))
    <3>1. j - 1 \in i - 1 .. Len(str)
      BY <1>1
    <3> QED
      BY <1>1, <1>2, <3>1, SubSeqSplit
  <2> QED
    BY <1>2, <2>1 DEF From
<1>7. From(str, j) = gap \o tail
  <2>1. SubSeq(str, j, Len(str))
          = SubSeq(str, j, r - 1) \o SubSeq(str, (r - 1) + 1, Len(str))
    BY <1>1, <1>2, SubSeqSplit
  <2> QED
    BY <1>2, <2>1 DEF From
<1>8. \A k \in 1 .. Len(gap) : gap[k] \in Separators
  <2> SUFFICES ASSUME NEW k \in 1 .. r - j PROVE str[j + k - 1] \in Separators
    BY <1>4
  <2>1. j + k - 1 \in j .. r - 1
    BY <1>1
  <2> QED
    BY <2>1, Marks
<1> HIDE DEF line, gap, tail
<1>9. Visible(gap) = <<>>
  BY <1>4, <1>8, BlankVisible
<1>10. \A g : g \in Gaps(gap) <=> j # r /\ g = 0
  <2>1. \A g : g \in Gaps(gap) <=> gap # <<>> /\ g = 0
    BY <1>4, <1>8, GapsBlank
  <2>2. gap # <<>> <=> j # r
    <3>1. gap = <<>> <=> Len(gap) = 0
      BY <1>4, EmptySeq
    <3>2. r - j = 0 <=> j = r
      BY <1>1
    <3> QED
      BY <1>4, <3>1, <3>2
  <2> QED
    BY <2>1, <2>2
<1>11. gap \o tail \in Seq(Char)
  BY <1>4, <1>5, ConcatProperties
<1>12. Len(Visible(gap)) = 0 /\ Visible(tail) \in Seq(Char) /\ <<>> \o Visible(tail) = Visible(tail)
  <2>1. Visible(tail) \in Seq(Char)
    BY <1>5, VisibleFacts
  <2> QED
    BY <1>9, <2>1, EmptySeq, ConcatEmptySeq
<1>13. Visible(gap \o tail) = Visible(tail)
  BY <1>4, <1>5, <1>9, <1>12, VisibleFacts
<1>14. Visible(line \o (gap \o tail)) = Visible(line) \o Visible(tail)
  BY <1>3, <1>11, <1>13, VisibleFacts
<1>15. \A g : g \in Gaps(gap \o tail) <=> (j # r /\ g = 0) \/ g \in Gaps(tail)
  <2>1. \A g : g \in Gaps(gap \o tail) <=>
          g \in Gaps(gap) \/ \E h \in Gaps(tail) : g = Len(Visible(gap)) + h
    BY <1>4, <1>5, GapsConcat
  <2>2. \A h \in Gaps(tail) : 0 + h = h
    <3>1. Gaps(tail) \subseteq Nat
      BY <1>5, GapsMembers
    <3> QED
      BY <3>1
  <2> QED
    BY <1>10, <1>12, <2>1, <2>2
<1>16. \A g : g \in Gaps(line \o (gap \o tail)) <=>
         \/ g \in Gaps(line)
         \/ \E h \in Gaps(gap \o tail) : g = Len(Visible(line)) + h
  BY <1>3, <1>11, GapsConcat
<1>17. Len(Visible(line)) + 0 = Len(Visible(line))
  BY <1>3, VisibleFacts
<1>18. \A g : g \in Gaps(line \o (gap \o tail)) <=>
         \/ g \in Gaps(line)
         \/ j # r /\ g = Len(Visible(line))
         \/ \E h \in Gaps(tail) : g = Len(Visible(line)) + h
  BY <1>15, <1>16, <1>17
<1>19. From(str, i) = line \o (gap \o tail)
  BY <1>6, <1>7
<1> QED
  BY <1>3, <1>5, <1>14, <1>18, <1>19 DEF line, tail

\* The lines shown are a line, its end, and the lines from there.
LEMMA ShownParts ==
    ASSUME NEW line \in Seq(Char), NEW rest \in Seq(Char)
    PROVE  LET shown == (line \o <<LF>>) \o rest
           IN  /\ shown \in Seq(Char)
               /\ Visible(shown) = Visible(line) \o Visible(rest)
               /\ \A g : g \in Gaps(shown) <=>
                    \/ g \in Gaps(line)
                    \/ g = Len(Visible(line))
                    \/ \E h \in Gaps(rest) : g = Len(Visible(line)) + h
<1> DEFINE end == <<LF>>
<1>1. end \in Seq(Char) /\ Len(end) = 1 /\ end[1] = LF /\ LF \in Separators /\ LF \in Char
  BY Marks
<1>2. Visible(end) = <<>>
  BY <1>1, VisibleFacts
<1>3. \A g : g \in Gaps(end) <=> g = 0
  <2>1. end # <<>> /\ \A k \in 1 .. Len(end) : end[k] \in Separators
    BY <1>1, EmptySeq
  <2> HIDE DEF end
  <2> QED
    BY <1>1, <2>1, GapsBlank
<1> HIDE DEF end
<1>4. line \o end \in Seq(Char) /\ (line \o end) \o rest \in Seq(Char)
  BY <1>1, ConcatProperties
<1>5. Visible(line) \in Seq(Char) /\ Visible(line) \o <<>> = Visible(line)
      /\ Len(Visible(line)) \in Nat /\ Len(Visible(line)) + 0 = Len(Visible(line))
  <2>1. Visible(line) \in Seq(Char) /\ Len(Visible(line)) \in Nat
    BY VisibleFacts
  <2> QED
    BY <2>1, ConcatEmptySeq
<1>6. Visible(line \o end) = Visible(line)
  <2>1. Visible(line \o end) = Visible(line) \o Visible(end)
    BY <1>1, VisibleFacts
  <2> QED
    BY <1>2, <1>5, <2>1
<1>7. Visible((line \o end) \o rest) = Visible(line) \o Visible(rest)
  BY <1>4, <1>6, VisibleFacts
<1>8. \A g : g \in Gaps(line \o end) <=> g \in Gaps(line) \/ g = Len(Visible(line))
  <2>1. \A g : g \in Gaps(line \o end) <=>
          g \in Gaps(line) \/ \E h \in Gaps(end) : g = Len(Visible(line)) + h
    BY <1>1, GapsConcat
  <2>2. \A g : (\E h \in Gaps(end) : g = Len(Visible(line)) + h) <=> g = Len(Visible(line))
    BY <1>3, <1>5
  <2> QED
    BY <2>1, <2>2, Zenon
<1>9. \A g : g \in Gaps((line \o end) \o rest) <=>
        g \in Gaps(line \o end) \/ \E h \in Gaps(rest) : g = Len(Visible(line \o end)) + h
  BY <1>4, GapsConcat
<1>10. \A g : g \in Gaps((line \o end) \o rest) <=>
         \/ g \in Gaps(line)
         \/ g = Len(Visible(line))
         \/ \E h \in Gaps(rest) : g = Len(Visible(line)) + h
  BY <1>6, <1>8, <1>9
<1> QED
  BY <1>4, <1>7, <1>10 DEF end

\* No line of the text is indented, and every word fits on a line.
Plain(str, width) ==
    /\ \A k \in 1 .. Len(str) : str[k] = SPACE => k # 1 /\ str[k - 1] # LF
    /\ \A k \in 1 .. Len(str) - width : \E m \in k .. k + width : str[m] \in Separators

LEMMA GapAtStart ==
    ASSUME NEW str \in Clean, NEW r \in 1 .. Len(str), str[r] \in Separators
    PROVE  0 \in Gaps(From(str, r))
<1> DEFINE tail == From(str, r)
           one == SubSeq(tail, 1, 1)
<1>1. str \in Seq(Char) /\ Len(str) \in Nat /\ str[r] \in Char
  BY LenProperties, ElementOfSeq DEF Clean
<1>2. /\ tail \in Seq(Char) /\ Len(tail) = Len(str) - r + 1
      /\ \A k \in 1 .. Len(str) - r + 1 : tail[k] = str[r + k - 1]
  <2>1. r \in 1 .. Len(str) + 1 /\ Len(str) \in r - 1 .. Len(str)
    BY <1>1
  <2> QED
    BY <1>1, <2>1, SubSeqFacts DEF From
<1> HIDE DEF tail
<1>3. 1 \in 1 .. Len(tail) /\ tail[1] = str[r]
  <2>1. 1 \in 1 .. Len(str) - r + 1 /\ r + 1 - 1 = r
    BY <1>1
  <2> QED
    BY <1>2, <2>1
<1>4. one \in Seq(Char) /\ Len(one) = 1 /\ one[1] = tail[1]
  <2>1. 1 \in 1 .. Len(tail) + 1 /\ 1 \in 1 - 1 .. Len(tail) /\ 1 \in 1 .. 1
        /\ 1 - 1 + 1 = 1 /\ 1 + 1 - 1 = 1
    BY <1>3
  <2> QED
    BY <1>2, <2>1, SubSeqFacts
<1> HIDE DEF one
<1>5. one = <<str[r]>>
  BY <1>3, <1>4
<1>6. Visible(one) = <<>>
  BY <1>1, <1>5, VisibleFacts
<1>7. Len(Visible(one)) = 0
  BY <1>6, EmptySeq
<1> QED
  BY <1>2, <1>3, <1>7, GapsMembers DEF one, tail

\* Where a full line ends without a gap after it, the next begins with one.
LEMMA FullLine ==
    ASSUME NEW str \in Clean, NEW i \in 1 .. Len(str) + 1, NEW width \in Nat \ {0},
           NEW w, NEW j \in Nat, Cut(str, i, width, w, j, j), w.next # 0,
           Plain(str, width), At(str, i) # SPACE
    PROVE  j \in 1 .. Len(str) /\ str[j] \in Separators
<1>1. Len(str) \in Nat /\ \A k \in 1 .. Len(str) : str[k] \notin {NUL, TAB, CR}
  BY LenProperties DEF Clean
<1>2. /\ j = i + width /\ j <= Len(str)
      /\ \A k \in i + 1 .. j : str[k] # SPACE
      /\ \A k \in i .. j - 1 : str[k] # LF
  BY DEF Cut
<1>3. i \in 1 .. Len(str) - width /\ j \in 1 .. Len(str)
  BY <1>1, <1>2
<1>4. PICK m \in i .. i + width : str[m] \in Separators
  BY <1>3 DEF Plain
<1>5. m \in 1 .. Len(str)
  BY <1>1, <1>2
<1>6. str[m] \in {SPACE, LF}
  BY <1>1, <1>4, <1>5, Marks
<1>7. str[i] # SPACE
  <2>1. i <= Len(str)
    BY <1>1, <1>3
  <2> QED
    BY <2>1 DEF At
<1>8. m = j
  <2>1. CASE str[m] = LF
    BY <1>1, <1>2, <2>1
  <2>2. CASE str[m] = SPACE
    <3>1. m # i
      BY <1>7, <2>2
    <3>2. m \in i + 1 .. j
      BY <1>1, <1>2, <3>1
    <3> QED
      BY <1>2, <2>2, <3>2
  <2> QED
    BY <1>6, <2>1, <2>2
<1> QED
  BY <1>3, <1>4, <1>8

\* The lines, each with its end, and what they say of a text.
Joins(parts) == FlattenSeq([n \in DOMAIN parts |-> parts[n] \o <<LF>>])

Says(parts, str, width) ==
    /\ Visible(Joins(parts)) = Visible(str)
    /\ Plain(str, width) =>
         \A g : g # Len(Visible(str)) => (g \in Gaps(Joins(parts)) <=> g \in Gaps(str))

LEMMA LinesSay ==
    ASSUME NEW str \in Clean, NEW width \in Nat \ {0}
    PROVE  /\ Wrapped(str, width) \in Seq(Seq(Char))
           /\ Says(Wrapped(str, width), str, width)
<1> DEFINE N == Len(str) + 1
           W(i) == wordwrap(str, i, width)
           ends == [line \in Seq(Char) |-> line \o <<LF>>]
           shown == Wrapped(str, width)
           joined == Joins(shown)
<1>1. PICK from \in [1 .. Len(str) + 1 -> Seq(Seq(Char))] :
        /\ Wrapped(str, width) = from[1]
        /\ \A i \in 1 .. Len(str) + 1 :
             LET w == wordwrap(str, i, width)
             IN  from[i] = <<w.line>> \o (IF w.next = 0 THEN <<>> ELSE from[w.next])
  BY WrappedRecursion
<1>2. Len(str) \in Nat /\ N \in Nat /\ 1 \in 1 .. N /\ str \in Seq(Char)
  BY LenProperties DEF Clean
<1>3. ends \in [Seq(Char) -> Seq(Char)]
  <2>1. <<LF>> \in Seq(Char)
    BY Marks
  <2>2. \A line \in Seq(Char) : line \o <<LF>> \in Seq(Char)
    BY <2>1, ConcatProperties
  <2> QED
    BY <2>2
<1>4. shown = from[1] /\ from \in [1 .. N -> Seq(Seq(Char))] /\ shown \in Seq(Seq(Char))
  BY <1>1, <1>2
<1>5. \A i \in 1 .. N :
        from[i] = <<W(i).line>> \o (IF W(i).next = 0 THEN <<>> ELSE from[W(i).next])
  BY <1>1
<1> HIDE DEF shown
<1>6. joined = FlatMap(shown, ends)
  <2>1. DOMAIN shown = 1 .. Len(shown) /\ \A n \in 1 .. Len(shown) : shown[n] \in Seq(Char)
    BY <1>4, LenProperties, ElementOfSeq
  <2>2. \A n \in 1 .. Len(shown) : ends[shown[n]] = shown[n] \o <<LF>>
    BY <2>1
  <2> HIDE DEF ends
  <2>3. [n \in DOMAIN shown |-> shown[n] \o <<LF>>] = [n \in 1 .. Len(shown) |-> ends[shown[n]]]
    BY <2>1, <2>2
  <2> QED
    BY <2>3 DEF FlatMap, Joins
<1>7. \A line \in Seq(Char) : ends[line] = line \o <<LF>>
  OBVIOUS
<1> HIDE DEF ends, joined, N
<1>8. /\ FlatMap(<<>>, ends) = <<>>
      /\ \A line \in Seq(Char) : FlatMap(<<line>>, ends) = line \o <<LF>>
      /\ \A l \in Seq(Seq(Char)) : FlatMap(l, ends) \in Seq(Char)
      /\ \A l, m \in Seq(Seq(Char)) :
           FlatMap(l \o m, ends) = FlatMap(l, ends) \o FlatMap(m, ends)
  <2>1. /\ FlatMap(<<>>, ends) = <<>>
        /\ \A line \in Seq(Char) : FlatMap(<<line>>, ends) = ends[line]
        /\ \A l \in Seq(Seq(Char)) : FlatMap(l, ends) \in Seq(Char)
        /\ \A l, m \in Seq(Seq(Char)) :
             FlatMap(l \o m, ends) = FlatMap(l, ends) \o FlatMap(m, ends)
    BY <1>3, FlatMapFacts
  <2> QED
    BY <1>7, <2>1
<1> DEFINE J(i) == FlatMap(from[i], ends)
           Rest(i) == IF W(i).next = 0 THEN <<>> ELSE J(W(i).next)
           S(i) == From(str, i)
           Same(s, u) == \A g : g # Len(Visible(u)) => (g \in Gaps(s) <=> g \in Gaps(u))
           Good == {i \in 1 .. N :
                      /\ Visible(J(i)) = Visible(S(i))
                      /\ Plain(str, width) /\ At(str, i) # SPACE => Same(J(i), S(i))}
<1>9. S(N) = <<>> /\ S(1) = str
  <2>1. /\ SubSeq(str, N, Len(str)) \in Seq(Char) /\ Len(SubSeq(str, N, Len(str))) = 0
    <3>1. N \in 1 .. Len(str) + 1 /\ Len(str) \in N - 1 .. Len(str) /\ Len(str) - N + 1 = 0
      BY <1>2 DEF N
    <3> QED
      BY <1>2, <3>1, SubSeqFacts
  <2>2. /\ SubSeq(str, 1, Len(str)) \in Seq(Char)
        /\ Len(SubSeq(str, 1, Len(str))) = Len(str)
        /\ \A k \in 1 .. Len(str) : SubSeq(str, 1, Len(str))[k] = str[k]
    <3>1. 1 \in 1 .. Len(str) + 1 /\ Len(str) \in 1 - 1 .. Len(str)
          /\ Len(str) - 1 + 1 = Len(str) /\ \A k \in 1 .. Len(str) : 1 + k - 1 = k
      BY <1>2
    <3>2. /\ SubSeq(str, 1, Len(str)) \in Seq(Char)
          /\ Len(SubSeq(str, 1, Len(str))) = Len(str) - 1 + 1
          /\ \A k \in 1 .. Len(str) - 1 + 1 : SubSeq(str, 1, Len(str))[k] = str[1 + k - 1]
      BY <1>2, <3>1, SubSeqFacts
    <3> QED
      BY <3>1, <3>2
  <2> QED
    BY <1>2, <2>1, <2>2, EmptySeq, SeqEqual DEF From
<1> HIDE DEF W
<1>10. ASSUME NEW i \in 1 .. N, \A k \in i + 1 .. N : k \in Good
       PROVE  i \in Good
  <2>1. PICK j \in Nat, r \in Nat : Cut(str, i, width, W(i), j, r)
    BY WordwrapCuts DEF N, W
  <2>2. /\ j \in i .. N /\ r \in j .. N /\ W(i).line = SubSeq(str, i, j - 1)
        /\ \A k \in j .. r - 1 : str[k] \in {SPACE, LF}
        /\ \/ W(i).next = 0 /\ r = N
           \/ W(i).next = r /\ r # 0 /\ r \in i + 1 .. N
    BY <1>2, <2>1 DEF Cut, N
  <2> DEFINE line == SubSeq(str, i, j - 1)
  <2>3. /\ line \in Seq(Char) /\ S(r) \in Seq(Char)
        /\ Visible(S(i)) = Visible(line) \o Visible(S(r))
        /\ \A g : g \in Gaps(S(i)) <=>
             \/ g \in Gaps(line)
             \/ j # r /\ g = Len(Visible(line))
             \/ \E h \in Gaps(S(r)) : g = Len(Visible(line)) + h
    <3>1. /\ i \in 1 .. Len(str) + 1 /\ j \in i .. Len(str) + 1 /\ r \in j .. Len(str) + 1
          /\ \A k \in j .. r - 1 : str[k] \in {SPACE, LF}
      BY <2>2 DEF N
    <3>2. \A ii \in 1 .. Len(str) + 1 : \A jj \in ii .. Len(str) + 1 :
          \A rr \in jj .. Len(str) + 1 :
            (\A k \in jj .. rr - 1 : str[k] \in {SPACE, LF}) =>
              /\ SubSeq(str, ii, jj - 1) \in Seq(Char) /\ From(str, rr) \in Seq(Char)
              /\ Visible(From(str, ii))
                   = Visible(SubSeq(str, ii, jj - 1)) \o Visible(From(str, rr))
              /\ \A g : g \in Gaps(From(str, ii)) <=>
                   \/ g \in Gaps(SubSeq(str, ii, jj - 1))
                   \/ jj # rr /\ g = Len(Visible(SubSeq(str, ii, jj - 1)))
                   \/ \E h \in Gaps(From(str, rr)) :
                        g = Len(Visible(SubSeq(str, ii, jj - 1))) + h
      BY TextParts
    <3> QED
      BY ONLY <3>1, <3>2, Zenon
  <2>4. Rest(i) \in Seq(Char) /\ J(i) = (line \o <<LF>>) \o Rest(i)
    <3> DEFINE more == IF W(i).next = 0 THEN <<>> ELSE from[W(i).next]
    <3>1. more \in Seq(Seq(Char)) /\ FlatMap(more, ends) = Rest(i)
      <4>1. CASE W(i).next = 0
        BY <1>8, <4>1, EmptySeq
      <4>2. CASE W(i).next # 0
        <5>1. W(i).next \in 1 .. N
          BY <1>2, <2>2, <4>2
        <5> QED
          BY <1>4, <4>2, <5>1
      <4> QED
        BY <4>1, <4>2
    <3>2. from[i] = <<line>> \o more
      BY <1>5, <2>2
    <3>3. <<line>> \in Seq(Seq(Char))
      BY <2>3
    <3> HIDE DEF more, line
    <3>4. FlatMap(<<line>> \o more, ends) = FlatMap(<<line>>, ends) \o FlatMap(more, ends)
      BY <1>8, <3>1, <3>3
    <3>5. FlatMap(<<line>>, ends) = line \o <<LF>>
      BY <1>8, <2>3
    <3> QED
      BY <1>8, <3>1, <3>2, <3>4, <3>5
  <2> HIDE DEF line
  <2>5. /\ Visible(J(i)) = Visible(line) \o Visible(Rest(i))
        /\ \A g : g \in Gaps(J(i)) <=>
             \/ g \in Gaps(line)
             \/ g = Len(Visible(line))
             \/ \E h \in Gaps(Rest(i)) : g = Len(Visible(line)) + h
    <3> HIDE DEF J, Rest, S, Good
    <3> DEFINE both == (line \o <<LF>>) \o Rest(i)
    <3>1. /\ Visible(both) = Visible(line) \o Visible(Rest(i))
          /\ \A g : g \in Gaps(both) <=>
               \/ g \in Gaps(line)
               \/ g = Len(Visible(line))
               \/ \E h \in Gaps(Rest(i)) : g = Len(Visible(line)) + h
      BY <2>3, <2>4, ShownParts
    <3>2. J(i) = both
      BY <2>4
    <3> HIDE DEF both
    <3> QED
      BY <3>1, <3>2
  <2>6. Visible(Rest(i)) = Visible(S(r))
    <3>1. CASE W(i).next = 0
      BY <1>9, <2>2, <3>1
    <3>2. CASE W(i).next # 0
      <4>1. r \in Good /\ Rest(i) = J(r)
        BY <1>10, <2>2, <3>2
      <4> HIDE DEF J, S, Same, Rest
      <4> QED
        BY <4>1
    <3> QED
      BY <3>1, <3>2
  <2>7. Visible(J(i)) = Visible(S(i))
    <3> HIDE DEF J, S, Rest
    <3> QED
      BY <2>3, <2>5, <2>6
  <2>8. ASSUME Plain(str, width), At(str, i) # SPACE
        PROVE  Same(J(i), S(i))
    <3>1. Same(Rest(i), S(r))
      <4>1. CASE W(i).next = 0
        <5>1. Rest(i) = S(r)
          BY <1>9, <2>2, <4>1
        <5> HIDE DEF Rest, S
        <5> QED
          BY <5>1
      <4>2. CASE W(i).next # 0
        <5>1. r \in Good /\ Rest(i) = J(r) /\ r \in 2 .. N
          BY <1>2, <1>10, <2>2, <4>2
        <5>2. At(str, r) # SPACE
          <6>1. At(str, r) # SPACE \/ str[r - 1] = LF
            BY <2>1, <4>2 DEF Cut
          <6>2. CASE r = N
            BY <1>2, <6>2, Marks DEF At, N
          <6>3. CASE r # N /\ str[r - 1] = LF
            <7>1. r \in 1 .. Len(str) /\ r <= Len(str)
              BY <1>2, <5>1, <6>3 DEF N
            <7> QED
              BY <2>8, <6>3, <7>1 DEF Plain, At
          <6> QED
            BY <6>1, <6>2, <6>3
        <5> HIDE DEF J, S, Rest, Same
        <5> QED
          BY <2>8, <5>1, <5>2
      <4> QED
        BY <4>1, <4>2
    <3> DEFINE L == Len(Visible(line))
               v == Len(Visible(S(r)))
    <3>2. L \in Nat /\ v \in Nat /\ Len(Visible(S(i))) = L + v
      <4>1. Visible(line) \in Seq(Char) /\ Visible(S(r)) \in Seq(Char)
        BY <2>3, VisibleFacts
      <4> HIDE DEF S
      <4> QED
        BY <2>3, <4>1, LenProperties, ConcatProperties
    <3>3. Gaps(S(r)) \subseteq Nat /\ Gaps(Rest(i)) \subseteq Nat
      <4> HIDE DEF S, Rest
      <4> QED
        BY <2>3, <2>4, GapsMembers
    <3>4. ASSUME j = r, L # L + v PROVE 0 \in Gaps(S(r))
      <4>1. W(i).next # 0
        <5> SUFFICES ASSUME r = N PROVE FALSE
          BY <2>2
        <5>1. S(r) = <<>>
          BY <1>9
        <5>2. v = 0
          BY <5>1, VisibleFacts, EmptySeq
        <5> QED
          BY <3>2, <3>4, <5>2
      <4>2. Cut(str, i, width, W(i), j, j)
        BY <2>1, <3>4
      <4>3. j \in 1 .. Len(str) /\ str[j] \in Separators
        <5> HIDE DEF L, v
        <5> QED
          BY <2>8, <4>1, <4>2, FullLine DEF N
      <4> QED
        BY <3>4, <4>3, GapAtStart
    <3> HIDE DEF L, v, J, S, Rest
    <3>5. ASSUME NEW g, g # L + v PROVE g \in Gaps(J(i)) <=> g \in Gaps(S(i))
      <4>1. \A h \in Nat : g = L + h => h # v
        BY <3>5
      <4>2. (\E h \in Gaps(Rest(i)) : g = L + h) <=> (\E h \in Gaps(S(r)) : g = L + h)
        BY <3>1, <3>3, <4>1 DEF v
      <4>3. g = L => j # r \/ \E h \in Gaps(S(r)) : g = L + h
        <5> SUFFICES ASSUME g = L, j = r PROVE \E h \in Gaps(S(r)) : g = L + h
          OBVIOUS
        <5>1. 0 \in Gaps(S(r)) /\ g = L + 0
          BY <3>2, <3>4, <3>5
        <5> QED
          BY <5>1
      <4> QED
        BY <2>3, <2>5, <4>2, <4>3 DEF L
    <3> QED
      BY <3>2, <3>5
  <2> HIDE DEF J, S, Same
  <2> QED
    BY <2>7, <2>8
<1>11. 1 \in Good
  <2> HIDE DEF Good
  <2>1. \A i \in 1 .. N : i \in Good
    BY <1>2, <1>10, DownwardInduction
  <2> QED
    BY <1>2, <2>1
<1>12. joined = J(1)
  BY <1>4, <1>6
<1>13. Visible(joined) = Visible(str)
  BY <1>9, <1>11, <1>12
<1>14. ASSUME Plain(str, width) PROVE Same(joined, str)
  <2>1. At(str, 1) # SPACE
    <3>1. CASE Len(str) = 0
      BY <3>1, Marks DEF At
    <3>2. CASE Len(str) # 0
      <4>1. 1 \in 1 .. Len(str) /\ 1 <= Len(str)
        BY <1>2, <3>2
      <4> QED
        BY <1>14, <4>1 DEF Plain, At
    <3> QED
      BY <3>1, <3>2
  <2>2. Same(J(1), S(1))
    BY <1>11, <1>14, <2>1
  <2> HIDE DEF J, S
  <2> QED
    BY <1>9, <1>12, <2>2
<1> QED
  BY <1>4, <1>13, <1>14 DEF joined, shown, Says

-----------------------------------------------------------------------------
(* The page.                                                               *)

\* The window is a page long, eof_flag says whether the last line is behind
\* its end, the lines seen are the first ones of the text up to the window
\* that reached furthest, and a page down moves by a page.
Paged ==
    /\ firstline \in Nat /\ lastline = firstline + Page
    /\ eof_flag = (count <= lastline)
    /\ \E m \in Nat : lastline <= m /\ seen = {y \in 0 .. m : y < count}

Inv ==
    /\ text \in Texts
    /\ count = Len(Wrapped(text, Width))
    /\ Paged
    /\ before \in Nat
    /\ key = "PGDOWN" /\ firstline # before => firstline = before + Page

LEMMA TextsClean == Texts \subseteq Clean /\ Width \in Nat \ {0}
<1>1. ASSUME NEW t \in Texts PROVE t \in Clean
  <2>1. t \in Seq(Char)
    <3>1. t \in Seq(STRING) /\ Len(t) \in Nat /\ t = [i \in 1 .. Len(t) |-> t[i]]
      BY TextViewAssumption, LenProperties
    <3>2. \A i \in 1 .. Len(t) : t[i] \in Char
      BY <3>1, ElementOfSeq DEF Char
    <3>3. t \in [1 .. Len(t) -> Char]
      BY <3>1, <3>2
    <3> QED
      BY <3>1, <3>3, SeqDef
  <2>2. ASSUME NEW i \in 1 .. Len(t) PROVE t[i] \notin {NUL, TAB, CR}
    <3>1. DOMAIN t = 1 .. Len(t)
      BY <2>1, LenProperties
    <3>2. t[i] \in ToSet(t)
      BY <3>1 DEF ToSet
    <3>3. ToSet(t) \cap {NUL, TAB, CR} = {}
      BY TextViewAssumption
    <3> QED
      BY <3>2, <3>3
  <2> QED
    BY <2>1, <2>2 DEF Clean
<1> QED
  BY <1>1, TextViewAssumption

LEMMA PageSize == Page \in Nat /\ Page >= 1 /\ Page = Rows - 3
BY TextViewAssumption DEF Page

LEMMA CountNat ==
    ASSUME text \in Texts, count = Len(Wrapped(text, Width))
    PROVE  count \in Nat
<1>1. Wrapped(text, Width) \in Seq(Seq(Char))
  BY TextsClean, LinesSay
<1> QED
  BY <1>1, LenProperties

LEMMA DrawKeeps ==
    ASSUME Inv, NEW first \in Nat, first <= lastline,
           Draw(first, first + Page), UNCHANGED <<text, count>>
    PROVE  Paged'
<1>1. count \in Nat /\ firstline \in Nat /\ lastline = firstline + Page /\ Page \in Nat
  BY CountNat, PageSize DEF Inv, Paged
<1>2. PICK m \in Nat : lastline <= m /\ seen = {y \in 0 .. m : y < count}
  BY DEF Inv, Paged
<1>3. /\ firstline' = first /\ lastline' = first + Page
      /\ eof_flag' = (count <= first + Page)
      /\ seen' = seen \cup {y \in first .. first + Page : y < count}
      /\ count' = count
  BY DEF Draw
<1>4. \E n \in Nat : first + Page <= n /\ seen' = {y \in 0 .. n : y < count}
  <2>1. CASE first + Page <= m
    <3>1. {y \in first .. first + Page : y < count} \subseteq {y \in 0 .. m : y < count}
      BY <1>1, <2>1
    <3>2. seen' = {y \in 0 .. m : y < count}
      BY <1>2, <1>3, <3>1
    <3> QED
      BY <2>1, <3>2
  <2>2. CASE ~(first + Page <= m)
    <3>1. \A y \in Int : y \in 0 .. first + Page <=> y \in 0 .. m \/ y \in first .. first + Page
      BY <1>1, <1>2, <2>2
    <3>2. seen' = {y \in 0 .. first + Page : y < count}
      BY <1>1, <1>2, <1>3, <3>1
    <3>3. first + Page \in Nat /\ first + Page <= first + Page
      BY <1>1
    <3> QED
      BY <3>2, <3>3
  <2> QED
    BY <2>1, <2>2
<1>5. Page' = Page
  BY DEF Page
<1> QED
  BY <1>3, <1>4, <1>5 DEF Paged

LEMMA InitInv == Init => Inv
<1> SUFFICES ASSUME Init PROVE Inv
  OBVIOUS
<1>1. count \in Nat /\ Page \in Nat /\ Page = Rows - 3
  BY CountNat, PageSize DEF Init
<1>2. lastline = 0 + Page /\ lastline \in Nat /\ lastline <= lastline
      /\ seen = {y \in 0 .. lastline : y < count} /\ eof_flag = (count <= lastline)
  BY <1>1 DEF Init
<1>3. Paged
  BY <1>2 DEF Paged, Init
<1> QED
  BY <1>3 DEF Inv, Init

LEMMA LargerOfTwo ==
    ASSUME NEW a \in Int, NEW b \in Int
    PROVE  Max({a, b}) = IF a >= b THEN a ELSE b
<1>1. \A u \in {a, b} : (\A y \in {a, b} : u >= y) <=> u = IF a >= b THEN a ELSE b
  OBVIOUS
<1>2. \E u \in {a, b} : \A y \in {a, b} : u >= y
  OBVIOUS
<1> QED
  BY <1>1, <1>2 DEF Max

LEMMA NextInv == Inv /\ [Next]_vars => Inv'
<1> SUFFICES ASSUME Inv, [Next]_vars PROVE Inv'
  OBVIOUS
<1>1. /\ text \in Texts /\ count = Len(Wrapped(text, Width)) /\ count \in Nat
      /\ firstline \in Nat /\ lastline = firstline + Page /\ before \in Nat
      /\ Page \in Nat /\ Page >= 1 /\ Page = Rows - 3 /\ lastline \in Nat /\ Rows \in Nat
      /\ Page' = Page
  BY CountNat, PageSize, TextViewAssumption DEF Inv, Paged, Page
\* A key that leaves the window alone.
<1>2. ASSUME NEW k, Press(k), Nothing PROVE Inv'
  <2>1. Paged'
    BY <1>1, <1>2 DEF Inv, Paged, Press, Nothing
  <2>2. /\ text' \in Texts /\ count' = Len(Wrapped(text', Width)) /\ before' \in Nat
        /\ firstline' = before'
    BY <1>1, <1>2 DEF Press, Nothing
  <2> QED
    BY <2>1, <2>2 DEF Inv
\* A key that moves it, other than PGDOWN.
<1>3. ASSUME NEW k, Press(k), k # "PGDOWN", NEW first \in Nat, first <= lastline,
             Draw(first, first + Page)
      PROVE  Inv'
  <2>1. Paged'
    BY <1>3, DrawKeeps DEF Press
  <2>2. /\ text' \in Texts /\ count' = Len(Wrapped(text', Width)) /\ before' \in Nat
        /\ key' # "PGDOWN"
    BY <1>1, <1>3 DEF Press
  <2> QED
    BY <2>1, <2>2 DEF Inv
<1>4. CASE KeyUp
  <2>1. CASE firstline > 0
    <3>1. firstline - 1 \in Nat /\ firstline - 1 <= lastline
          /\ lastline - 1 = (firstline - 1) + Page
      BY <1>1, <2>1
    <3> QED
      BY <1>3, <1>4, <2>1, <3>1 DEF KeyUp
  <2> QED
    BY <1>2, <1>4, <2>1 DEF KeyUp
<1>5. CASE KeyDown
  <2>1. CASE ~eof_flag
    <3>1. firstline + 1 \in Nat /\ firstline + 1 <= lastline
          /\ lastline + 1 = (firstline + 1) + Page
      BY <1>1
    <3> QED
      BY <1>3, <1>5, <2>1, <3>1 DEF KeyDown
  <2> QED
    BY <1>2, <1>5, <2>1 DEF KeyDown
<1>6. CASE KeyHome
  <2>1. 0 <= lastline /\ lastline - firstline = 0 + Page
    BY <1>1
  <2> QED
    BY <1>3, <1>6, <2>1 DEF KeyHome
<1>7. CASE KeyEnd
  BY <1>2, <1>7 DEF KeyEnd
<1>8. CASE KeyPgUp
  <2>1. CASE firstline > 0
    <3> DEFINE first == Max({firstline - Page, 0})
    <3>1. first \in Nat /\ first <= lastline
      <4>1. first = IF firstline - Page >= 0 THEN firstline - Page ELSE 0
        BY <1>1, LargerOfTwo
      <4> HIDE DEF first
      <4> QED
        BY <1>1, <4>1
    <3>2. Draw(first, first + Page)
      BY <1>8, <2>1 DEF KeyPgUp
    <3> HIDE DEF first
    <3> QED
      BY <1>3, <1>8, <3>1, <3>2 DEF KeyPgUp
  <2> QED
    BY <1>2, <1>8, <2>1 DEF KeyPgUp
<1>9. CASE KeyPgDown
  <2>1. CASE ~eof_flag
    <3>1. firstline + Page \in Nat /\ firstline + Page <= lastline
          /\ lastline + Page = (firstline + Page) + Page
      BY <1>1
    <3>2. Draw(firstline + Page, (firstline + Page) + Page) /\ Press("PGDOWN")
      BY <1>9, <2>1, <3>1 DEF KeyPgDown
    <3>3. Paged'
      BY <3>1, <3>2, DrawKeeps DEF Press
    <3>4. /\ text' \in Texts /\ count' = Len(Wrapped(text', Width)) /\ before' = firstline
          /\ firstline' = before' + Page /\ before' \in Nat
      BY <1>1, <3>2 DEF Press, Draw
    <3> QED
      BY <1>1, <3>3, <3>4 DEF Inv
  <2> QED
    BY <1>2, <1>9, <2>1 DEF KeyPgDown
<1>10. CASE UNCHANGED vars
  BY <1>10 DEF vars, Inv, Paged, Page
<1> QED
  BY <1>4, <1>5, <1>6, <1>7, <1>8, <1>9, <1>10 DEF Next

LEMMA Invariance == Spec => []Inv
BY InitInv, NextInv, PTL DEF Spec

\* Wrapping a text to the width of the screen shows every visible character of
\* it, once and in order, and cuts no word that fits on a line.
THEOREM LinesAreTheText == Spec => []WrapFaithful
<1>1. Inv => WrapFaithful
  <2> SUFFICES ASSUME Inv PROVE WrapFaithful
    OBVIOUS
  <2>1. text \in Clean /\ Width \in Nat \ {0} /\ text \in Seq(Char) /\ Len(text) \in Nat
    BY TextsClean, LenProperties DEF Inv, Clean
  <2>2. /\ Visible(Joined) = Visible(text)
        /\ Plain(text, Width) =>
             \A g : g # Len(Visible(text)) => (g \in Gaps(Joined) <=> g \in Gaps(text))
    <3>1. Says(Wrapped(text, Width), text, Width)
      BY <2>1, LinesSay
    <3>2. Joined = Joins(Wrapped(text, Width))
      BY DEF Joined, Joins
    <3> QED
      BY <3>1, <3>2, Zenon DEF Says
  <2>3. ~Indented /\ ~LongWord => Plain(text, Width)
    <3> SUFFICES ASSUME ~Indented, ~LongWord PROVE Plain(text, Width)
      OBVIOUS
    <3>1. \A k \in 1 .. Len(text) : text[k] = SPACE => k # 1 /\ text[k - 1] # LF
      BY DEF Indented
    <3>2. \A k \in 1 .. Len(text) - Width :
            \E m \in k .. k + Width : text[m] \in Separators
      BY DEF LongWord
    <3> QED
      BY <3>1, <3>2 DEF Plain
  <2> QED
    BY <2>2, <2>3 DEF WrapFaithful, NothingLost, WordsWhole
<1> QED
  BY <1>1, Invariance, PTL

\* When the forward keys have come to the end, no line has been skipped.
THEOREM NothingSkipped == Spec => []EndMeansAllSeen
<1>1. Inv => EndMeansAllSeen
  <2> SUFFICES ASSUME Inv, eof_flag PROVE seen = 0 .. count - 1
    BY DEF EndMeansAllSeen
  <2>1. PICK m \in Nat : lastline <= m /\ seen = {y \in 0 .. m : y < count}
    BY DEF Inv, Paged
  <2>2. count \in Nat /\ lastline \in Nat /\ count <= lastline
    <3>1. count \in Nat
      BY CountNat DEF Inv
    <3>2. firstline \in Nat /\ lastline = firstline + Page /\ eof_flag = (count <= lastline)
      BY DEF Inv, Paged
    <3>3. count <= lastline
      BY <3>2, Zenon
    <3> QED
      BY <3>1, <3>2, <3>3, PageSize
  <2> QED
    BY <2>1, <2>2
<1> QED
  BY <1>1, Invariance, PTL

\* A page up leads back to where the page down before it started.
THEOREM PageUpComesBack == Spec => PageUpUndoes
<1> DEFINE Undone == key = "PGDOWN" /\ firstline # before /\ key' = "PGUP"
                        => firstline' = before
<1>1. Inv /\ [Next]_vars => [Undone]_vars
  <2> SUFFICES ASSUME Inv, Next, key = "PGDOWN", firstline # before, key' = "PGUP"
               PROVE  firstline' = before
    OBVIOUS
  <2>1. KeyPgUp
    BY DEF Next, KeyUp, KeyDown, KeyHome, KeyEnd, KeyPgDown, Press
  <2>2. firstline = before + Page /\ before \in Nat /\ Page \in Nat /\ Page >= 1
    BY PageSize DEF Inv
  <2>3. firstline > 0 /\ firstline - Page = before /\ Max({firstline - Page, 0}) = before
    <3>1. firstline > 0 /\ firstline - Page = before
      BY <2>2
    <3>2. Max({before, 0}) = before
      BY <2>2, LargerOfTwo
    <3> QED
      BY <3>1, <3>2
  <2>4. Draw(before, before + Page)
    BY <2>1, <2>3 DEF KeyPgUp
  <2> QED
    BY <2>4 DEF Draw
<1> QED
  BY <1>1, Invariance, PTL DEF Spec, PageUpUndoes

-----------------------------------------------------------------------------
(* The first half: what is kept of the bytes of a page.                    *)

Symbol == STRING \cup {"sp", "lf", "_", "dot", "a", "b", "high"}

LEMMA Symbols ==
    /\ STRING \subseteq Symbol
    /\ "sp" \in Symbol /\ "lf" \in Symbol /\ "_" \in Symbol /\ "dot" \in Symbol
    /\ <<>> \in Seq(Symbol)
    /\ \A c \in Symbol : <<c>> \in Seq(Symbol)
<1>1. <<>> \in Seq(Symbol) /\ \A c \in Symbol : <<c>> \in Seq(Symbol)
  OBVIOUS
<1> QED
  BY <1>1 DEF Symbol

LEMMA TwoSymbols == ASSUME NEW a, NEW b PROVE <<a>> \o <<b>> = <<a, b>>
<1> DEFINE s == <<a>> \o <<b>>
           S == {a, b}
<1>1. <<a>> \in Seq(S) /\ Len(<<a>>) = 1 /\ <<b>> \in Seq(S) /\ Len(<<b>>) = 1
  OBVIOUS
<1>2. s \in Seq(S) /\ Len(s) = 2 /\ s[1] = a /\ s[2] = b
  BY <1>1, ConcatProperties
<1> HIDE DEF s, S
<1>3. s = <<a, b>>
  BY <1>2
<1> QED
  BY <1>3 DEF s

LEMMA WordsFacts ==
    /\ Words(<<>>) = <<>>
    /\ \A c \in Symbol : Words(<<c>>) = IF c \in Letters THEN <<c>> ELSE <<>>
    /\ \A s \in Seq(Symbol) : Words(s) \in Seq(Symbol)
    /\ \A s, t \in Seq(Symbol) : Words(s \o t) = Words(s) \o Words(t)
BY AmongFacts, Zenon DEF Words

LEMMA KeptFacts ==
    /\ Kept(<<>>) = <<>>
    /\ \A c \in Symbol : Kept(<<c>>) =
         IF c \in Letters \cup HighBytes \cup {"lf", "dot"} THEN <<c>> ELSE <<>>
    /\ \A s \in Seq(Symbol) : Kept(s) \in Seq(Symbol)
    /\ \A s, t \in Seq(Symbol) : Kept(s \o t) = Kept(s) \o Kept(t)
BY AmongFacts, Zenon DEF Kept

LEMMA SeeableFacts ==
    /\ Seeable(<<>>) = <<>>
    /\ \A c \in Symbol : Seeable(<<c>>) = IF c \in Unseen THEN <<>> ELSE <<c>>
    /\ \A s \in Seq(Symbol) : Seeable(s) \in Seq(Symbol)
    /\ \A s, t \in Seq(Symbol) : Seeable(s \o t) = Seeable(s) \o Seeable(t)
BY NotAmongFacts, Zenon DEF Seeable

-----------------------------------------------------------------------------
(* Where an element of the page is in the bytes of the cache.              *)

LEMMA PageTypes ==
    ASSUME txtformat \in DOMAIN Elements, page \in Seq(Elements[txtformat])
    PROVE  /\ page \in Seq(Seq(STRING)) /\ Len(page) \in Nat
           /\ cache \in Seq(STRING) /\ Len(cache) \in Nat
           /\ \A i \in 1 .. Len(page) : page[i] \in Elements[txtformat]
<1>1. Elements[txtformat] \subseteq Seq(STRING)
  BY TextFilterAssumption
<1>2. /\ Len(page) \in Nat /\ \A i \in 1 .. Len(page) : page[i] \in Elements[txtformat]
      /\ page = [i \in 1 .. Len(page) |-> page[i]]
  BY LenProperties, ElementOfSeq
<1>3. page \in [1 .. Len(page) -> Seq(STRING)]
  BY <1>1, <1>2
<1>4. page \in Seq(Seq(STRING))
  BY <1>2, <1>3, SeqDef
<1>5. FlattenSeq(page) \in Seq(STRING)
  BY <1>4, FlattenInSeq
<1> QED
  BY <1>2, <1>4, <1>5, LenProperties DEF cache, Bytes

-----------------------------------------------------------------------------
(* Raw text: what was copied is what was kept of the bytes looked at.      *)

FilterTypes ==
    /\ txtformat \in DOMAIN Elements /\ page \in Seq(Elements[txtformat])
    /\ x \in 0 .. Len(cache)
    /\ buffer \in Seq(Symbol)

RawSoFar ==
    txtformat = "RAW" =>
        IF done
        THEN Kept(SubSeq(cache, 1, x)) \in {Kept(buffer), Kept(buffer) \o <<"dot", "lf">>}
        ELSE Kept(SubSeq(cache, 1, x)) = Kept(buffer)

\* Without TABs and backspaces the buffer is what is visible of them.
RawSoFarExact ==
    txtformat = "RAW" /\ NoTabs =>
        IF done THEN Untrimmed(buffer, Seeable(SubSeq(cache, 1, x)))
        ELSE buffer = Seeable(SubSeq(cache, 1, x))

LEMMA EightSpaces ==
    LET spaces == [i \in 1 .. 8 |-> "sp"]
    IN  spaces \in Seq(Symbol) /\ Kept(spaces) = <<>>
<1> DEFINE one == <<"sp">>
           two == <<"sp", "sp">>
           four == <<"sp", "sp", "sp", "sp">>
           spaces == [i \in 1 .. 8 |-> "sp"]
<1>1. /\ "sp" \in Symbol /\ one \in Seq(Symbol) /\ two \in Seq(Symbol)
      /\ four \in Seq(Symbol)
  BY DEF Symbol
<1>2. two = one \o one /\ four = two \o two
  OBVIOUS
<1>3. spaces = four \o four
  <2> DEFINE c == four \o four
  <2>1. Len(four) = 4 /\ \A i \in 1 .. 4 : four[i] = "sp"
    OBVIOUS
  <2> HIDE DEF four
  <2>2. /\ c \in Seq(Symbol) /\ Len(c) = 8
        /\ \A i \in 1 .. 8 : c[i] = IF i <= 4 THEN four[i] ELSE four[i - 4]
    <3> \A s \in Seq(Symbol) :
          /\ s \o s \in Seq(Symbol) /\ Len(s \o s) = Len(s) + Len(s)
          /\ \A i \in 1 .. Len(s) + Len(s) :
               (s \o s)[i] = IF i <= Len(s) THEN s[i] ELSE s[i - Len(s)]
      BY ConcatProperties
    <3>1. /\ c \in Seq(Symbol) /\ Len(c) = Len(four) + Len(four)
          /\ \A i \in 1 .. Len(four) + Len(four) :
               c[i] = IF i <= Len(four) THEN four[i] ELSE four[i - Len(four)]
      BY <1>1, Zenon
    <3>2. 4 + 4 = 8
      OBVIOUS
    <3> QED
      BY <2>1, <3>1, <3>2
  <2> HIDE DEF c
  <2>3. \A i \in 1 .. 8 : c[i] = "sp"
    BY <2>1, <2>2
  <2>4. c = [i \in 1 .. Len(c) |-> c[i]]
    BY <2>2
  <2>5. c = spaces
    BY <2>2, <2>3, <2>4
  <2> QED
    BY <2>5 DEF c
<1>4. Kept(one) = <<>>
  BY <1>1, KeptFacts DEF Letters, HighBytes
<1> HIDE DEF one, two, four, spaces
<1>5. /\ Kept(two) = Kept(one) \o Kept(one) /\ Kept(four) = Kept(two) \o Kept(two)
      /\ Kept(spaces) = Kept(four) \o Kept(four)
  BY <1>1, <1>2, <1>3, KeptFacts, Zenon
<1>6. <<>> \o <<>> = <<>>
  OBVIOUS
<1>7. spaces \in Seq(Symbol)
  BY <1>1, <1>3, ConcatProperties
<1> QED
  BY <1>4, <1>5, <1>6, <1>7 DEF spaces

LEMMA RawBytesFacts ==
    ASSUME NEW byte \in STRING
    PROVE  RawBytes(byte) \in Seq(Symbol) /\ Kept(RawBytes(byte)) = Kept(<<byte>>)
<1>1. byte \in Symbol /\ <<byte>> \in Seq(Symbol) /\ <<>> \in Seq(Symbol)
  BY Symbols
<1> DEFINE Set == Letters \cup HighBytes \cup {"lf", "dot"}
<1>2. Kept(<<>>) = <<>> /\ Kept(<<byte>>) = IF byte \in Set THEN <<byte>> ELSE <<>>
  BY <1>1, KeptFacts
<1>3. CASE byte = "bs"
  <2>1. RawBytes(byte) = [i \in 1 .. 8 |-> "sp"]
    BY <1>3 DEF RawBytes
  <2>2. byte \notin Set
    BY <1>3 DEF Letters, HighBytes
  <2> QED
    BY <1>2, <2>1, <2>2, EightSpaces
<1>4. CASE byte \in Deleted \cup {"cr"} \cup Controls \cup {"tab"} /\ byte # "bs"
  <2>1. RawBytes(byte) = <<>>
    BY <1>4 DEF RawBytes
  <2>2. byte \notin Set
    BY <1>4 DEF Letters, HighBytes, Deleted, Controls
  <2> QED
    BY <1>1, <1>2, <2>1, <2>2
<1>5. CASE byte \notin Deleted \cup {"cr"} \cup Controls \cup {"tab"} /\ byte # "bs"
  <2>1. RawBytes(byte) = <<byte>>
    BY <1>5 DEF RawBytes
  <2> QED
    BY <1>1, <2>1
<1> QED
  BY <1>3, <1>4, <1>5

LEMMA OneByte ==
    ASSUME FilterTypes, x < Len(cache)
    PROVE  /\ Byte \in STRING /\ x + 1 \in 0 .. Len(cache)
           /\ SubSeq(cache, 1, x) \in Seq(Symbol)
           /\ SubSeq(cache, 1, x + 1) = SubSeq(cache, 1, x) \o <<Byte>>
<1> DEFINE n == Len(cache)
<1>1. cache \in Seq(STRING) /\ n \in Nat /\ x \in Nat /\ x + 1 \in 1 .. n
  BY PageTypes DEF FilterTypes
<1>2. Byte \in STRING
  BY <1>1, ElementOfSeq DEF Byte
<1>3. /\ 1 \in 1 .. n + 1 /\ x + 1 \in 1 - 1 .. n /\ x \in 1 - 1 .. x + 1
      /\ x \in 1 - 1 .. n
      /\ x + 1 \in 1 .. n + 1 /\ x + 1 \in (x + 1) - 1 .. n
      /\ (x + 1) - (x + 1) + 1 = 1 /\ (x + 1) + 1 - 1 = x + 1 /\ 1 \in 1 .. 1
  BY <1>1
<1>4. SubSeq(cache, 1, x + 1) = SubSeq(cache, 1, x) \o SubSeq(cache, x + 1, x + 1)
  BY <1>1, <1>3, SubSeqSplit
<1> DEFINE one == SubSeq(cache, x + 1, x + 1)
<1>5. one \in Seq(STRING) /\ Len(one) = 1 /\ one[1] = cache[x + 1]
  BY <1>1, <1>3, SubSeqFacts
<1>6. one = <<Byte>>
  <2> HIDE DEF one
  <2> QED
    BY <1>5 DEF Byte
<1>7. SubSeq(cache, 1, x) \in Seq(STRING)
  BY <1>1, <1>3, SubSeqFacts
<1>8. \A s \in Seq(STRING) : s \in Seq(Symbol)
  BY Symbols, SeqMonotonic
<1>9. x + 1 \in 0 .. n
  BY <1>1
<1> HIDE DEF one
<1> QED
  BY <1>2, <1>4, <1>6, <1>7, <1>8, <1>9 DEF one

LEMMA RawByteKeeps ==
    ASSUME FilterTypes, RawSoFar, RawByte
    PROVE  FilterTypes' /\ RawSoFar'
<1>1. /\ txtformat = "RAW" /\ ~done /\ x < Len(cache)
      /\ buffer' = buffer \o RawBytes(Byte) /\ x' = x + 1
      /\ UNCHANGED <<txtformat, page, done>>
  BY DEF RawByte, Looking, Emit, Advance, given
<1>2. cache' = cache
  BY <1>1 DEF cache, Bytes
<1>3. /\ Byte \in STRING /\ x + 1 \in 0 .. Len(cache)
      /\ SubSeq(cache, 1, x) \in Seq(Symbol)
      /\ SubSeq(cache, 1, x + 1) = SubSeq(cache, 1, x) \o <<Byte>>
  BY <1>1, OneByte
<1>4. RawBytes(Byte) \in Seq(Symbol) /\ Kept(RawBytes(Byte)) = Kept(<<Byte>>)
  BY <1>3, RawBytesFacts
<1>5. buffer \in Seq(Symbol) /\ <<Byte>> \in Seq(Symbol)
  BY <1>3, Symbols DEF FilterTypes
<1>6. Kept(SubSeq(cache, 1, x)) = Kept(buffer)
  BY <1>1 DEF RawSoFar
<1>7. Kept(SubSeq(cache, 1, x + 1)) = Kept(buffer \o RawBytes(Byte))
  <2>1. Kept(SubSeq(cache, 1, x) \o <<Byte>>) = Kept(SubSeq(cache, 1, x)) \o Kept(<<Byte>>)
    BY <1>3, <1>5, KeptFacts, Zenon
  <2>2. Kept(buffer \o RawBytes(Byte)) = Kept(buffer) \o Kept(RawBytes(Byte))
    BY <1>4, <1>5, KeptFacts, Zenon
  <2> QED
    BY <1>3, <1>4, <1>6, <2>1, <2>2
<1>8. FilterTypes'
  BY <1>1, <1>2, <1>3, <1>4, <1>5, ConcatProperties DEF FilterTypes
<1>9. Kept(SubSeq(cache, 1, x))' = Kept(buffer)'
  <2>1. Kept(SubSeq(cache, 1, x))' = Kept(SubSeq(cache, 1, x + 1))
    BY <1>1, <1>2 DEF Kept
  <2>2. Kept(buffer)' = Kept(buffer \o RawBytes(Byte))
    BY <1>1 DEF Kept
  <2> QED
    BY <1>7, <2>1, <2>2
<1> QED
  BY <1>1, <1>8, <1>9 DEF RawSoFar

LEMMA RawEndKeeps ==
    ASSUME FilterTypes, RawSoFar, RawEnd
    PROVE  FilterTypes' /\ RawSoFar'
<1>1. /\ txtformat = "RAW" /\ ~done /\ done'
      /\ buffer' = IF EndsWithDot THEN SubSeq(buffer, 1, Len(buffer) - 2) ELSE buffer
      /\ x' = x /\ UNCHANGED <<txtformat, page>>
  BY DEF RawEnd, given
<1>2. cache' = cache
  BY <1>1 DEF cache, Bytes
<1>3. buffer \in Seq(Symbol) /\ Kept(SubSeq(cache, 1, x)) = Kept(buffer)
  BY <1>1 DEF FilterTypes, RawSoFar
<1>4. CASE ~EndsWithDot
  <2>1. buffer' = buffer
    BY <1>1, <1>4
  <2>2. Kept(SubSeq(cache, 1, x))' = Kept(SubSeq(cache, 1, x)) /\ Kept(buffer)' = Kept(buffer)
    BY <1>1, <1>2, <2>1 DEF Kept
  <2> QED
    BY <1>1, <1>2, <1>3, <2>1, <2>2 DEF FilterTypes, RawSoFar
<1>5. CASE EndsWithDot
  <2> DEFINE n == Len(buffer)
             rest == SubSeq(buffer, 1, n - 2)
             end == SubSeq(buffer, (n - 2) + 1, n)
  <2>1. n \in Nat /\ n >= 2 /\ buffer[n] = "lf" /\ buffer[n - 1] = "dot"
    BY <1>3, <1>5, LenProperties DEF EndsWithDot
  <2>2. /\ 1 \in 1 .. n + 1 /\ n - 2 \in 1 - 1 .. n /\ n \in 1 - 1 .. n
        /\ (n - 2) + 1 \in 1 .. n + 1 /\ n \in ((n - 2) + 1) - 1 .. n
        /\ n - ((n - 2) + 1) + 1 = 2
        /\ ((n - 2) + 1) + 1 - 1 = n - 1 /\ ((n - 2) + 1) + 2 - 1 = n
        /\ 1 \in 1 .. 2 /\ 2 \in 1 .. 2
    BY <2>1
  <2>3. rest \in Seq(Symbol)
    BY <1>3, <2>2, SubSeqFacts
  <2>4. end \in Seq(Symbol) /\ Len(end) = 2 /\ end[1] = "dot" /\ end[2] = "lf"
    BY <1>3, <2>1, <2>2, SubSeqFacts
  <2>5. buffer = rest \o end
    <3>1. SubSeq(buffer, 1, n) = rest \o end
      BY <1>3, <2>2, SubSeqSplit
    <3>2. SubSeq(buffer, 1, n) = buffer
      BY <1>3, SubSeqFull
    <3> QED
      BY <3>1, <3>2
  <2>6. buffer' = rest
    BY <1>1, <1>5
  <2> HIDE DEF rest, end
  <2>7. end = <<"dot">> \o <<"lf">>
    BY <2>4
  <2>8. /\ "dot" \in Symbol /\ "lf" \in Symbol
        /\ <<"dot">> \in Seq(Symbol) /\ <<"lf">> \in Seq(Symbol)
    BY Symbols
  <2>9. Kept(<<"dot">>) = <<"dot">> /\ Kept(<<"lf">>) = <<"lf">>
    BY <2>8, KeptFacts
  <2>10. Kept(buffer) = Kept(rest) \o <<"dot", "lf">>
    <3>1. Kept(end) = <<"dot">> \o <<"lf">>
      BY <2>7, <2>8, <2>9, KeptFacts
    <3>2. <<"dot">> \o <<"lf">> = <<"dot", "lf">>
      BY TwoSymbols
    <3> QED
      BY <2>3, <2>4, <2>5, <3>1, <3>2, KeptFacts
  <2>11. Kept(SubSeq(cache, 1, x))' = Kept(SubSeq(cache, 1, x)) /\ Kept(buffer)' = Kept(rest)
    BY <1>1, <1>2, <2>6 DEF Kept
  <2> QED
    BY <1>1, <1>2, <1>3, <2>3, <2>6, <2>10, <2>11 DEF FilterTypes, RawSoFar
<1> QED
  BY <1>4, <1>5

LEMMA RawByteKeepsExact ==
    ASSUME FilterTypes, RawSoFarExact, RawByte
    PROVE  RawSoFarExact'
<1>1. /\ txtformat = "RAW" /\ ~done /\ x < Len(cache)
      /\ buffer' = buffer \o RawBytes(Byte) /\ x' = x + 1
      /\ UNCHANGED <<txtformat, page, done>>
  BY DEF RawByte, Looking, Emit, Advance, given
<1>2. cache' = cache
  BY <1>1 DEF cache, Bytes
<1>3. /\ Byte \in STRING /\ SubSeq(cache, 1, x) \in Seq(Symbol)
      /\ SubSeq(cache, 1, x + 1) = SubSeq(cache, 1, x) \o <<Byte>>
  BY <1>1, OneByte
<1>4. Byte \in Symbol /\ <<Byte>> \in Seq(Symbol)
  BY <1>3, Symbols
<1> SUFFICES ASSUME NoTabs' PROVE buffer' = Seeable(SubSeq(cache, 1, x))'
  BY <1>1 DEF RawSoFarExact
<1>5. NoTabs /\ Byte \notin {"tab", "bs"}
  <2>1. x \in Nat
    BY <1>1, PageTypes DEF FilterTypes
  <2>2. \A i \in 1 .. x + 1 : cache[i] \notin {"tab", "bs"}
    BY <1>1, <1>2 DEF NoTabs
  <2>3. x + 1 \in 1 .. x + 1 /\ \A i \in 1 .. x : i \in 1 .. x + 1
    BY <2>1
  <2> QED
    BY <2>2, <2>3 DEF NoTabs, Byte
<1>6. buffer = Seeable(SubSeq(cache, 1, x))
  BY <1>1, <1>5 DEF RawSoFarExact
<1>7. RawBytes(Byte) = Seeable(<<Byte>>)
  <2>1. Seeable(<<Byte>>) = IF Byte \in Unseen THEN <<>> ELSE <<Byte>>
    BY <1>4, SeeableFacts
  <2>2. RawBytes(Byte) = IF Byte \in Unseen THEN <<>> ELSE <<Byte>>
    BY <1>5 DEF RawBytes, Unseen
  <2> QED
    BY <2>1, <2>2
<1>8. Seeable(SubSeq(cache, 1, x + 1)) = buffer \o RawBytes(Byte)
  <2>1. Seeable(SubSeq(cache, 1, x) \o <<Byte>>)
          = Seeable(SubSeq(cache, 1, x)) \o Seeable(<<Byte>>)
    BY <1>3, <1>4, SeeableFacts, Zenon
  <2> QED
    BY <1>3, <1>6, <1>7, <2>1
<1>9. Seeable(SubSeq(cache, 1, x))' = Seeable(SubSeq(cache, 1, x + 1))
  BY <1>1, <1>2 DEF Seeable
<1> QED
  BY <1>1, <1>8, <1>9

LEMMA RawEndKeepsExact ==
    ASSUME FilterTypes, RawSoFarExact, RawEnd
    PROVE  RawSoFarExact'
<1>1. /\ txtformat = "RAW" /\ ~done /\ done'
      /\ buffer' = IF EndsWithDot THEN SubSeq(buffer, 1, Len(buffer) - 2) ELSE buffer
      /\ x' = x /\ UNCHANGED <<txtformat, page>>
  BY DEF RawEnd, given
<1>2. cache' = cache
  BY <1>1 DEF cache, Bytes
<1> DEFINE said == Seeable(SubSeq(cache, 1, x))
<1> SUFFICES ASSUME NoTabs' PROVE Untrimmed(buffer', said)
  <2>1. said' = said
    BY <1>1, <1>2 DEF Seeable
  <2> HIDE DEF said
  <2>2. Untrimmed(buffer', said) => Untrimmed(buffer, said)'
    BY <2>1 DEF Untrimmed, EndsInDot
  <2> QED
    BY <1>1, <2>2 DEF RawSoFarExact, said
<1>3. buffer = said
  BY <1>1, <1>2 DEF RawSoFarExact, NoTabs
<1>4. Len(buffer) \in Nat
  BY LenProperties DEF FilterTypes
<1> HIDE DEF said
<1> QED
  BY <1>1, <1>3, <1>4 DEF Untrimmed, EndsWithDot, EndsInDot

-----------------------------------------------------------------------------
(* HTML: what is done with one byte, and what an element comes to.         *)

\* What the actions make of byte b, in the order of the code.
Reads(b) ==
    IF insidescript /\ token = Closed /\ b # "<"
    THEN UNCHANGED <<buffer, token, special, insidescript, insidebody>>
    ELSE IF b = "<"
    THEN token' = <<>> /\ UNCHANGED <<buffer, special, insidescript, insidebody>>
    ELSE IF token # Closed
    THEN /\ special' = special
         /\ IF b = ">"
            THEN /\ token' = Closed
                 /\ buffer' \in {buffer, buffer \o <<"lf">>}
                 /\ insidescript' = (Name = "script"
                                       \/ (insidescript /\ Name # "/script"))
                 /\ insidebody' = (insidebody \/ Name = "body")
            ELSE /\ token' = Longer(token, IF b \in Whitespace THEN "nul" ELSE b)
                 /\ UNCHANGED <<buffer, insidescript, insidebody>>
    ELSE /\ UNCHANGED <<token, insidescript, insidebody>>
         /\ IF b \in Whitespace \cup {">"}
            THEN special' = special /\ buffer' \in {buffer, buffer \o <<"sp">>}
            ELSE IF special = Closed /\ b = "&"
            THEN special' = <<>> /\ buffer' = buffer
            ELSE IF InEntity
            THEN IF b = "semi"
                 THEN /\ special' = Closed
                      /\ buffer' \in {buffer \o <<"sp">>, buffer \o <<"_">>}
                 ELSE special' = Append(special, b) /\ buffer' = buffer
            ELSE /\ special' = special
                 /\ buffer' = IF b \in Controls \cup HighBytes \/ ~insidebody
                              THEN buffer ELSE buffer \o <<b>>

ReadsByte ==
    /\ ~done /\ x < Len(cache)
    /\ x' = x + 1 /\ UNCHANGED <<txtformat, page, done>>
    /\ Reads(Byte)

LEMMA HtmlReads ==
    ASSUME buffer \in Seq(Symbol), FilterNext, txtformat = "HTM"
    PROVE  HtmlEnd \/ ReadsByte
<1>1. buffer \o <<>> = buffer
  BY ConcatEmptySeq
<1>2. txtformat # "RAW"
  OBVIOUS
<1> DEFINE Steps == /\ ~done /\ x < Len(cache)
                    /\ x' = x + 1 /\ UNCHANGED <<txtformat, page, done>>
<1>3. ASSUME HtmlByte, Advance PROVE Steps
  BY <1>3 DEF HtmlByte, Looking, Advance, given
<1>4. CASE ScriptByte
  BY <1>4, <1>3 DEF ScriptByte, Skipped, InTag, html, Reads, ReadsByte
<1>5. CASE HtmlSpace
  <2>1. Steps /\ Byte \in Whitespace /\ Byte # "<" /\ Byte # ">"
        /\ ~(insidescript /\ token = Closed /\ Byte # "<")
    BY <1>5, <1>3 DEF HtmlSpace, Whitespace, Skipped, InTag
  <2>2. UNCHANGED <<special, insidescript, insidebody>>
    BY <1>5 DEF HtmlSpace
  <2>3. CASE token # Closed
    <3>1. token' = Longer(token, "nul") /\ buffer' = buffer
      BY <1>5, <2>3 DEF HtmlSpace, InTag
    <3> QED
      BY <2>1, <2>2, <2>3, <3>1 DEF Reads, ReadsByte
  <2>4. CASE token = Closed
    <3>1. token' = token /\ buffer' \in {buffer, buffer \o <<"sp">>}
      BY <1>1, <1>5, <2>4 DEF HtmlSpace, InTag, Emit
    <3> QED
      BY <2>1, <2>2, <2>4, <3>1 DEF Reads, ReadsByte
  <2> QED
    BY <2>3, <2>4
<1>6. CASE TagOpens
  BY <1>6, <1>3 DEF TagOpens, Reads, ReadsByte
<1>7. CASE TagCloses
  <2>1. Steps /\ Byte = ">" /\ token # Closed
    BY <1>7, <1>3 DEF TagCloses, InTag
  <2>2. buffer' \in {buffer, buffer \o <<"lf">>}
    BY <1>1, <1>7 DEF TagCloses, Emit
  <2>3. /\ insidescript' = (Name = "script" \/ (insidescript /\ Name # "/script"))
        /\ insidebody' = (insidebody \/ Name = "body")
        /\ token' = Closed /\ special' = special
    BY <1>7, Zenon DEF TagCloses
  <2>4. ">" # "<"
    OBVIOUS
  <2> QED
    BY <2>1, <2>2, <2>3, <2>4, Zenon DEF Reads, ReadsByte
<1>8. CASE StrayGreater
  <2>1. Steps /\ Byte = ">" /\ Byte # "<" /\ token = Closed
    BY <1>8, <1>3 DEF StrayGreater, InTag
  <2>2. ~(insidescript /\ token = Closed /\ Byte # "<")
    BY <1>8 DEF StrayGreater, Skipped, InTag
  <2>3. UNCHANGED <<buffer, token, special, insidescript, insidebody>>
    BY <1>8 DEF StrayGreater
  <2> QED
    BY <2>1, <2>2, <2>3 DEF Reads, ReadsByte
<1>9. ASSUME Other
      PROVE  /\ Steps /\ Byte \notin Whitespace /\ Byte # "<" /\ Byte # ">"
             /\ ~(insidescript /\ token = Closed /\ Byte # "<")
             /\ UNCHANGED <<insidescript, insidebody>>
  BY <1>9, <1>3 DEF Other, Skipped, InTag
<1>10. CASE TagByte
  <2>1. token # Closed /\ token' = Longer(token, Byte) /\ UNCHANGED <<buffer, special>>
    BY <1>10 DEF TagByte, InTag
  <2> QED
    BY <1>9, <1>10, <2>1 DEF TagByte, Reads, ReadsByte
<1>11. CASE EntityOpens
  <2>1. /\ token = Closed /\ special = Closed /\ Byte = "&" /\ special' = <<>>
        /\ UNCHANGED <<buffer, token>>
    BY <1>11 DEF EntityOpens, InTag
  <2> QED
    BY <1>9, <1>11, <2>1 DEF EntityOpens, Reads, ReadsByte
<1>12. CASE EntityByte
  <2>1. /\ token = Closed /\ InEntity /\ Byte # "semi" /\ special' = Append(special, Byte)
        /\ special # Closed /\ UNCHANGED <<buffer, token>>
    BY <1>12 DEF EntityByte, InTag, InEntity
  <2> QED
    BY <1>9, <1>12, <2>1 DEF EntityByte, Reads, ReadsByte
<1>13. CASE EntityCloses
  <2>1. /\ token = Closed /\ InEntity /\ Byte = "semi" /\ special' = Closed
        /\ special # Closed /\ token' = token
        /\ buffer' \in {buffer \o <<"sp">>, buffer \o <<"_">>}
    BY <1>13 DEF EntityCloses, InTag, InEntity, Emit
  <2> QED
    BY <1>9, <1>13, <2>1 DEF EntityCloses, Reads, ReadsByte
<1>14. CASE Text
  <2>1. /\ token = Closed /\ ~InEntity /\ ~(special = Closed /\ Byte = "&")
        /\ UNCHANGED <<token, special>>
    BY <1>14 DEF Text, InTag
  <2>2. buffer' = IF Byte \in Controls \cup HighBytes \/ ~insidebody
                  THEN buffer ELSE buffer \o <<Byte>>
    BY <1>1, <1>14 DEF Text, Emit
  <2> QED
    BY <1>9, <1>14, <2>1, <2>2 DEF Text, Reads, ReadsByte
<1> QED
  BY <1>2, <1>4, <1>5, <1>6, <1>7, <1>8, <1>10, <1>11, <1>12, <1>13, <1>14
  DEF FilterNext, RawByte, RawEnd

-----------------------------------------------------------------------------
(* Between two elements, and within each kind of them.                     *)

TokenChar == STRING \cup {"nul"}
NameOf(c) == IF c \in Whitespace THEN "nul" ELSE c

Outside == token = Closed /\ special = Closed /\ insidescript = FALSE

\* j bytes of a tag were read.
Named(e, j) ==
    /\ token \in Seq(TokenChar) /\ token # Closed
    /\ IF j = 1 THEN token = <<>> ELSE token # <<>> /\ token[1] = NameOf(e[2])

WithinTag(e, j) == special = Closed /\ insidescript = FALSE /\ Named(e, j)

ScriptCut(e, m) ==
    /\ m \in 3 .. Len(e) - 3 /\ e[m] = ">"
    /\ \A i \in 3 .. m - 1 : e[i] \notin {"<", ">"}
    /\ \A i \in m + 1 .. Len(e) - 3 : e[i] # "<"
WithinScript(e, j) ==
    /\ special = Closed
    /\ \E m \in Nat :
         /\ ScriptCut(e, m)
         /\ IF j < m THEN insidescript = FALSE /\ Named(e, j)
            ELSE /\ insidescript = TRUE
                 /\ token = IF j <= Len(e) - 3 THEN Closed
                            ELSE IF j = Len(e) - 2 THEN <<>> ELSE <<"/script">>

WithinEntity(e, j) ==
    token = Closed /\ insidescript = FALSE /\ special = SubSeq(e, 2, j)

Within(e, j) ==
    \/ IsTag(e) /\ WithinTag(e, j)
    \/ IsScript(e) /\ WithinScript(e, j)
    \/ IsEntity(e) /\ WithinEntity(e, j)

HtmlElement(e) ==
    /\ e \in Seq(STRING) /\ "none" \notin ToSet(e)
    /\ IsText(e) \/ IsTag(e) \/ IsScript(e) \/ IsEntity(e)

\* What an element adds to the words shown.
Worth(e) == IF insidebody /\ IsText(e) THEN Words(e) ELSE <<>>

\* After one more byte of e.
Passed(e, j) ==
    /\ buffer' \in Seq(Symbol)
    /\ IF j + 1 = Len(e)
       THEN /\ Outside' /\ insidebody' = (insidebody \/ OpensBody(e))
            /\ Words(buffer') = Words(buffer) \o Worth(e)
       ELSE /\ Within(e, j + 1)' /\ insidebody' = insidebody
            /\ Words(buffer') = Words(buffer)

LEMMA NameLength == NAMELEN \in Nat /\ NAMELEN >= 1
BY TextFilterAssumption

LEMMA ElementBytes ==
    ASSUME NEW e, HtmlElement(e)
    PROVE  /\ Len(e) \in Nat /\ Len(e) >= 1
           /\ \A i \in 1 .. Len(e) : e[i] \in STRING /\ e[i] # "none"
<1>1. Len(e) \in Nat /\ DOMAIN e = 1 .. Len(e)
  BY LenProperties DEF HtmlElement
<1>2. Len(e) >= 1
  <2>1. IsText(e) \/ IsTag(e) \/ IsScript(e) => Len(e) >= 1
    BY <1>1 DEF IsText, IsTag, IsScript
  <2>2. ASSUME IsEntity(e) PROVE Len(e) >= 1
    <3>1. Len(e) \in 2 .. NAMELEN + 1
      BY <2>2, Zenon DEF IsEntity
    <3> QED
      BY <1>1, <3>1, NameLength
  <2> QED
    BY <2>1, <2>2 DEF HtmlElement
<1>3. \A i \in 1 .. Len(e) : e[i] \in STRING
  BY ElementOfSeq DEF HtmlElement
<1>4. \A i \in 1 .. Len(e) : e[i] # "none"
  BY <1>1 DEF HtmlElement, ToSet
<1> QED
  BY <1>1, <1>2, <1>3, <1>4

LEMMA BlankBytes ==
    ASSUME NEW s \in Seq(Symbol), NEW c \in {"sp", "lf", "_"}
    PROVE  s \o <<c>> \in Seq(Symbol) /\ Words(s \o <<c>>) = Words(s)
<1>1. c \in Symbol /\ <<c>> \in Seq(Symbol) /\ c \notin Letters
  BY Symbols DEF Letters
<1>2. Words(<<c>>) = <<>> /\ Words(s) \in Seq(Symbol)
  BY <1>1, WordsFacts
<1>3. Words(s \o <<c>>) = Words(s) \o Words(<<c>>)
  BY <1>1, WordsFacts, Zenon
<1>4. Words(s) \o <<>> = Words(s)
  BY <1>2, ConcatEmptySeq
<1>5. s \o <<c>> \in Seq(Symbol)
  BY <1>1, ConcatProperties
<1> QED
  BY <1>2, <1>3, <1>4, <1>5

LEMMA ClosedIsShort == Closed # <<>> /\ Len(Closed) = 1 /\ Closed[1] = "none"
BY DEF Closed

LEMMA LongerFacts ==
    ASSUME NEW t \in Seq(TokenChar), t # Closed, NEW c \in TokenChar, c # "none"
    PROVE  /\ Longer(t, c) \in Seq(TokenChar) /\ Longer(t, c) # Closed
           /\ Longer(t, c) # <<>>
           /\ Longer(t, c)[1] = IF t = <<>> THEN c ELSE t[1]
<1> DEFINE u == Append(t, c)
<1>1. /\ u \in Seq(TokenChar) /\ Len(u) = Len(t) + 1 /\ u[Len(t) + 1] = c
      /\ \A i \in 1 .. Len(t) : u[i] = t[i]
      /\ Len(t) \in Nat
  BY AppendProperties, LenProperties
<1>2. Longer(t, c) = IF Len(t) < NAMELEN THEN u ELSE t
  BY DEF Longer
<1> HIDE DEF u
<1>3. CASE t = <<>>
  <2>1. Len(t) = 0 /\ 0 < NAMELEN
    BY <1>3, NameLength
  <2>2. u[1] = c /\ Len(u) = 1
    BY <1>1, <2>1
  <2> QED
    BY <1>1, <1>2, <1>3, <2>1, <2>2, ClosedIsShort
<1>4. CASE t # <<>>
  <2>1. Len(t) >= 1
    BY <1>1, <1>4, EmptySeq
  <2>2. u[1] = t[1] /\ Len(u) # 1 /\ Len(u) # 0
    BY <1>1, <2>1
  <2>3. u # <<>> /\ u # Closed
    BY <2>2, ClosedIsShort
  <2> QED
    BY <1>1, <1>2, <1>4, <2>2, <2>3
<1> QED
  BY <1>3, <1>4

\* A byte is no other byte.
LEMMA TextPasses ==
    ASSUME NEW e, HtmlElement(e), IsText(e), Outside, Reads(e[1]),
           buffer \in Seq(Symbol), insidebody \in BOOLEAN
    PROVE  Passed(e, 0)
<1>1. Len(e) = 1 /\ e[1] # "<" /\ e[1] # "&" /\ e[1] \in STRING /\ e = <<e[1]>>
  <2>1. Len(e) = 1 /\ e[1] # "<" /\ e[1] # "&" /\ 1 \in 1 .. Len(e)
    BY DEF IsText
  <2> QED
    BY <2>1, ElementBytes DEF HtmlElement
<1>2. PICK b \in STRING : b = e[1]
  BY <1>1
<1>3. e = <<b>> /\ b # "<" /\ b # "&" /\ b \in Symbol /\ <<b>> \in Seq(Symbol)
  BY <1>1, <1>2, Symbols
<1>4. ~IsTag(e)
  BY <1>1 DEF IsTag
<1>5. /\ token = Closed /\ special = Closed /\ insidescript = FALSE
      /\ Reads(b)
  BY <1>2 DEF Outside
<1>6. ~InEntity
  BY <1>5 DEF InEntity
<1>7. /\ UNCHANGED <<token, special, insidescript, insidebody>>
      /\ \/ b \in Whitespace \cup {">"} /\ buffer' \in {buffer, buffer \o <<"sp">>}
         \/ /\ b \notin Whitespace \cup {">"}
            /\ buffer' = IF b \in Controls \cup HighBytes \/ ~insidebody
                         THEN buffer ELSE buffer \o <<b>>
  BY <1>3, <1>5, <1>6 DEF Reads
<1>8. Words(<<b>>) = IF b \in Letters THEN <<b>> ELSE <<>>
  BY <1>3, WordsFacts
<1>9. Words(buffer) \in Seq(Symbol) /\ Words(buffer) \o <<>> = Words(buffer)
  BY WordsFacts, ConcatEmptySeq
<1>10. Worth(e) = IF insidebody THEN Words(<<b>>) ELSE <<>>
  BY <1>3 DEF Worth
<1>11. buffer' \in Seq(Symbol) /\ Words(buffer') = Words(buffer) \o Worth(e)
  <2>1. CASE b \in Whitespace \cup {">"}
    <3>1. b \notin Letters
      BY <2>1 DEF Letters, Whitespace
    <3>2. buffer' \in Seq(Symbol) /\ Words(buffer') = Words(buffer)
      BY <1>7, <2>1, BlankBytes
    <3> QED
      BY <1>8, <1>9, <1>10, <3>1, <3>2
  <2>2. CASE b \notin Whitespace \cup {">"} /\ (b \in Controls \cup HighBytes \/ ~insidebody)
    <3>1. b \in Letters => ~insidebody
      BY <2>2 DEF Letters, Controls, HighBytes
    <3>2. buffer' = buffer
      BY <1>7, <2>2
    <3> QED
      BY <1>8, <1>9, <1>10, <3>1, <3>2
  <2>3. CASE b \notin Whitespace \cup {">"} /\ ~(b \in Controls \cup HighBytes \/ ~insidebody)
    <3>1. buffer' = buffer \o <<b>> /\ insidebody
      BY <1>7, <2>3
    <3>2. Words(buffer \o <<b>>) = Words(buffer) \o Words(<<b>>)
      BY <1>3, WordsFacts, Zenon
    <3>3. buffer \o <<b>> \in Seq(Symbol)
      BY <1>3, ConcatProperties
    <3> QED
      BY <1>10, <3>1, <3>2, <3>3
  <2> QED
    BY <2>1, <2>2, <2>3
<1>12. Outside' /\ insidebody' = (insidebody \/ OpensBody(e))
  <2>1. ~OpensBody(e)
    BY <1>4 DEF OpensBody
  <2>2. Outside'
    BY <1>5, <1>7 DEF Outside, Closed
  <2>3. insidebody' = insidebody
    BY <1>7
  <2> QED
    BY <2>1, <2>2, <2>3
<1> QED
  BY <1>1, <1>11, <1>12 DEF Passed

\* Reading on in the name and the attributes of a tag.
LEMMA NameGoesOn ==
    ASSUME NEW e, HtmlElement(e), NEW j \in 1 .. Len(e) - 1, Named(e, j),
           token' = Longer(token, NameOf(e[j + 1]))
    PROVE  Named(e, j + 1)'
<1>1. Len(e) \in Nat /\ j \in Nat /\ j + 1 \in 1 .. Len(e) /\ j + 1 # 1
  BY ElementBytes
<1>2. e[j + 1] \in STRING /\ e[j + 1] # "none"
  BY <1>1, ElementBytes
<1>3. PICK c \in TokenChar : c = NameOf(e[j + 1]) /\ c # "none"
  BY <1>2 DEF NameOf, TokenChar
<1>4. token \in Seq(TokenChar) /\ token # Closed
  BY DEF Named
<1>5. /\ Longer(token, c) \in Seq(TokenChar) /\ Longer(token, c) # Closed
      /\ Longer(token, c) # <<>>
      /\ Longer(token, c)[1] = IF token = <<>> THEN c ELSE token[1]
  BY <1>3, <1>4, LongerFacts
<1>6. Longer(token, c)[1] = NameOf(e[2])
  <2>1. CASE j = 1
    <3>1. token = <<>> /\ j + 1 = 2
      BY <2>1 DEF Named
    <3> QED
      BY <1>3, <1>5, <3>1
  <2>2. CASE j # 1
    BY <1>5, <2>2 DEF Named
  <2> QED
    BY <2>1, <2>2
<1>7. token' = Longer(token, c)
  BY <1>3
<1> QED
  BY <1>1, <1>5, <1>6, <1>7 DEF Named, Closed

LEMMA TagPasses ==
    ASSUME NEW e, HtmlElement(e), IsTag(e), NEW j \in 0 .. Len(e) - 1,
           IF j = 0 THEN Outside ELSE WithinTag(e, j),
           Reads(e[j + 1]), buffer \in Seq(Symbol), insidebody \in BOOLEAN
    PROVE  Passed(e, j)
<1>1. /\ Len(e) \in Nat /\ Len(e) >= 2 /\ j \in Nat /\ j + 1 \in 1 .. Len(e)
      /\ e[1] = "<" /\ e[Len(e)] = ">" /\ e[2] # "script"
      /\ \A i \in 2 .. Len(e) - 1 : e[i] \notin {"<", ">"}
      /\ \A i \in 1 .. Len(e) : e[i] \in STRING
  BY ElementBytes DEF IsTag
<1>2. ~IsText(e) /\ Worth(e) = <<>>
  BY <1>1 DEF IsText, Worth
<1>3. Words(buffer) \in Seq(Symbol) /\ Words(buffer) \o <<>> = Words(buffer)
  BY WordsFacts, ConcatEmptySeq
<1>4. CASE j = 0
  <2>1. token = Closed /\ special = Closed /\ insidescript = FALSE /\ Reads("<")
    BY <1>1, <1>4 DEF Outside
  <2>2. token' = <<>> /\ UNCHANGED <<buffer, special, insidescript, insidebody>>
    BY <2>1 DEF Reads
  <2>3. <<>> \in Seq(TokenChar) /\ <<>> # Closed
    BY EmptySeq, ClosedIsShort
  <2>4. Named(e, 1)'
    BY <2>2, <2>3 DEF Named, Closed
  <2>5. Within(e, 0 + 1)'
    BY <2>1, <2>2, <2>4 DEF Within, WithinTag, Closed
  <2>6. 0 + 1 # Len(e)
    BY <1>1
  <2> QED
    BY <1>4, <2>2, <2>5, <2>6 DEF Passed, Words
<1>5. CASE j # 0
  <2>1. /\ special = Closed /\ insidescript = FALSE /\ Named(e, j)
        /\ token # Closed /\ j \in 1 .. Len(e) - 1
    BY <1>1, <1>5 DEF WithinTag, Named
  <2>2. CASE j + 1 = Len(e)
    <3>1. Reads(">")
      BY <1>1, <2>2
    <3>2. /\ special' = special /\ token' = Closed
          /\ buffer' \in {buffer, buffer \o <<"lf">>}
          /\ insidescript' = (Name = "script" \/ (insidescript /\ Name # "/script"))
          /\ insidebody' = (insidebody \/ Name = "body")
      BY <2>1, <3>1, Zenon DEF Reads
    <3>3. Name = IF j = 1 THEN "nul" ELSE NameOf(e[2])
      <4>1. CASE j = 1
        BY <2>1, <4>1 DEF Named, Name
      <4>2. CASE j # 1
        BY <2>1, <4>2 DEF Named, Name
      <4> QED
        BY <4>1, <4>2
    <3>4. Name # "script" /\ (Name = "body" <=> OpensBody(e))
      <4>1. CASE j = 1
        <5>1. Name = "nul" /\ Len(e) = 2
          BY <1>1, <2>2, <3>3, <4>1
        <5>2. e[2] = ">"
          BY <1>1, <5>1
        <5> QED
          BY <5>1, <5>2 DEF OpensBody
      <4>2. CASE j # 1
        <5>1. Name = NameOf(e[2])
          BY <3>3, <4>2
        <5>2. CASE e[2] \in Whitespace
          <6>1. Name = "nul" /\ e[2] # "body"
            BY <5>1, <5>2 DEF NameOf, Whitespace
          <6> QED
            BY <6>1 DEF OpensBody
        <5>3. CASE e[2] \notin Whitespace
          <6>1. Name = e[2]
            BY <5>1, <5>3 DEF NameOf
          <6> QED
            BY <1>1, <6>1 DEF OpensBody
        <5> QED
          BY <5>2, <5>3
      <4> QED
        BY <4>1, <4>2
    <3>5. insidescript' = FALSE
      BY <2>1, <3>2, <3>4
    <3>6. insidebody' = (insidebody \/ OpensBody(e))
      BY <3>2, <3>4, Zenon
    <3>7. buffer' \in Seq(Symbol) /\ Words(buffer') = Words(buffer)
      BY <3>2, BlankBytes
    <3>8. Outside'
      BY <2>1, <3>2, <3>5 DEF Outside, Closed
    <3> QED
      BY <1>2, <1>3, <2>2, <3>6, <3>7, <3>8 DEF Passed
  <2>3. CASE j + 1 # Len(e)
    <3>1. e[j + 1] # "<" /\ e[j + 1] # ">"
      <4>1. j + 1 \in 2 .. Len(e) - 1
        BY <1>1, <1>5, <2>3
      <4> QED
        BY <1>1, <4>1
    <3>2. /\ special' = special
          /\ token' = Longer(token, NameOf(e[j + 1]))
          /\ UNCHANGED <<buffer, insidescript, insidebody>>
      BY <2>1, <3>1 DEF Reads, NameOf
    <3>3. Named(e, j + 1)'
      BY <2>1, <3>2, NameGoesOn
    <3>4. Within(e, j + 1)'
      BY <2>1, <3>2, <3>3 DEF Within, WithinTag, Closed
    <3> QED
      BY <2>3, <3>2, <3>4 DEF Passed, Words
  <2> QED
    BY <2>2, <2>3
<1> QED
  BY <1>4, <1>5

LEMMA EntityPasses ==
    ASSUME NEW e, HtmlElement(e), IsEntity(e), NEW j \in 0 .. Len(e) - 1,
           IF j = 0 THEN Outside ELSE WithinEntity(e, j),
           Reads(e[j + 1]), buffer \in Seq(Symbol), insidebody \in BOOLEAN
    PROVE  Passed(e, j)
<1>0. /\ Len(e) \in 2 .. NAMELEN + 1
      /\ e[1] = "&" /\ e[Len(e)] = "semi"
      /\ \A i \in 2 .. Len(e) - 1 : e[i] \notin Whitespace \cup {"<", ">", "semi"}
  BY Zenon DEF IsEntity
<1>1. /\ Len(e) \in Nat /\ Len(e) >= 2 /\ Len(e) <= NAMELEN + 1 /\ NAMELEN \in Nat
      /\ j \in Nat /\ j + 1 \in 1 .. Len(e)
      /\ e[1] = "&" /\ e[Len(e)] = "semi"
      /\ \A i \in 2 .. Len(e) - 1 : e[i] \notin Whitespace \cup {"<", ">", "semi"}
      /\ \A i \in 1 .. Len(e) : e[i] \in STRING /\ e[i] # "none"
      /\ e \in Seq(STRING)
  <2>1. /\ Len(e) \in Nat /\ Len(e) >= 2 /\ Len(e) <= NAMELEN + 1 /\ NAMELEN \in Nat
        /\ j \in Nat /\ j + 1 \in 1 .. Len(e)
    BY <1>0, ElementBytes, NameLength
  <2>2. /\ \A i \in 1 .. Len(e) : e[i] \in STRING /\ e[i] # "none"
        /\ e \in Seq(STRING)
    BY ElementBytes DEF HtmlElement
  <2> QED
    BY <1>0, <2>1, <2>2
<1>2. ~IsText(e) /\ Worth(e) = <<>> /\ ~OpensBody(e)
  <2>1. ~IsText(e)
    BY <1>1 DEF IsText
  <2>2. ~OpensBody(e)
    BY <1>1 DEF OpensBody, IsTag
  <2> QED
    BY <2>1, <2>2 DEF Worth
<1>3. Words(buffer) \in Seq(Symbol) /\ Words(buffer) \o <<>> = Words(buffer)
  BY WordsFacts, ConcatEmptySeq
<1>4. CASE j = 0
  <2>1. token = Closed /\ special = Closed /\ insidescript = FALSE /\ Reads("&")
    BY <1>1, <1>4 DEF Outside
  <2>2. "&" \notin Whitespace \cup {">"} /\ "&" # "<"
    BY DEF Whitespace
  <2>3. special' = <<>> /\ UNCHANGED <<buffer, token, insidescript, insidebody>>
    BY <2>1, <2>2 DEF Reads
  <2>4. SubSeq(e, 2, 1) = <<>>
    BY <1>1
  <2>5. Within(e, 0 + 1)'
    BY <2>1, <2>3, <2>4 DEF Within, WithinEntity, Closed
  <2>6. 0 + 1 # Len(e)
    BY <1>1
  <2> QED
    BY <1>4, <2>3, <2>5, <2>6 DEF Passed, Words
<1>5. CASE j # 0
  <2>1. /\ token = Closed /\ insidescript = FALSE /\ special = SubSeq(e, 2, j)
        /\ j \in 1 .. Len(e) - 1
    BY <1>1, <1>5 DEF WithinEntity
  <2>2. /\ 2 \in 1 .. Len(e) + 1 /\ j \in 2 - 1 .. Len(e) /\ j + 1 \in 2 - 1 .. Len(e)
        /\ j - 2 + 1 = j - 1 /\ 2 + 1 - 1 = 2 /\ (j + 1) - 2 + 1 = j
    BY <1>1, <2>1
  <2>3. /\ special \in Seq(STRING) /\ Len(special) = j - 1
        /\ \A k \in 1 .. j - 1 : special[k] = e[2 + k - 1]
    BY <1>1, <2>1, <2>2, SubSeqFacts
  <2>4. special # Closed
    <3>1. CASE j = 2
      <4>1. 1 \in 1 .. j - 1 /\ 2 + 1 - 1 = 2 /\ 2 \in 1 .. Len(e)
        BY <1>1, <3>1
      <4>2. special[1] = e[2] /\ e[2] # "none"
        BY <1>1, <2>3, <4>1
      <4> QED
        BY <4>2, ClosedIsShort
    <3>2. CASE j # 2
      <4>1. Len(special) # 1
        BY <2>1, <2>3, <3>2
      <4> QED
        BY <4>1, ClosedIsShort
    <3> QED
      BY <3>1, <3>2
  <2>5. InEntity
    BY <1>1, <2>1, <2>3, <2>4 DEF InEntity
  <2>6. CASE j + 1 = Len(e)
    <3>1. Reads("semi")
      BY <1>1, <2>6
    <3>2. "semi" \notin Whitespace \cup {">"} /\ "semi" # "<" /\ "semi" # "&"
      BY DEF Whitespace
    <3>3. /\ special' = Closed /\ UNCHANGED <<token, insidescript, insidebody>>
          /\ buffer' \in {buffer \o <<"sp">>, buffer \o <<"_">>}
      BY <2>1, <2>4, <2>5, <3>1, <3>2 DEF Reads
    <3>4. buffer' \in Seq(Symbol) /\ Words(buffer') = Words(buffer)
      BY <3>3, BlankBytes
    <3>5. Outside'
      BY <2>1, <3>3 DEF Outside, Closed
    <3>6. insidebody' = (insidebody \/ OpensBody(e))
      BY <1>2, <3>3
    <3> QED
      BY <1>2, <1>3, <2>6, <3>4, <3>5, <3>6 DEF Passed
  <2>7. CASE j + 1 # Len(e)
    <3>1. e[j + 1] \notin Whitespace \cup {"<", ">", "semi"}
      <4>1. j + 1 \in 2 .. Len(e) - 1
        BY <1>1, <1>5, <2>7
      <4> QED
        BY <1>1, <4>1
    <3>2. /\ special' = Append(special, e[j + 1])
          /\ UNCHANGED <<buffer, token, insidescript, insidebody>>
      BY <2>1, <2>4, <2>5, <3>1 DEF Reads
    <3>3. Append(special, e[j + 1]) = SubSeq(e, 2, j + 1)
      <4> DEFINE u == Append(special, e[j + 1])
                 v == SubSeq(e, 2, j + 1)
      <4>1. e[j + 1] \in STRING
        BY <1>1
      <4>2. /\ u \in Seq(STRING) /\ Len(u) = (j - 1) + 1
            /\ \A k \in 1 .. j - 1 : u[k] = special[k]
            /\ u[(j - 1) + 1] = e[j + 1]
        BY <2>3, <4>1, AppendProperties
      <4>3. v \in Seq(STRING) /\ Len(v) = j /\ \A k \in 1 .. j : v[k] = e[2 + k - 1]
        <5>1. /\ v \in Seq(STRING) /\ Len(v) = (j + 1) - 2 + 1
              /\ \A k \in 1 .. (j + 1) - 2 + 1 : v[k] = e[2 + k - 1]
          <6>1. \A n \in 2 - 1 .. Len(e) :
                  /\ SubSeq(e, 2, n) \in Seq(STRING)
                  /\ Len(SubSeq(e, 2, n)) = n - 2 + 1
                  /\ \A k \in 1 .. n - 2 + 1 : SubSeq(e, 2, n)[k] = e[2 + k - 1]
            BY <1>1, <2>2, SubSeqFacts
          <6>2. PICK n \in 2 - 1 .. Len(e) : n = j + 1
            BY <2>2
          <6>3. v = SubSeq(e, 2, n)
            BY <6>2
          <6> HIDE DEF v
          <6> QED
            BY <6>1, <6>2, <6>3
        <5> QED
          BY <2>2, <5>1
      <4> HIDE DEF u, v
      <4>4. (j - 1) + 1 = j /\ j \in 1 .. j /\ 2 + j - 1 = j + 1
        BY <2>1
      <4>5. \A k \in 1 .. j : u[k] = v[k]
        <5>1. ASSUME NEW k \in 1 .. j, k # j PROVE u[k] = v[k]
          <6>1. k \in 1 .. j - 1
            BY <1>1, <5>1
          <6> QED
            BY <2>3, <4>2, <4>3, <6>1
        <5>2. u[j] = v[j]
          BY <4>2, <4>3, <4>4
        <5> QED
          BY <5>1, <5>2
      <4>6. Len(u) = Len(v)
        BY <4>2, <4>3, <4>4
      <4>7. u = v
        <5>1. \A i \in 1 .. Len(u) : u[i] = v[i]
          BY <4>3, <4>5, <4>6
        <5> QED
          BY <4>2, <4>3, <4>6, <5>1, SeqEqual
      <4> QED
        BY <4>7 DEF u, v
    <3>4. Within(e, j + 1)'
      BY <2>1, <3>2, <3>3 DEF Within, WithinEntity, Closed
    <3> QED
      BY <2>7, <3>2, <3>4 DEF Passed, Words
  <2> QED
    BY <2>6, <2>7
<1> QED
  BY <1>4, <1>5

LEMMA ScriptEnd ==
    ASSUME NEW e, HtmlElement(e), IsScript(e)
    PROVE  /\ Len(e) \in Nat /\ Len(e) >= 6 /\ e[1] = "<" /\ e[2] = "script"
           /\ e[Len(e) - 2] = "<" /\ e[Len(e) - 1] = "/script" /\ e[Len(e)] = ">"
           /\ \E m \in Nat : ScriptCut(e, m)
           /\ ~IsText(e) /\ ~OpensBody(e) /\ Worth(e) = <<>>
<1> DEFINE n == Len(e)
           end == SubSeq(e, n - 2, n)
<1>1. n \in Nat /\ n >= 6 /\ e[1] = "<" /\ e[2] = "script"
  BY ElementBytes DEF IsScript
<1>2. e \in Seq(STRING)
  BY DEF HtmlElement
<1>3. /\ n - 2 \in 1 .. n + 1 /\ n \in (n - 2) - 1 .. n /\ n - (n - 2) + 1 = 3
      /\ (n - 2) + 1 - 1 = n - 2 /\ (n - 2) + 2 - 1 = n - 1 /\ (n - 2) + 3 - 1 = n
      /\ 1 \in 1 .. 3 /\ 2 \in 1 .. 3 /\ 3 \in 1 .. 3
  BY <1>1
<1>4. \A k \in 1 .. 3 : end[k] = e[(n - 2) + k - 1]
  <2>1. \A m \in 1 .. n + 1 : n \in m - 1 .. n =>
          \A k \in 1 .. n - m + 1 : SubSeq(e, m, n)[k] = e[m + k - 1]
    BY <1>2, <1>1, SubSeqFacts
  <2>2. PICK m \in 1 .. n + 1 : m = n - 2
    BY <1>3
  <2>3. end = SubSeq(e, m, n) /\ n \in m - 1 .. n /\ n - m + 1 = 3
    BY <1>3, <2>2
  <2> HIDE DEF end
  <2> QED
    BY <2>1, <2>2, <2>3
<1>5. end = <<"<", "/script", ">">>
  BY DEF IsScript
<1> HIDE DEF end
<1>6. end[1] = "<" /\ end[2] = "/script" /\ end[3] = ">"
  BY <1>5
<1>7. e[n - 2] = "<" /\ e[n - 1] = "/script" /\ e[n] = ">"
  BY <1>3, <1>4, <1>6
<1>8. \E m \in Nat : ScriptCut(e, m)
  <2>1. PICK m \in 3 .. n - 3 :
          /\ e[m] = ">"
          /\ \A i \in 3 .. m - 1 : e[i] \notin {"<", ">"}
          /\ \A i \in m + 1 .. n - 3 : e[i] # "<"
    BY DEF IsScript
  <2>2. m \in Nat
    BY <1>1
  <2> QED
    BY <2>1, <2>2 DEF ScriptCut
<1>9. ~IsText(e) /\ ~OpensBody(e)
  BY <1>1 DEF IsText, OpensBody
<1> QED
  BY <1>1, <1>7, <1>8, <1>9 DEF Worth

LEMMA ScriptPasses ==
    ASSUME NEW e, HtmlElement(e), IsScript(e), NEW j \in 0 .. Len(e) - 1,
           IF j = 0 THEN Outside ELSE WithinScript(e, j),
           Reads(e[j + 1]), buffer \in Seq(Symbol), insidebody \in BOOLEAN
    PROVE  Passed(e, j)
<1> DEFINE n == Len(e)
<1>1. /\ n \in Nat /\ n >= 6 /\ e[1] = "<" /\ e[2] = "script"
      /\ e[n - 2] = "<" /\ e[n - 1] = "/script" /\ e[n] = ">"
      /\ ~IsText(e) /\ ~OpensBody(e) /\ Worth(e) = <<>>
  BY ScriptEnd
<1>2. j \in Nat /\ j + 1 \in 1 .. n
  BY <1>1
<1>3. Words(buffer) \in Seq(Symbol) /\ Words(buffer) \o <<>> = Words(buffer)
  BY WordsFacts, ConcatEmptySeq
<1>4. CASE j = 0
  <2>1. token = Closed /\ special = Closed /\ insidescript = FALSE /\ Reads("<")
    BY <1>1, <1>4 DEF Outside
  <2>2. token' = <<>> /\ UNCHANGED <<buffer, special, insidescript, insidebody>>
    BY <2>1 DEF Reads
  <2>3. <<>> \in Seq(TokenChar) /\ <<>> # Closed
    BY EmptySeq, ClosedIsShort
  <2>4. Named(e, 1)'
    BY <2>2, <2>3 DEF Named, Closed
  <2>5. PICK m \in Nat : ScriptCut(e, m)
    BY ScriptEnd
  <2>6. 1 < m
    BY <2>5, <1>1 DEF ScriptCut
  <2>7. WithinScript(e, 1)'
    BY <2>1, <2>2, <2>4, <2>5, <2>6 DEF WithinScript, Closed
  <2>8. 0 + 1 # n
    BY <1>1
  <2> QED
    BY <1>4, <2>2, <2>7, <2>8 DEF Passed, Words, Within
<1>5. CASE j # 0
  <2>1. PICK m \in Nat :
          /\ ScriptCut(e, m)
          /\ IF j < m THEN insidescript = FALSE /\ Named(e, j)
             ELSE /\ insidescript = TRUE
                  /\ token = IF j <= n - 3 THEN Closed
                             ELSE IF j = n - 2 THEN <<>> ELSE <<"/script">>
    BY <1>5 DEF WithinScript
  <2>2. special = Closed
    BY <1>5 DEF WithinScript
  <2>3. /\ m >= 3 /\ m <= n - 3 /\ e[m] = ">"
        /\ \A i \in 3 .. m - 1 : e[i] \notin {"<", ">"}
        /\ \A i \in m + 1 .. n - 3 : e[i] # "<"
    BY <1>1, <2>1 DEF ScriptCut
  \* Every place but the last one: what remains to be shown.
  <2>4. ASSUME j + 1 # n, special' = special, insidebody' = insidebody,
               buffer' \in {buffer, buffer \o <<"lf">>},
               IF j + 1 < m THEN insidescript' = FALSE /\ Named(e, j + 1)'
               ELSE /\ insidescript' = TRUE
                    /\ token' = IF j + 1 <= n - 3 THEN Closed
                                ELSE IF j + 1 = n - 2 THEN <<>> ELSE <<"/script">>
        PROVE  Passed(e, j)
    <3>1. WithinScript(e, j + 1)'
      BY <2>1, <2>2, <2>4 DEF WithinScript, Closed
    <3>2. buffer' \in Seq(Symbol) /\ Words(buffer') = Words(buffer)
      BY <2>4, BlankBytes
    <3> QED
      BY <2>4, <3>1, <3>2 DEF Passed, Within
  <2>5. CASE j + 1 < m
    <3>1. insidescript = FALSE /\ Named(e, j) /\ token # Closed
      BY <1>2, <2>1, <2>5 DEF Named
    <3>2. e[j + 1] # "<" /\ e[j + 1] # ">"
      <4>1. CASE j + 1 = 2
        BY <1>1, <4>1
      <4>2. CASE j + 1 # 2
        <5>1. j + 1 \in 3 .. m - 1
          BY <1>2, <1>5, <2>5, <4>2
        <5> QED
          BY <2>3, <5>1
      <4> QED
        BY <4>1, <4>2
    <3>3. /\ special' = special /\ token' = Longer(token, NameOf(e[j + 1]))
          /\ UNCHANGED <<buffer, insidescript, insidebody>>
      BY <3>1, <3>2 DEF Reads, NameOf
    <3>4. j \in 1 .. n - 1 /\ j + 1 # n
      BY <1>1, <1>2, <1>5, <2>3, <2>5
    <3>5. Named(e, j + 1)'
      BY <3>1, <3>3, <3>4, NameGoesOn
    <3> QED
      BY <2>4, <2>5, <3>1, <3>3, <3>4, <3>5
  <2>6. CASE j + 1 = m
    <3>1. insidescript = FALSE /\ Named(e, j) /\ token # Closed /\ Reads(">")
      BY <1>2, <2>1, <2>3, <2>6 DEF Named
    <3>2. j # 1
      BY <2>3, <2>6
    <3>3. NameOf(e[2]) = "script"
      BY <1>1 DEF NameOf, Whitespace
    <3>4. Name = "script"
      BY <3>1, <3>2, <3>3 DEF Name, Named
    <3>5. /\ special' = special /\ token' = Closed
          /\ buffer' \in {buffer, buffer \o <<"lf">>}
          /\ insidescript' = (Name = "script" \/ (insidescript /\ Name # "/script"))
          /\ insidebody' = (insidebody \/ Name = "body")
      BY <3>1, Zenon DEF Reads
    <3>6. insidescript' = TRUE /\ insidebody' = insidebody
      BY <3>1, <3>4, <3>5
    <3>7. j + 1 # n /\ ~(j + 1 < m) /\ j + 1 <= n - 3
      BY <1>1, <1>2, <2>3, <2>6
    <3> QED
      BY <2>4, <3>5, <3>6, <3>7
  <2>7. CASE m <= j /\ j + 1 <= n - 3
    <3>1. j + 1 \in m + 1 .. n - 3 /\ ~(j < m) /\ j <= n - 3 /\ ~(j + 1 < m) /\ j + 1 # n
      BY <1>1, <1>2, <2>7
    <3>2. e[j + 1] # "<" /\ insidescript = TRUE /\ token = Closed
      BY <2>1, <2>3, <3>1
    <3>3. UNCHANGED <<buffer, token, special, insidescript, insidebody>>
      BY <3>2 DEF Reads
    <3> QED
      BY <2>4, <2>7, <3>1, <3>2, <3>3
  <2>8. CASE j + 1 = n - 2
    <3>1. ~(j < m) /\ j <= n - 3 /\ ~(j + 1 < m) /\ j + 1 # n /\ ~(j + 1 <= n - 3)
      BY <1>1, <1>2, <2>3, <2>8
    <3>2. Reads("<") /\ insidescript = TRUE /\ token = Closed
      BY <1>1, <2>1, <2>8, <3>1
    <3>3. token' = <<>> /\ UNCHANGED <<buffer, special, insidescript, insidebody>>
      BY <3>2 DEF Reads
    <3> QED
      BY <2>4, <2>8, <3>1, <3>2, <3>3
  <2>9. CASE j + 1 = n - 1
    <3>1. /\ ~(j < m) /\ ~(j <= n - 3) /\ j = n - 2 /\ ~(j + 1 < m) /\ j + 1 # n
          /\ ~(j + 1 <= n - 3) /\ j + 1 # n - 2
      BY <1>1, <1>2, <2>3, <2>9
    <3>2. Reads("/script") /\ insidescript = TRUE /\ token = <<>>
      BY <1>1, <2>1, <2>9, <3>1
    <3>3. <<>> # Closed /\ "/script" \notin Whitespace /\ "/script" # "<" /\ "/script" # ">"
      BY ClosedIsShort DEF Whitespace
    <3>4. token' = Longer(<<>>, "/script")
          /\ UNCHANGED <<buffer, special, insidescript, insidebody>>
      BY <3>2, <3>3 DEF Reads
    <3>5. Longer(<<>>, "/script") = <<"/script">>
      BY NameLength DEF Longer
    <3> QED
      BY <2>4, <3>1, <3>2, <3>4, <3>5
  <2>10. CASE j + 1 = n
    <3>1. ~(j < m) /\ ~(j <= n - 3) /\ j # n - 2
      BY <1>1, <1>2, <2>3, <2>10
    <3>2. Reads(">") /\ insidescript = TRUE /\ token = <<"/script">>
      BY <1>1, <2>1, <2>10, <3>1
    <3>3. token # Closed /\ Name = "/script"
      BY <3>2 DEF Closed, Name
    <3>4. /\ special' = special /\ token' = Closed
          /\ buffer' \in {buffer, buffer \o <<"lf">>}
          /\ insidescript' = (Name = "script" \/ (insidescript /\ Name # "/script"))
          /\ insidebody' = (insidebody \/ Name = "body")
      BY <3>2, <3>3, Zenon DEF Reads
    <3>5. Name # "script" /\ Name # "body"
      BY <3>3
    <3>6. insidescript' = FALSE /\ insidebody' = insidebody
      BY <3>3, <3>4, <3>5
    <3>7. Outside'
      BY <2>2, <3>4, <3>6 DEF Outside, Closed
    <3>8. buffer' \in Seq(Symbol) /\ Words(buffer') = Words(buffer)
      BY <3>4, BlankBytes
    <3>9. insidebody' = (insidebody \/ OpensBody(e))
      BY <1>1, <3>6
    <3> QED
      BY <1>1, <1>3, <2>10, <3>7, <3>8, <3>9 DEF Passed
  <2> QED
    <3>1. j + 1 < m \/ j + 1 = m \/ (m <= j /\ j + 1 <= n - 3) \/ j + 1 = n - 2
          \/ j + 1 = n - 1 \/ j + 1 = n
      BY <1>1, <1>2
    <3> QED
      BY <2>5, <2>6, <2>7, <2>8, <2>9, <2>10, <3>1
<1> QED
  BY <1>4, <1>5

-----------------------------------------------------------------------------
(* The whole page: k elements and j bytes of the next were read.           *)

Start(k) == Len(FlattenSeq(SubSeq(page, 1, k)))
Saying == [i \in 1 .. Len(page) |->
    IF InBody(i) /\ IsText(page[i]) THEN Words(page[i]) ELSE <<>>]
Said(k) == FlattenSeq(SubSeq(Saying, 1, k))

Standing(k, j) ==
    /\ k <= Len(page) /\ x = Start(k) + j
    /\ insidebody = InBody(k + 1)
    /\ Words(buffer) = Said(k)
    /\ IF j = 0 THEN Outside
       ELSE k < Len(page) /\ j < Len(page[k + 1]) /\ Within(page[k + 1], j)

HtmlSoFar ==
    txtformat = "HTM" /\ WellFormed => \E k, j \in Nat : Standing(k, j)

LEMMA HtmlElements ==
    ASSUME FilterTypes, txtformat = "HTM", WellFormed, NEW i \in 1 .. Len(page)
    PROVE  HtmlElement(page[i])
<1>1. page[i] \in Elements["HTM"] /\ page \in Seq(Seq(STRING))
  BY PageTypes DEF FilterTypes
<1>2. page[i] \in Seq(STRING)
  BY <1>1, ElementOfSeq
<1>3. \A e \in Elements["HTM"] :
        /\ "none" \notin ToSet(e)
        /\ IsText(e) \/ IsTag(e) \/ IsScript(e) \/ IsEntity(e) \/ e = <<"&">>
  BY TextFilterAssumption
<1>4. page[i] # <<"&">>
  BY DEF WellFormed
<1> QED
  BY <1>1, <1>2, <1>3, <1>4, Zenon DEF HtmlElement

LEMMA SayingFacts ==
    ASSUME FilterTypes
    PROVE  Saying \in Seq(Seq(Symbol)) /\ Len(Saying) = Len(page) /\ BodyWords = FlattenSeq(Saying)
<1>1. page \in Seq(Seq(STRING)) /\ Len(page) \in Nat
  BY PageTypes DEF FilterTypes
<1>2. \A s \in Seq(STRING) : s \in Seq(Symbol)
  BY Symbols, SeqMonotonic
<1>3. \A i \in 1 .. Len(page) : page[i] \in Seq(Symbol)
  BY <1>1, <1>2, ElementOfSeq
<1>4. \A i \in 1 .. Len(page) : Saying[i] \in Seq(Symbol)
  BY <1>3, WordsFacts, Symbols DEF Saying
<1>5. Saying \in [1 .. Len(page) -> Seq(Symbol)]
  BY <1>4 DEF Saying
<1>6. Saying \in Seq(Seq(Symbol)) /\ Len(Saying) = Len(page)
  <2> HIDE DEF Saying
  <2>1. Saying \in Seq(Seq(Symbol))
    BY <1>1, <1>5, SeqDef
  <2>2. DOMAIN Saying = 1 .. Len(page)
    BY <1>5
  <2> QED
    BY <1>1, <2>1, <2>2, LenProperties
<1>7. BodyWords = FlattenSeq(Saying)
  BY DEF BodyWords, Saying
<1> QED
  BY <1>6, <1>7

\* Where element k + 1 is in the cache.
LEMMA ElementAt ==
    ASSUME FilterTypes, NEW k \in Nat, k < Len(page)
    PROVE  /\ Start(k) \in Nat /\ Len(page[k + 1]) \in Nat
           /\ Start(k + 1) = Start(k) + Len(page[k + 1])
           /\ Start(k + 1) <= Len(cache)
           /\ \A j \in 1 .. Len(page[k + 1]) : cache[Start(k) + j] = page[k + 1][j]
<1> DEFINE a == FlattenSeq(SubSeq(page, 1, k))
           b == FlattenSeq(SubSeq(page, 1, k + 1))
           e == page[k + 1]
<1>1. page \in Seq(Seq(STRING))
  BY PageTypes DEF FilterTypes
<1>2. /\ a \in Seq(STRING) /\ e \in Seq(STRING) /\ b = a \o e
      /\ \E rest \in Seq(STRING) : FlattenSeq(page) = b \o rest
  BY <1>1, OneMore
<1>3. PICK rest \in Seq(STRING) : cache = b \o rest
  BY <1>2 DEF cache, Bytes
<1>4. Start(k) = Len(a) /\ Start(k + 1) = Len(b)
  BY DEF Start
<1> HIDE DEF a, b, e
<1>5. /\ b \in Seq(STRING) /\ Len(b) = Len(a) + Len(e)
      /\ \A i \in 1 .. Len(a) + Len(e) : b[i] = IF i <= Len(a) THEN a[i] ELSE e[i - Len(a)]
      /\ Len(a) \in Nat /\ Len(e) \in Nat
  BY <1>2, ConcatProperties, LenProperties
<1>6. /\ Len(cache) = Len(b) + Len(rest) /\ Len(rest) \in Nat
      /\ \A i \in 1 .. Len(b) + Len(rest) :
           cache[i] = IF i <= Len(b) THEN b[i] ELSE rest[i - Len(b)]
  <2> DEFINE c == b \o rest
  <2>1. /\ Len(c) = Len(b) + Len(rest) /\ Len(rest) \in Nat
        /\ \A i \in 1 .. Len(b) + Len(rest) :
             c[i] = IF i <= Len(b) THEN b[i] ELSE rest[i - Len(b)]
    <3>1. \A s, t \in Seq(STRING) :
            /\ Len(s \o t) = Len(s) + Len(t) /\ Len(t) \in Nat
            /\ \A i \in 1 .. Len(s) + Len(t) :
                 (s \o t)[i] = IF i <= Len(s) THEN s[i] ELSE t[i - Len(s)]
      BY ConcatProperties, LenProperties
    <3> QED
      BY <1>5, <3>1, Zenon
  <2>2. cache = c
    BY <1>3
  <2> HIDE DEF c
  <2> QED
    BY <2>1, <2>2
<1>7. ASSUME NEW j \in 1 .. Len(e) PROVE cache[Len(a) + j] = e[j]
  <2>1. /\ Len(a) + j \in 1 .. Len(a) + Len(e) /\ ~(Len(a) + j <= Len(a))
        /\ (Len(a) + j) - Len(a) = j
        /\ Len(a) + j \in 1 .. Len(b) + Len(rest) /\ Len(a) + j <= Len(b)
    BY <1>5, <1>6
  <2> QED
    BY <1>5, <1>6, <2>1
<1>8. Len(b) <= Len(cache)
  BY <1>5, <1>6
<1> QED
  BY <1>4, <1>5, <1>7, <1>8 DEF e

\* A byte that is read belongs to an element.
LEMMA ByteRead ==
    ASSUME FilterTypes, txtformat = "HTM", WellFormed,
           NEW k \in Nat, NEW j \in Nat, Standing(k, j), x < Len(cache)
    PROVE  /\ k < Len(page) /\ j \in 0 .. Len(page[k + 1]) - 1
           /\ Byte = page[k + 1][j + 1]
<1>1. Len(page) \in Nat /\ k <= Len(page)
  BY PageTypes DEF FilterTypes, Standing
<1>2. k < Len(page)
  <2> SUFFICES ASSUME k = Len(page) PROVE FALSE
    BY <1>1
  <2>1. j = 0
    BY <1>1 DEF Standing
  <2>2. SubSeq(page, 1, k) = page
    <3>1. page \in Seq(Seq(STRING))
      BY PageTypes DEF FilterTypes
    <3> QED
      BY <3>1, SubSeqFull
  <2>3. Start(k) = Len(cache) /\ Start(k) \in Nat
    BY <2>2, PageTypes DEF Start, cache, Bytes, FilterTypes
  <2>4. x = Start(k)
    BY <2>1, <2>3 DEF Standing
  <2> QED
    BY <2>3, <2>4
<1>3. k + 1 \in 1 .. Len(page)
  BY <1>1, <1>2
<1>4. Len(page[k + 1]) \in Nat /\ Len(page[k + 1]) >= 1
  BY <1>3, HtmlElements, ElementBytes
<1>5. j \in 0 .. Len(page[k + 1]) - 1 /\ j + 1 \in 1 .. Len(page[k + 1])
  <2>1. j = 0 \/ j < Len(page[k + 1])
    BY DEF Standing
  <2> QED
    BY <1>4, <2>1
<1>6. /\ Start(k) \in Nat
      /\ \A i \in 1 .. Len(page[k + 1]) : cache[Start(k) + i] = page[k + 1][i]
  BY <1>2, ElementAt
<1>7. x + 1 = Start(k) + (j + 1)
  BY <1>6 DEF Standing
<1>8. Byte = page[k + 1][j + 1]
  BY <1>5, <1>6, <1>7 DEF Byte
<1> QED
  BY <1>2, <1>5, <1>8

LEMMA ReadsKeeps ==
    ASSUME FilterTypes, txtformat = "HTM", WellFormed,
           NEW k \in Nat, NEW j \in Nat, Standing(k, j), ReadsByte
    PROVE  FilterTypes' /\ \E m, n \in Nat : Standing(m, n)'
<1>1. /\ x < Len(cache) /\ x' = x + 1 /\ UNCHANGED <<txtformat, page>> /\ Reads(Byte)
  BY DEF ReadsByte
<1>2. cache' = cache
  BY <1>1 DEF cache, Bytes
<1>3. k < Len(page) /\ j \in 0 .. Len(page[k + 1]) - 1 /\ Byte = page[k + 1][j + 1]
  BY <1>1, ByteRead
<1>4. Len(page) \in Nat /\ k + 1 \in 1 .. Len(page)
  BY <1>3, PageTypes DEF FilterTypes
<1>5. PICK e : e = page[k + 1]
  OBVIOUS
<1>6. HtmlElement(e)
  BY <1>4, <1>5, HtmlElements
<1>7. buffer \in Seq(Symbol) /\ insidebody \in BOOLEAN
  BY DEF FilterTypes, Standing, InBody
<1>8. j \in 0 .. Len(e) - 1 /\ Reads(e[j + 1]) /\ (IF j = 0 THEN Outside ELSE Within(e, j))
  BY <1>1, <1>3, <1>5 DEF Standing
<1>9. Passed(e, j)
  <2>1. CASE IsText(e)
    <3>1. Len(e) = 1
      BY <2>1 DEF IsText
    <3>2. j = 0
      BY <1>8, <3>1
    <3>3. Outside /\ Reads(e[1])
      BY <1>8, <3>2
    <3> QED
      BY <1>6, <1>7, <2>1, <3>2, <3>3, TextPasses
  <2>2. CASE IsTag(e)
    <3>1. ~IsScript(e) /\ ~IsEntity(e)
      BY <2>2 DEF IsTag, IsScript, IsEntity
    <3>2. IF j = 0 THEN Outside ELSE WithinTag(e, j)
      BY <1>8, <3>1 DEF Within
    <3> QED
      BY <1>6, <1>7, <1>8, <2>2, <3>2, TagPasses
  <2>3. CASE IsScript(e)
    <3>1. ~IsTag(e) /\ ~IsEntity(e)
      BY <2>3 DEF IsTag, IsScript, IsEntity
    <3>2. IF j = 0 THEN Outside ELSE WithinScript(e, j)
      BY <1>8, <3>1 DEF Within
    <3> QED
      BY <1>6, <1>7, <1>8, <2>3, <3>2, ScriptPasses
  <2>4. CASE IsEntity(e)
    <3>1. ~IsTag(e) /\ ~IsScript(e)
      BY <2>4 DEF IsTag, IsScript, IsEntity
    <3>2. IF j = 0 THEN Outside ELSE WithinEntity(e, j)
      BY <1>8, <3>1 DEF Within
    <3> QED
      BY <1>6, <1>7, <1>8, <2>4, <3>2, EntityPasses
  <2> QED
    BY <1>6, <2>1, <2>2, <2>3, <2>4 DEF HtmlElement
<1>10. FilterTypes'
  <2>1. buffer' \in Seq(Symbol)
    BY <1>9 DEF Passed
  <2>2. x + 1 \in 0 .. Len(cache)
    BY <1>1, PageTypes DEF FilterTypes
  <2> QED
    BY <1>1, <1>2, <2>1, <2>2 DEF FilterTypes
<1>11. /\ Start(k)' = Start(k) /\ Start(k + 1)' = Start(k + 1)
       /\ InBody(k + 1)' = InBody(k + 1) /\ InBody((k + 1) + 1)' = InBody((k + 1) + 1)
       /\ Said(k)' = Said(k) /\ Said(k + 1)' = Said(k + 1)
       /\ Len(page)' = Len(page) /\ Words(buffer)' = Words(buffer')
  BY <1>1 DEF Start, InBody, Said, Saying, Words
<1>12. /\ Start(k) \in Nat /\ Len(e) \in Nat /\ Start(k + 1) = Start(k) + Len(e)
       /\ x' = Start(k) + (j + 1)
  <2>1. Start(k) \in Nat /\ Len(e) \in Nat /\ Start(k + 1) = Start(k) + Len(e)
    BY <1>3, <1>5, ElementAt
  <2>2. x = Start(k) + j
    BY DEF Standing
  <2> QED
    BY <1>1, <2>1, <2>2
<1>13. insidebody = InBody(k + 1) /\ Words(buffer) = Said(k)
  BY DEF Standing
<1>14. CASE j + 1 = Len(e)
  <2>1. /\ Outside' /\ insidebody' = (insidebody \/ OpensBody(e))
        /\ Words(buffer') = Words(buffer) \o Worth(e)
    BY <1>9, <1>14, Zenon DEF Passed
  <2>2. InBody((k + 1) + 1) <=> InBody(k + 1) \/ OpensBody(e)
    <3>1. \A b \in Int : b \in 1 .. ((k + 1) + 1) - 1 <=> b \in 1 .. (k + 1) - 1 \/ b = k + 1
      OBVIOUS
    <3>2. (k + 1) \in Int
      OBVIOUS
    <3>3. InBody((k + 1) + 1) => InBody(k + 1) \/ OpensBody(e)
      BY <1>5, <3>1 DEF InBody
    <3>4. InBody(k + 1) => InBody((k + 1) + 1)
      BY <3>1 DEF InBody
    <3>5. OpensBody(e) => InBody((k + 1) + 1)
      BY <1>5, <3>1, <3>2 DEF InBody
    <3> QED
      BY <3>3, <3>4, <3>5
  <2>3. Said(k + 1) = Said(k) \o Worth(e)
    <3>1. Saying \in Seq(Seq(Symbol)) /\ Len(Saying) = Len(page)
      BY SayingFacts
    <3>2. Said(k + 1) = Said(k) \o Saying[k + 1]
      BY <1>3, <3>1, OneMore DEF Said
    <3>3. Saying[k + 1] = Worth(e)
      BY <1>4, <1>5, <1>13 DEF Saying, Worth
    <3> QED
      BY <3>2, <3>3
  <2>4. insidebody' = InBody((k + 1) + 1)
    BY <1>13, <2>1, <2>2 DEF InBody
  <2>5. Words(buffer') = Said(k + 1)
    BY <1>13, <2>1, <2>3
  <2>6. x' = Start(k + 1) + 0 /\ k + 1 <= Len(page)
    BY <1>3, <1>4, <1>12, <1>14
  <2>7. Standing(k + 1, 0)'
    BY <1>11, <2>1, <2>4, <2>5, <2>6 DEF Standing
  <2>8. k + 1 \in Nat /\ 0 \in Nat
    OBVIOUS
  <2> QED
    BY <1>10, <2>7, <2>8
<1>15. CASE j + 1 # Len(e)
  <2>1. /\ Within(e, j + 1)' /\ insidebody' = insidebody
        /\ Words(buffer') = Words(buffer)
    BY <1>9, <1>15, Zenon DEF Passed
  <2>2. j + 1 # 0 /\ j + 1 < Len(e) /\ j + 1 \in Nat
    BY <1>8, <1>12, <1>15
  <2>3. page'[k + 1] = e /\ k < Len(page)' /\ k <= Len(page)'
    BY <1>1, <1>3, <1>4, <1>5
  <2>4. Standing(k, j + 1)'
    BY <1>11, <1>12, <1>13, <2>1, <2>2, <2>3 DEF Standing
  <2> QED
    BY <1>10, <2>2, <2>4
<1> QED
  BY <1>14, <1>15

-----------------------------------------------------------------------------
(* The invariant.                                                          *)

FilterInv == FilterTypes /\ RawSoFar /\ RawSoFarExact /\ HtmlSoFar

LEMMA InitFilterInv == FilterInit => FilterInv
<1> SUFFICES ASSUME FilterInit PROVE FilterInv
  OBVIOUS
<1>1. /\ txtformat \in DOMAIN Elements /\ x = 0 /\ buffer = <<>> /\ done = FALSE
      /\ page \in BoundedSeq(Elements[txtformat], MaxElements)
      /\ token = Closed /\ special = Closed /\ insidescript = FALSE /\ insidebody = FALSE
  BY DEF FilterInit
<1>2. page \in Seq(Elements[txtformat])
  <2>1. PICK n \in 0 .. MaxElements : page \in [1 .. n -> Elements[txtformat]]
    BY <1>1 DEF BoundedSeq, SeqOf
  <2>2. n \in Nat
    BY <2>1, TextFilterAssumption
  <2> QED
    BY <2>1, <2>2, SeqDef
<1>3. Len(cache) \in Nat /\ Len(page) \in Nat /\ cache \in Seq(STRING) /\ page \in Seq(Seq(STRING))
  BY <1>1, <1>2, PageTypes
<1>4. FilterTypes
  <2>1. 0 \in 0 .. Len(cache)
    BY <1>3
  <2>2. buffer \in Seq(Symbol)
    BY <1>1, Symbols
  <2> QED
    BY <1>1, <1>2, <2>1, <2>2 DEF FilterTypes
<1>5. RawSoFar
  <2>1. SubSeq(cache, 1, 0) = <<>>
    BY <1>3
  <2> QED
    BY <1>1, <2>1 DEF RawSoFar
<1>6. RawSoFarExact
  <2>1. SubSeq(cache, 1, 0) = <<>>
    BY <1>3
  <2> QED
    BY <1>1, <2>1, SeeableFacts DEF RawSoFarExact
<1>7. HtmlSoFar
  <2>1. SubSeq(page, 1, 0) = <<>> /\ SubSeq(Saying, 1, 0) = <<>>
    OBVIOUS
  <2>2. Start(0) = 0 /\ Said(0) = <<>>
    BY <2>1, NothingFlat, EmptySeq DEF Start, Said
  <2>3. InBody(0 + 1) = FALSE
    BY DEF InBody
  <2>4. Words(buffer) = <<>>
    BY <1>1, WordsFacts
  <2>5. Standing(0, 0)
    <3>1. 0 <= Len(page) /\ x = Start(0) + 0
      BY <1>1, <1>3, <2>2
    <3>2. insidebody = InBody(0 + 1)
      BY <1>1, <2>3
    <3>3. Words(buffer) = Said(0)
      BY <2>2, <2>4
    <3>4. Outside
      BY <1>1 DEF Outside
    <3> QED
      BY <3>1, <3>2, <3>3, <3>4 DEF Standing
  <2> QED
    BY <2>5 DEF HtmlSoFar
<1> QED
  BY <1>4, <1>5, <1>6, <1>7 DEF FilterInv

LEMMA NextFilterInv == FilterInv /\ [FilterNext]_filtervars => FilterInv'
<1> SUFFICES ASSUME FilterInv, [FilterNext]_filtervars PROVE FilterInv'
  OBVIOUS
<1>1. FilterTypes /\ RawSoFar /\ RawSoFarExact /\ HtmlSoFar
  BY DEF FilterInv
<1>2. ASSUME UNCHANGED <<txtformat, page, x, buffer, html>>, done' \in {done, TRUE},
             txtformat # "RAW" \/ done' = done
      PROVE  FilterInv'
  <2>0. cache' = cache /\ Len(cache)' = Len(cache)
    BY <1>2 DEF cache, Bytes
  <2>1. FilterTypes'
    BY <1>1, <1>2, <2>0 DEF FilterTypes
  <2>2. RawSoFar'
    <3>1. Kept(SubSeq(cache, 1, x))' = Kept(SubSeq(cache, 1, x)) /\ Kept(buffer)' = Kept(buffer)
      BY <1>2, <2>0 DEF Kept
    <3> QED
      BY <1>1, <1>2, <3>1 DEF RawSoFar
  <2>3. RawSoFarExact'
    <3>1. /\ Seeable(SubSeq(cache, 1, x))' = Seeable(SubSeq(cache, 1, x)) /\ buffer' = buffer
          /\ NoTabs' = NoTabs
      BY <1>2, <2>0 DEF Seeable, NoTabs
    <3>2. txtformat' = txtformat /\ (txtformat = "RAW" => done' = done)
      BY <1>2
    <3> DEFINE said == Seeable(SubSeq(cache, 1, x))
    <3>3. said' = said
      BY <3>1
    <3> HIDE DEF said
    <3>4. Untrimmed(buffer, said)' = Untrimmed(buffer, said)
      BY <3>1, <3>3 DEF Untrimmed, EndsInDot
    <3> QED
      BY <1>1, <3>1, <3>2, <3>3, <3>4 DEF RawSoFarExact, said
  <2>4. HtmlSoFar'
    <3> SUFFICES ASSUME txtformat' = "HTM", WellFormed' PROVE \E k, j \in Nat : Standing(k, j)'
      BY DEF HtmlSoFar
    <3>1. txtformat = "HTM" /\ WellFormed
      BY <1>2 DEF WellFormed
    <3>2. PICK k, j \in Nat : Standing(k, j)
      BY <1>1, <3>1 DEF HtmlSoFar
    <3>3. Standing(k, j)'
      BY <1>2, <3>2 DEF html, Standing, Start, Said, Saying, InBody, Words, Outside, Closed,
        Within, WithinTag, WithinScript, WithinEntity, Named
    <3> QED
      BY <3>3
  <2> QED
    BY <2>1, <2>2, <2>3, <2>4 DEF FilterInv
<1>3. CASE UNCHANGED filtervars
  BY <1>2, <1>3 DEF filtervars, given
<1>4. CASE FilterNext /\ txtformat = "HTM"
  <2>1. HtmlEnd \/ ReadsByte
    BY <1>1, <1>4, HtmlReads DEF FilterTypes
  <2>2. CASE HtmlEnd
    BY <1>2, <2>2 DEF HtmlEnd, given
  <2>3. CASE ReadsByte
    <3>1. UNCHANGED <<txtformat, page, done>> /\ x < Len(cache) /\ Reads(Byte)
      BY <2>3 DEF ReadsByte
    <3>2. RawSoFar' /\ RawSoFarExact'
      BY <1>4, <3>1 DEF RawSoFar, RawSoFarExact
    <3>3. CASE WellFormed
      <4>1. PICK k, j \in Nat : Standing(k, j)
        BY <1>1, <1>4, <3>3 DEF HtmlSoFar
      <4>2. FilterTypes' /\ \E m, n \in Nat : Standing(m, n)'
        BY <1>1, <1>4, <2>3, <3>3, <4>1, ReadsKeeps
      <4> QED
        BY <3>2, <4>2 DEF FilterInv, HtmlSoFar
    <3>4. CASE ~WellFormed
      <4>1. HtmlSoFar'
        BY <3>1, <3>4 DEF HtmlSoFar, WellFormed
      <4>2. Byte \in STRING /\ x + 1 \in 0 .. Len(cache) /\ x' = x + 1 /\ cache' = cache
        BY <1>1, <2>3, <3>1, OneByte DEF ReadsByte, cache, Bytes
      <4>3. buffer' \in Seq(Symbol)
        <5>1. buffer \in Seq(Symbol)
          BY <1>1 DEF FilterTypes
        <5>2. \A c \in Symbol : buffer \o <<c>> \in Seq(Symbol)
          BY <5>1, Symbols, ConcatProperties
        <5>3. PICK b \in Symbol : b = Byte
          BY <4>2, Symbols
        <5>4. \/ buffer' = buffer
              \/ \E c \in {b, "sp", "lf", "_"} : buffer' = buffer \o <<c>>
          BY <3>1, <5>3, Zenon DEF Reads
        <5> QED
          BY <5>1, <5>2, <5>3, <5>4, Symbols
      <4>4. FilterTypes'
        BY <1>1, <3>1, <4>2, <4>3 DEF FilterTypes
      <4> QED
        BY <3>2, <4>1, <4>4 DEF FilterInv
    <3> QED
      BY <3>3, <3>4
  <2> QED
    BY <2>1, <2>2, <2>3
<1>5. CASE FilterNext /\ txtformat # "HTM"
  <2>1. RawByte \/ RawEnd
    BY <1>5 DEF FilterNext, ScriptByte, HtmlSpace, TagOpens, TagCloses, StrayGreater,
      TagByte, EntityOpens, EntityByte, EntityCloses, Text, HtmlEnd, Other, HtmlByte
  <2>2. FilterTypes' /\ RawSoFar' /\ RawSoFarExact'
    BY <1>1, <2>1, RawByteKeeps, RawEndKeeps, RawByteKeepsExact, RawEndKeepsExact
  <2>3. txtformat' # "HTM"
    BY <1>5, <2>1 DEF RawByte, RawEnd, Advance, given
  <2> QED
    BY <2>2, <2>3 DEF FilterInv, HtmlSoFar
<1> QED
  BY <1>3, <1>4, <1>5

LEMMA FilterInvariance == FilterSpec => []FilterInv
<1> QED
  BY InitFilterInv, NextFilterInv, PTL DEF FilterSpec

\* What display_text() puts into its buffer is the text of the page.  Raw text
\* without TABs and backspaces is copied as it is but for a dot alone on the
\* last line, if no other line with a full stop is the last; of other raw text
\* the letters, line feeds and dots are there; of HTML the words of the body.
\* For pages of any length, made of any raw bytes, or of any whole tags,
\* scripts and entities.
THEOREM CopiesTheText == FilterSpec => []TextCopied
<1>1. FilterInv => TextCopied
  <2> SUFFICES ASSUME FilterInv PROVE TextCopied
    OBVIOUS
  <2>1. FilterTypes /\ RawSoFar /\ RawSoFarExact /\ HtmlSoFar
    BY DEF FilterInv
  <2>2. RawKept /\ RawExact
    BY <2>1 DEF RawSoFar, RawSoFarExact, RawKept, RawExact
  <2>3. BodyShown
    <3> SUFFICES ASSUME txtformat = "HTM", Entire, WellFormed
                 PROVE  Words(buffer) = BodyWords
      BY DEF BodyShown
    <3>1. PICK k, j \in Nat : Standing(k, j)
      BY <2>1 DEF HtmlSoFar
    <3>2. x = Len(cache) /\ x = Start(k) + j /\ k <= Len(page)
      BY <3>1 DEF Entire, Standing
    <3>3. Len(page) \in Nat
      BY <2>1, PageTypes DEF FilterTypes
    <3>4. ASSUME k < Len(page) PROVE FALSE
      <4>1. /\ Start(k) \in Nat /\ Len(page[k + 1]) \in Nat
            /\ Start(k) + Len(page[k + 1]) <= Len(cache)
        BY <2>1, <3>4, ElementAt
      <4>2. Len(page[k + 1]) >= 1
        <5>1. k + 1 \in 1 .. Len(page)
          BY <3>3, <3>4
        <5> QED
          BY <2>1, <5>1, HtmlElements, ElementBytes
      <4>3. j < Len(page[k + 1])
        BY <3>1, <4>1, <4>2 DEF Standing
      <4> QED
        BY <2>1, <3>2, <4>1, <4>3, PageTypes DEF FilterTypes
    <3>5. k = Len(page)
      BY <3>2, <3>3, <3>4
    <3>6. Words(buffer) = FlattenSeq(SubSeq(Saying, 1, Len(page)))
      BY <3>1, <3>5 DEF Standing, Said
    <3>7. /\ Saying \in Seq(Seq(Symbol)) /\ Len(Saying) = Len(page)
          /\ BodyWords = FlattenSeq(Saying)
      BY <2>1, SayingFacts
    <3>8. SubSeq(Saying, 1, Len(page)) = Saying
      BY <3>7, SubSeqFull
    <3> QED
      BY <3>6, <3>7, <3>8
  <2> QED
    BY <2>2, <2>3 DEF TextCopied
<1> QED
  BY <1>1, FilterInvariance, PTL

-----------------------------------------------------------------------------
(* menu_explode(): how much of a buffer one turn of wordwrap() takes.      *)

LEMMA PieceType ==
    ASSUME NEW str \in Seq(Char), NEW i \in 1 .. Len(str) + 1,
           NEW n \in Nat, i + n <= Len(str) + 1
    PROVE  Piece(str, i, n) \in Seq(Char) /\ Len(Piece(str, i, n)) = n
<1> DEFINE p == Piece(str, i, n)
<1>1. Len(str) \in Nat /\ \A k \in 1 .. Len(str) : str[k] \in Char
  BY LenProperties, ElementOfSeq
<1>2. \A k \in 1 .. n : i + k - 1 \in 1 .. Len(str)
  BY <1>1
<1>3. p \in [1 .. n -> Char] /\ DOMAIN p = 1 .. n
  BY <1>1, <1>2, Marks DEF Piece
<1> HIDE DEF p
<1>4. p \in Seq(Char)
  BY <1>3, SeqDef
<1>5. Len(p) = n
  BY <1>3, <1>4, LenProperties
<1> QED
  BY <1>4, <1>5 DEF p

\* What wordwrap() makes of any buffer: a line and a position.
LEMMA WordwrapType ==
    ASSUME NEW str \in Seq(Char), NEW i \in 1 .. Len(str) + 1, NEW width \in Nat \ {0}
    PROVE  /\ Len(wordwrap(str, i, width).line) \in 0 .. Len(str) + 1 - i
           /\ wordwrap(str, i, width).next \in 0 .. Len(str) + 1
<1> DEFINE len == Len(str)
           eol == FirstIn(str, i, {NUL, LF})
           stop == Stop(str, i, width)
           spaces == Spaces(str, i, stop)
           cr == IF stop > i /\ At(str, stop - 1) = CR THEN 1 ELSE 0
           w == wordwrap(str, i, width)
<1>1. len \in Nat /\ len + 1 \in i .. len + 1 /\ At(str, len + 1) = NUL
  <2>1. len \in Nat
    BY LenProperties
  <2> QED
    BY <2>1 DEF At
<1>2. eol \in i .. len + 1
  BY <1>1, FirstFound
<1>3. stop \in {eol, i + width} /\ stop <= eol /\ stop <= i + width
  <2> HIDE DEF eol
  <2>1. \E u \in {eol, i + width} : \A n \in {eol, i + width} : u <= n
    BY <1>1, <1>2
  <2> QED
    BY <2>1 DEF Stop, eol, Min
<1> HIDE DEF eol
<1>4. stop \in i .. len + 1
  BY <1>1, <1>2, <1>3
<1> HIDE DEF stop
<1>5. \A n \in 0 .. stop - i : Len(Piece(str, i, n)) = n /\ n \in 0 .. len + 1 - i
  <2>1. \A n \in 0 .. stop - i : n \in Nat /\ i + n <= len + 1 /\ n \in 0 .. len + 1 - i
    BY <1>1, <1>4
  <2> QED
    BY <2>1, PieceType
<1>6. CASE At(str, stop) = NUL
  <2>1. w = [line |-> Piece(str, i, stop - i), next |-> 0]
    BY <1>6 DEF wordwrap, stop
  <2>2. stop - i \in 0 .. stop - i
    BY <1>1, <1>4
  <2> HIDE DEF w
  <2>3. w.line = Piece(str, i, stop - i) /\ w.next = 0
    BY <2>1
  <2> QED
    BY <1>1, <1>5, <2>2, <2>3 DEF w
<1>7. CASE At(str, stop) # NUL /\ stop < i + width
  <2>1. w = [line |-> Piece(str, i, stop - i - cr), next |-> stop + 1]
    BY <1>7 DEF wordwrap, stop
  <2>2. stop - i - cr \in 0 .. stop - i
    BY <1>1, <1>4
  <2>3. stop # len + 1
    BY <1>1, <1>7
  <2> HIDE DEF w, cr
  <2>4. w.line = Piece(str, i, stop - i - cr) /\ w.next = stop + 1
    BY <2>1
  <2> QED
    BY <1>1, <1>4, <1>5, <2>2, <2>3, <2>4 DEF w
<1>8. CASE At(str, stop) # NUL /\ ~(stop < i + width) /\ spaces = {}
  <2>1. w = [line |-> Piece(str, i, stop - i), next |-> stop]
    BY <1>8 DEF wordwrap, stop, CutWord
  <2>2. stop - i \in 0 .. stop - i
    BY <1>1, <1>4
  <2> HIDE DEF w
  <2>3. w.line = Piece(str, i, stop - i) /\ w.next = stop
    BY <2>1
  <2> QED
    BY <1>1, <1>4, <1>5, <2>2, <2>3 DEF w
<1>9. CASE At(str, stop) # NUL /\ ~(stop < i + width) /\ spaces # {}
  <2> DEFINE j == Max(spaces)
             rest == FirstNotIn(str, j, {SPACE})
  <2>1. spaces \subseteq 0 .. len + 1
    BY <1>1, <1>4 DEF Spaces
  <2>2. j \in spaces
    <3>1. len + 1 \in Nat
      BY <1>1
    <3> HIDE DEF spaces
    <3> QED
      BY <1>9, <2>1, <3>1, GreatestNumber
  <2>3. w = [line |-> Piece(str, i, j - i), next |-> IF At(str, rest) = NUL THEN 0 ELSE rest]
    BY <1>9 DEF wordwrap, stop, CutAtSpace
  <2> HIDE DEF j
  <2>4. j \in i + 1 .. stop
    BY <2>2 DEF Spaces
  <2>5. j \in 1 .. len + 1 /\ j - i \in 0 .. stop - i
    BY <1>1, <1>4, <2>4
  <2>6. rest \in j .. len + 1
    BY <2>5, FirstOther, Marks
  <2> HIDE DEF w, rest
  <2>7. w.line = Piece(str, i, j - i) /\ w.next \in {0, rest}
    BY <2>3
  <2> QED
    BY <1>1, <1>5, <2>5, <2>6, <2>7 DEF w
<1> QED
  BY <1>6, <1>7, <1>8, <1>9 DEF spaces

\* What it makes of a text without separators that ends at z.  What is not in
\* the line and not in the rest is white space, unless a word was cut.
Taken(str, i, width, w, z) ==
    LET end == i + Len(w.line)
    IN  /\ end \in i .. z /\ (i < z => i < end)
        /\ \/ w.next = 0 /\ \A k \in end .. z - 1 : str[k] = SPACE
           \/ /\ w.next \in end .. z - 1 /\ i < w.next /\ i + width < z
              /\ \A k \in end .. w.next - 1 : str[k] = SPACE
              /\ \/ end < w.next /\ str[w.next] # SPACE
                 \/ \A k \in i + 1 .. i + width : str[k] # SPACE

LEMMA WordwrapTakes ==
    ASSUME NEW str \in Seq(Char), NEW i \in 1 .. Len(str) + 1, NEW width \in Nat \ {0},
           NEW z \in i .. Len(str) + 1, At(str, z) = NUL,
           \A k \in i .. z - 1 : str[k] \notin {NUL, TAB, CR, LF}
    PROVE  Taken(str, i, width, wordwrap(str, i, width), z)
<1> DEFINE len == Len(str)
           stop == Stop(str, i, width)
           spaces == Spaces(str, i, stop)
           w == wordwrap(str, i, width)
<1>1. /\ len \in Nat /\ i \in Nat /\ z \in Nat
      /\ \A k \in i .. z - 1 : k \in 1 .. len /\ At(str, k) = str[k]
  <2>1. len \in Nat
    BY LenProperties
  <2> QED
    BY <2>1 DEF At
<1>2. FirstIn(str, i, {NUL, LF}) = z
  <2>1. At(str, z) \in {NUL, LF} /\ \A k \in i .. z - 1 : At(str, k) \notin {NUL, LF}
    BY <1>1
  <2> QED
    BY <2>1, FirstIsUnique
<1>3. stop \in {z, i + width} /\ stop <= z /\ stop <= i + width
  <2>1. \E u \in {z, i + width} : \A n \in {z, i + width} : u <= n
    BY <1>1
  <2> QED
    BY <1>2, <2>1 DEF Stop, Min
<1> HIDE DEF stop
<1>4. stop \in i .. z /\ (i < z => i < stop)
  BY <1>1, <1>3
<1>5. \A n \in 0 .. stop - i : Len(Piece(str, i, n)) = n
  <2>1. \A n \in 0 .. stop - i : n \in Nat /\ i + n <= len + 1
    BY <1>1, <1>4
  <2> QED
    BY <2>1, PieceType
<1>6. CASE At(str, stop) = NUL
  <2>1. w = [line |-> Piece(str, i, stop - i), next |-> 0]
    BY <1>6 DEF wordwrap, stop
  <2>2. stop = z
    <3>1. stop \notin i .. z - 1
      BY <1>1, <1>6
    <3> QED
      BY <1>1, <1>4, <3>1
  <2>3. stop - i \in 0 .. stop - i /\ i + (stop - i) = z
    BY <1>1, <1>4, <2>2
  <2> HIDE DEF w
  <2>4. i + Len(w.line) = z /\ w.next = 0
    BY <1>5, <2>1, <2>3
  <2> QED
    BY <1>1, <2>4 DEF Taken, w
<1>7. CASE At(str, stop) # NUL
  <2>1. stop = i + width /\ stop < z /\ ~(stop < i + width) /\ stop \in i .. z - 1
    BY <1>1, <1>3, <1>4, <1>7
  <2>2. \A k \in i + 1 .. stop : k \in spaces <=> str[k] = SPACE
    <3>1. \A k \in i + 1 .. stop : k \in i .. z - 1
      BY <1>1, <1>4, <2>1
    <3>2. \A k \in i + 1 .. stop : At(str, k) \in {SPACE, TAB} <=> str[k] = SPACE
      BY <1>1, <3>1
    <3> QED
      BY <3>2 DEF Spaces
  <2>3. CASE spaces = {}
    <3>1. w = [line |-> Piece(str, i, stop - i), next |-> stop]
      BY <1>7, <2>1, <2>3 DEF wordwrap, stop, CutWord
    <3>2. stop - i \in 0 .. stop - i /\ i + (stop - i) = stop
      BY <1>1, <1>4
    <3> HIDE DEF w
    <3>3. i + Len(w.line) = stop /\ w.next = stop
      BY <1>5, <3>1, <3>2
    <3>4. \A k \in i + 1 .. i + width : str[k] # SPACE
      BY <2>1, <2>2, <2>3
    <3> QED
      BY <1>1, <1>4, <2>1, <3>3, <3>4 DEF Taken, w
  <2>4. CASE spaces # {}
    <3> DEFINE j == Max(spaces)
               rest == FirstNotIn(str, j, {SPACE})
    <3>1. spaces \subseteq i + 1 .. stop /\ spaces \subseteq 0 .. len + 1
      BY <1>1, <1>4 DEF Spaces
    <3>2. j \in spaces
      <4>1. len + 1 \in Nat
        BY <1>1
      <4> HIDE DEF spaces
      <4> QED
        BY <2>4, <3>1, <4>1, GreatestNumber
    <3>3. w = [line |-> Piece(str, i, j - i), next |-> IF At(str, rest) = NUL THEN 0 ELSE rest]
      BY <1>7, <2>1, <2>4 DEF wordwrap, stop, CutAtSpace
    <3> HIDE DEF j, spaces
    <3>4. j \in i + 1 .. stop /\ str[j] = SPACE /\ At(str, j) = SPACE /\ j \in 1 .. len + 1
      <4>1. j \in i + 1 .. stop /\ j \in i .. z - 1
        BY <1>1, <1>4, <2>1, <3>1, <3>2
      <4> QED
        BY <1>1, <2>2, <3>2, <4>1
    <3>5. /\ rest \in j .. len + 1 /\ At(str, rest) # SPACE
          /\ \A k \in j .. rest - 1 : At(str, k) = SPACE
      BY <3>4, FirstOther, Marks
    <3> HIDE DEF rest
    <3>6. rest \in j + 1 .. z
      <4>1. z \notin j .. rest - 1
        BY <3>5, Marks
      <4>2. rest # j
        BY <3>4, <3>5
      <4> QED
        BY <1>1, <1>4, <3>4, <3>5, <4>1, <4>2
    <3>7. \A k \in j .. rest - 1 : str[k] = SPACE
      <4>1. \A k \in j .. rest - 1 : k \in i .. z - 1
        BY <1>1, <1>4, <3>4, <3>6
      <4> QED
        BY <1>1, <3>5, <4>1
    <3>8. j - i \in 0 .. stop - i /\ i + (j - i) = j
      BY <1>1, <1>4, <3>4
    <3> HIDE DEF w
    <3>9. i + Len(w.line) = j /\ w.next = IF At(str, rest) = NUL THEN 0 ELSE rest
      BY <1>5, <3>3, <3>8
    <3>10. CASE rest = z
      BY <1>1, <1>4, <3>4, <3>7, <3>9, <3>10 DEF Taken, w
    <3>11. CASE rest < z
      <4>1. rest \in i .. z - 1
        BY <1>1, <3>4, <3>6, <3>11
      <4>2. w.next = rest /\ str[rest] # SPACE
        BY <1>1, <3>5, <3>9, <4>1
      <4> QED
        BY <1>1, <1>4, <2>1, <3>4, <3>6, <3>7, <3>9, <4>1, <4>2 DEF Taken, w
    <3> QED
      BY <1>1, <3>6, <3>10, <3>11
  <2> QED
    BY <2>3, <2>4
<1> QED
  BY <1>6, <1>7

-----------------------------------------------------------------------------
(* The types of menu_explode().                                            *)

TypeChar == Char \cup {"i"}
EntryRecord == [type : TypeChar, selector : Nat, host : Nat, port : Nat]
Line == [text : Nat \ {0}, selector : Nat, host : Nat, port : Nat, type : TypeChar,
         continued : BOOLEAN]

ExplodeTypes ==
    /\ menu \in [sources : Seq(Sources), end : Ends]
    /\ buf \in Seq(Char) /\ Len(buf) = Len(MenuBytes(menu))
    /\ cursor \in 1 .. Len(buf) + 1
    /\ entry \in EntryRecord
    /\ wrapptr \in 1 .. Len(buf) + 1 /\ firstiteration \in BOOLEAN
    /\ lines \in Seq(Line)
    /\ firstlinkline \in Int /\ lastlinkline \in Int

\* The lines of a menu with their ends.
Ended(m) == [i \in 1 .. Len(m.sources) |-> m.sources[i] \o m.end]

LEMMA SourceFacts ==
    ASSUME NEW m \in [sources : Seq(Sources), end : Ends]
    PROVE  /\ Len(m.sources) \in Nat
           /\ \A i \in 1 .. Len(m.sources) : m.sources[i] \in Seq(STRING)
           /\ \A i \in 1 .. Len(m.sources) : m.sources[i] \in Sources
           /\ m.end \in {<<LF>>, <<CR, LF>>} /\ m.end \in Seq({CR, LF})
           /\ m.end = <<LF>> => Len(m.end) = 1 /\ m.end[1] = LF
           /\ m.end # <<LF>> => Len(m.end) = 2 /\ m.end[1] = CR /\ m.end[2] = LF
<1>1. m.sources \in Seq(Sources) /\ m.end \in {<<LF>>, <<CR, LF>>}
  BY MenuExplodeAssumption
<1>2. Len(m.sources) \in Nat /\ \A i \in 1 .. Len(m.sources) : m.sources[i] \in Sources
  BY <1>1, LenProperties, ElementOfSeq
<1>3. \A i \in 1 .. Len(m.sources) : m.sources[i] \in Seq(STRING)
  BY <1>2, MenuExplodeAssumption
<1>4. /\ <<LF>> \in Seq({CR, LF}) /\ Len(<<LF>>) = 1 /\ <<LF>>[1] = LF
      /\ <<CR, LF>> \in Seq({CR, LF}) /\ Len(<<CR, LF>>) = 2
      /\ <<CR, LF>>[1] = CR /\ <<CR, LF>>[2] = LF
  OBVIOUS
<1> QED
  BY <1>1, <1>2, <1>3, <1>4

LEMMA EndedFacts ==
    ASSUME NEW m \in [sources : Seq(Sources), end : Ends]
    PROVE  /\ Ended(m) \in Seq(Seq(Char)) /\ Len(Ended(m)) = Len(m.sources)
           /\ \A i \in 1 .. Len(m.sources) :
                /\ Ended(m)[i] = m.sources[i] \o m.end
                /\ Len(Ended(m)[i]) = Len(m.sources[i]) + Len(m.end)
                /\ \A j \in 1 .. Len(m.sources[i]) : Ended(m)[i][j] = m.sources[i][j]
                /\ \A j \in 1 .. Len(m.end) :
                     Ended(m)[i][Len(m.sources[i]) + j] = m.end[j]
           /\ MenuBytes(m) = FlattenSeq(Ended(m))
           /\ MenuBytes(m) \in Seq(Char) /\ Len(MenuBytes(m)) \in Nat
<1>1. /\ Len(m.sources) \in Nat /\ m.end \in Seq(Char)
      /\ \A i \in 1 .. Len(m.sources) : m.sources[i] \in Seq(Char)
  <2>1. STRING \subseteq Char /\ {CR, LF} \subseteq Char
    BY DEF Char
  <2>2. Seq(STRING) \subseteq Seq(Char) /\ Seq({CR, LF}) \subseteq Seq(Char)
    BY <2>1, SeqMonotonic
  <2> QED
    BY <2>2, SourceFacts
<1>2. ASSUME NEW s \in Seq(Char), NEW t \in Seq(Char)
      PROVE  /\ s \o t \in Seq(Char) /\ Len(s \o t) = Len(s) + Len(t)
             /\ \A j \in 1 .. Len(s) : (s \o t)[j] = s[j]
             /\ \A j \in 1 .. Len(t) : (s \o t)[Len(s) + j] = t[j]
  <2> DEFINE st == s \o t
  <2>1. /\ st \in Seq(Char) /\ Len(st) = Len(s) + Len(t)
        /\ \A i \in 1 .. Len(s) + Len(t) : st[i] = IF i <= Len(s) THEN s[i] ELSE t[i - Len(s)]
        /\ Len(s) \in Nat /\ Len(t) \in Nat
    BY ConcatProperties, LenProperties
  <2> HIDE DEF st
  <2>2. \A j \in 1 .. Len(s) : st[j] = s[j]
    BY <2>1
  <2>3. \A j \in 1 .. Len(t) : st[Len(s) + j] = t[j]
    <3> SUFFICES ASSUME NEW j \in 1 .. Len(t) PROVE st[Len(s) + j] = t[j]
      OBVIOUS
    <3>1. /\ Len(s) + j \in 1 .. Len(s) + Len(t) /\ ~(Len(s) + j <= Len(s))
          /\ (Len(s) + j) - Len(s) = j
      BY <2>1
    <3> QED
      BY <2>1, <3>1
  <2> QED
    BY <2>1, <2>2, <2>3 DEF st
<1> DEFINE e == Ended(m)
<1>3. e \in [1 .. Len(m.sources) -> Seq(Char)]
  BY <1>1, <1>2 DEF Ended
<1>4. \A i \in 1 .. Len(m.sources) : e[i] = m.sources[i] \o m.end
  BY DEF Ended
<1> HIDE DEF e
<1>5. e \in Seq(Seq(Char)) /\ Len(e) = Len(m.sources)
  <2>1. e \in Seq(Seq(Char))
    BY <1>1, <1>3, SeqDef
  <2>2. DOMAIN e = 1 .. Len(m.sources)
    BY <1>3
  <2> QED
    BY <1>1, <2>1, <2>2, LenProperties
<1>6. MenuBytes(m) = FlattenSeq(e)
  BY DEF MenuBytes, e, Ended
<1>7. MenuBytes(m) \in Seq(Char) /\ Len(MenuBytes(m)) \in Nat
  BY <1>5, <1>6, FlattenInSeq, LenProperties
<1>8. ASSUME NEW i \in 1 .. Len(m.sources)
      PROVE  /\ e[i] = m.sources[i] \o m.end
             /\ Len(e[i]) = Len(m.sources[i]) + Len(m.end)
             /\ \A j \in 1 .. Len(m.sources[i]) : e[i][j] = m.sources[i][j]
             /\ \A j \in 1 .. Len(m.end) : e[i][Len(m.sources[i]) + j] = m.end[j]
  <2> DEFINE s == m.sources[i]
             t == m.end
  <2>1. s \in Seq(Char) /\ t \in Seq(Char) /\ e[i] = s \o t
    BY <1>1, <1>4
  <2> HIDE DEF s, t
  <2>2. /\ Len(s \o t) = Len(s) + Len(t)
        /\ \A j \in 1 .. Len(s) : (s \o t)[j] = s[j]
        /\ \A j \in 1 .. Len(t) : (s \o t)[Len(s) + j] = t[j]
    BY <1>2, <2>1, Zenon
  <2>3. /\ Len(e[i]) = Len(s) + Len(t)
        /\ \A j \in 1 .. Len(s) : e[i][j] = s[j]
        /\ \A j \in 1 .. Len(t) : e[i][Len(s) + j] = t[j]
    BY <2>1, <2>2, Zenon
  <2> QED
    BY <2>1, <2>3 DEF s, t
<1> QED
  BY <1>5, <1>6, <1>7, <1>8, Zenon DEF e

LEMMA InitExplodeTypes == ExplodeInit => ExplodeTypes
<1> SUFFICES ASSUME ExplodeInit PROVE ExplodeTypes
  OBVIOUS
<1>1. /\ menu \in [sources : BoundedSeq(Sources, MaxSources), end : Ends]
      /\ buf = MenuBytes(menu) /\ cursor = 1 /\ entry = NoEntry /\ wrapptr = 1
      /\ firstiteration = TRUE /\ lines = <<>> /\ firstlinkline = -1 /\ lastlinkline = -1
  BY DEF ExplodeInit
<1>2. BoundedSeq(Sources, MaxSources) \subseteq Seq(Sources)
  <2> SUFFICES ASSUME NEW s \in BoundedSeq(Sources, MaxSources) PROVE s \in Seq(Sources)
    OBVIOUS
  <2>1. PICK n \in 0 .. MaxSources : s \in [1 .. n -> Sources]
    BY DEF BoundedSeq, SeqOf
  <2>2. n \in Nat
    BY <2>1, MenuExplodeAssumption
  <2> QED
    BY <2>1, <2>2, SeqDef
<1>3. menu \in [sources : Seq(Sources), end : Ends]
  BY <1>1, <1>2
<1>4. buf \in Seq(Char) /\ Len(buf) \in Nat
  BY <1>1, <1>3, EndedFacts
<1>5. NoEntry \in EntryRecord
  BY DEF NoEntry, EntryRecord, TypeChar
<1>6. <<>> \in Seq(Line)
  BY EmptySeq
<1> QED
  BY <1>1, <1>3, <1>4, <1>5, <1>6 DEF ExplodeTypes

LEMMA LineEndFacts ==
    ASSUME ExplodeTypes, cursor <= Len(buf)
    PROVE  LineEnd \in cursor .. Len(buf)
<1>1. Len(buf) \in Nat /\ cursor \in Nat \ {0}
  BY LenProperties DEF ExplodeTypes
<1>2. CASE \E j \in cursor .. Len(buf) : buf[j] = LF
  <2>1. PICK j \in cursor .. Len(buf) : buf[j] = LF
    BY <1>2
  <2>2. j \in cursor .. Len(buf) + 1 /\ At(buf, j) \in {LF} /\ buf \in Seq(Char)
        /\ cursor \in 1 .. Len(buf) + 1
    BY <1>1, <2>1 DEF At, ExplodeTypes
  <2>3. FirstIn(buf, cursor, {LF}) \in cursor .. j
    BY <2>2, FirstFound
  <2> QED
    BY <1>1, <1>2, <2>3 DEF LineEnd
<1>3. CASE ~(\E j \in cursor .. Len(buf) : buf[j] = LF)
  BY <1>1, <1>3 DEF LineEnd
<1> QED
  BY <1>2, <1>3

LEMMA ColumnType ==
    ASSUME ExplodeTypes, cursor <= Len(buf), NEW id
    PROVE  Column(id) \in 0 .. Len(buf) + 1
<1> DEFINE its == {j \in Tabs(buf, cursor, LineEnd) :
                     Cardinality(Tabs(buf, cursor, j - 1)) % COLIDS = id}
<1>1. Len(buf) \in Nat /\ LineEnd \in 1 .. Len(buf) /\ cursor \in Nat \ {0}
  BY LineEndFacts, LenProperties DEF ExplodeTypes
<1>2. its \subseteq 0 .. Len(buf)
  <2>1. its \subseteq cursor .. LineEnd
    BY DEF Tabs
  <2> HIDE DEF its
  <2> QED
    BY <1>1, <2>1
<1>3. Column(id) = IF its = {} THEN 0 ELSE Max(its) + 1
  BY DEF Column
<1> HIDE DEF its
<1>4. its # {} => Max(its) \in 0 .. Len(buf)
  BY <1>1, <1>2, GreatestNumber
<1> QED
  BY <1>1, <1>3, <1>4

LEMMA SeparatedType ==
    ASSUME ExplodeTypes
    PROVE  Separated \in Seq(Char) /\ Len(Separated) = Len(buf)
<1>1. Len(buf) \in Nat /\ \A j \in 1 .. Len(buf) : buf[j] \in Char
  BY LenProperties, ElementOfSeq DEF ExplodeTypes
<1>2. Separated \in [1 .. Len(buf) -> Char] /\ DOMAIN Separated = 1 .. Len(buf)
  BY <1>1, Marks DEF Separated
<1> HIDE DEF Separated
<1>3. Separated \in Seq(Char)
  BY <1>1, <1>2, SeqDef
<1> QED
  BY <1>1, <1>2, <1>3, LenProperties

LEMMA EntryType ==
    ASSUME ExplodeTypes, cursor <= Len(buf)
    PROVE  Entry \in EntryRecord /\ Entry.type = ItemType
<1>1. Len(buf) \in Nat /\ cursor \in 1 .. Len(buf)
  BY LenProperties DEF ExplodeTypes
<1>2. ItemType \in TypeChar
  <2>1. Separated[cursor] \in Char
    BY <1>1, SeparatedType, ElementOfSeq
  <2> QED
    BY <2>1 DEF ItemType, TypeChar
<1>3. /\ Column(0) \in 0 .. Len(buf) + 1 /\ Column(1) \in 0 .. Len(buf) + 1
      /\ Column(2) \in 0 .. Len(buf) + 1
  BY <1>1, ColumnType
<1>4. Column(0) \in Nat /\ Column(1) \in Nat /\ Column(2) \in Nat
  BY <1>1, <1>3
<1> QED
  BY <1>2, <1>4 DEF Entry, EntryRecord

\* What is kept of a column, which is the column when its offset fits.
LEMMA ReachedFacts ==
    ASSUME wrapptr \in Nat, NEW column \in Nat
    PROVE  /\ Reached(column) \in Nat
           /\ column # 0 /\ column - wrapptr \in 0 .. OFFSETS - 1 => Reached(column) = column
<1> DEFINE far == column - wrapptr
           off == far % OFFSETS
<1>1. far \in Int /\ OFFSETS \in Nat \ {0}
  BY MenuExplodeAssumption
<1> HIDE DEF far
<1>2. off \in Nat /\ (far \in 0 .. OFFSETS - 1 => off = far)
  BY <1>1
<1>3. Reached(column) = IF column = 0 THEN wrapptr ELSE wrapptr + off
  BY DEF Reached, far, off
<1> HIDE DEF off
<1> QED
  BY <1>2, <1>3 DEF far

LEMMA WrapLenFacts == WrapLen \in Nat \ {0} /\ WrapLen >= SCREENW - 4
BY MenuExplodeAssumption DEF WrapLen

\* What the wrapping of a line does to types.
LEMMA WrapLineTypes ==
    ASSUME ExplodeTypes, WrapLine
    PROVE  /\ ExplodeTypes'
           /\ PieceOf(~firstiteration) \in Line
           /\ lines' = Append(lines, PieceOf(~firstiteration))
<1> DEFINE w == wordwrap(buf, wrapptr, WrapLen)
           end == wrapptr + Len(w.line)
<1>1. /\ Len(buf) \in Nat /\ buf \in Seq(Char) /\ wrapptr \in 1 .. Len(buf) + 1
      /\ \A j \in 1 .. Len(buf) : buf[j] \in Char
  BY LenProperties, ElementOfSeq DEF ExplodeTypes
<1>2. Len(w.line) \in 0 .. Len(buf) + 1 - wrapptr /\ w.next \in 0 .. Len(buf) + 1
  BY <1>1, WordwrapType, WrapLenFacts
<1> HIDE DEF w
<1>3. /\ lines' = Append(lines, PieceOf(~firstiteration))
      /\ buf' = IF end <= Len(buf) THEN [buf EXCEPT ![end] = NUL] ELSE buf
      /\ IF w.next = 0 THEN pc' = "line" /\ UNCHANGED wrapptr
         ELSE wrapptr' = w.next /\ UNCHANGED pc
      /\ firstiteration' = FALSE
      /\ UNCHANGED <<menu, cursor, entry, found>>
  BY DEF WrapLine, w
<1>4. wrapptr' \in 1 .. Len(buf) + 1
  <2>1. CASE w.next = 0
    BY <1>1, <1>3, <2>1
  <2>2. CASE w.next # 0
    BY <1>1, <1>2, <1>3, <2>2
  <2> QED
    BY <2>1, <2>2
<1>5. buf' \in Seq(Char) /\ Len(buf') = Len(buf)
  <2>1. CASE end <= Len(buf)
    <3>1. end \in 1 .. Len(buf)
      BY <1>1, <1>2, <2>1
    <3> HIDE DEF end
    <3>2. buf' = [buf EXCEPT ![end] = NUL]
      BY <1>3, <2>1
    <3> QED
      BY <1>1, <3>1, <3>2, Marks, ExceptSeq
  <2>2. CASE ~(end <= Len(buf))
    <3>1. buf' = buf
      BY <1>3, <2>2
    <3> QED
      BY <1>1, <3>1
  <2> QED
    BY <2>1, <2>2
<1>6. PieceOf(~firstiteration) \in Line
  <2>1. /\ wrapptr \in Nat \ {0} /\ entry.selector \in Nat /\ entry.host \in Nat
        /\ entry.port \in Nat /\ entry.type \in TypeChar
    BY <1>1 DEF ExplodeTypes, EntryRecord
  <2>2. (~firstiteration) \in BOOLEAN
    OBVIOUS
  <2> DEFINE c == ~firstiteration
  <2> HIDE DEF c
  <2>3. Reached(entry.selector) \in Nat /\ Reached(entry.host) \in Nat
    BY <2>1, ReachedFacts
  <2>4. PieceOf(c) \in Line
    BY <2>1, <2>2, <2>3 DEF PieceOf, Line, c
  <2> QED
    BY <2>4 DEF c
<1>7. lines' \in Seq(Line)
  BY <1>3, <1>6 DEF ExplodeTypes
<1>8. /\ menu' = menu /\ cursor' = cursor /\ entry' = entry /\ firstlinkline' = firstlinkline
      /\ lastlinkline' = lastlinkline /\ firstiteration' \in BOOLEAN
      /\ MenuBytes(menu)' = MenuBytes(menu)
  BY <1>3 DEF found, MenuBytes
<1> QED
  BY <1>3, <1>4, <1>5, <1>6, <1>7, <1>8 DEF ExplodeTypes

LEMMA ExplodeLineTypes == ExplodeTypes /\ ExplodeLine => ExplodeTypes'
<1> SUFFICES ASSUME ExplodeTypes, ExplodeLine PROVE ExplodeTypes'
  OBVIOUS
<1>1. /\ cursor <= Len(buf) /\ entry' = Entry /\ buf' = Separated
      /\ wrapptr' = cursor + 1 /\ firstiteration' = TRUE /\ cursor' = LineEnd + 1
      /\ menu' = menu /\ lines' = lines
      /\ \/ LinkFound
         \/ UNCHANGED <<firstlinkline, lastlinkline>>
  BY DEF ExplodeLine
<1>2. /\ Len(buf) \in Nat /\ cursor \in 1 .. Len(buf) + 1 /\ Len(lines) \in Nat
      /\ firstlinkline \in Int /\ lastlinkline \in Int
  BY LenProperties DEF ExplodeTypes
<1>3. buf' \in Seq(Char) /\ Len(buf') = Len(buf) /\ MenuBytes(menu)' = MenuBytes(menu)
  BY <1>1, SeparatedType DEF MenuBytes
<1>4. cursor' \in 1 .. Len(buf) + 1 /\ wrapptr' \in 1 .. Len(buf) + 1
  BY <1>1, <1>2, LineEndFacts
<1>5. firstlinkline' \in Int /\ lastlinkline' \in Int
  BY <1>1, <1>2 DEF LinkFound
<1>6. entry' \in EntryRecord
  BY <1>1, EntryType
<1> QED
  BY <1>1, <1>3, <1>4, <1>5, <1>6 DEF ExplodeTypes

LEMMA TrimmedFacts ==
    ASSUME NEW ls \in Seq(Line), ls # <<>>
    PROVE  /\ Front(ls) \in Seq(Line) /\ Len(Front(ls)) = Len(ls) - 1 /\ Len(ls) \in Nat \ {0}
           /\ \A i \in 1 .. Len(ls) - 1 : Front(ls)[i] = ls[i]
           /\ ls[Len(ls)] \in Line
           /\ ls = Front(ls) \o <<ls[Len(ls)]>>
<1>1. Len(ls) \in Nat \ {0}
  BY LenProperties, EmptySeq
<1>2. /\ 1 \in 1 .. Len(ls) + 1 /\ Len(ls) - 1 \in 1 - 1 .. Len(ls)
      /\ (Len(ls) - 1) - 1 + 1 = Len(ls) - 1 /\ Len(ls) \in 1 .. Len(ls)
      /\ \A i \in 1 .. Len(ls) - 1 : 1 + i - 1 = i
  BY <1>1
<1>3. /\ SubSeq(ls, 1, Len(ls) - 1) \in Seq(Line)
      /\ Len(SubSeq(ls, 1, Len(ls) - 1)) = Len(ls) - 1
      /\ \A i \in 1 .. Len(ls) - 1 : SubSeq(ls, 1, Len(ls) - 1)[i] = ls[i]
  BY <1>2, SubSeqFacts
<1>4. ls[Len(ls)] \in Line
  BY <1>2, ElementOfSeq
<1>5. ls = Front(ls) \o <<ls[Len(ls)]>>
  <2>1. /\ Len(ls) \in 1 - 1 .. Len(ls) /\ Len(ls) - 1 \in 1 - 1 .. Len(ls)
        /\ (Len(ls) - 1) + 1 = Len(ls)
    BY <1>1
  <2>2. SubSeq(ls, 1, Len(ls)) = SubSeq(ls, 1, Len(ls) - 1) \o SubSeq(ls, Len(ls), Len(ls))
    BY <1>2, <2>1, SubSeqSplit
  <2>3. SubSeq(ls, 1, Len(ls)) = ls
    BY SubSeqFull
  <2> DEFINE one == SubSeq(ls, Len(ls), Len(ls))
  <2>4. /\ Len(ls) \in 1 .. Len(ls) + 1 /\ Len(ls) \in Len(ls) - 1 .. Len(ls)
        /\ Len(ls) - Len(ls) + 1 = 1 /\ Len(ls) + 1 - 1 = Len(ls) /\ 1 \in 1 .. 1
    BY <1>1
  <2>5. one \in Seq(Line) /\ Len(one) = 1 /\ one[1] = ls[Len(ls)]
    BY <2>4, SubSeqFacts
  <2> HIDE DEF one
  <2>6. one = <<ls[Len(ls)]>>
    BY <2>5
  <2> QED
    BY <2>2, <2>3, <2>6 DEF one, Front
<1> QED
  BY <1>1, <1>3, <1>4, <1>5 DEF Front

\* The end is trimmed.
Trims == TrimDot \/ TrimEmpty
LEMMA TrimsFacts ==
    ASSUME ExplodeTypes, Trims
    PROVE  /\ lines' = lines \/ (lines # <<>> /\ lines' = Front(lines))
           /\ UNCHANGED <<menu, buf, cursor, entry, wrapptr, firstiteration, found>>
           /\ pc \in {"dot", "trim"} /\ pc' = "trim"
BY DEF Trims, TrimDot, TrimEmpty, EndsEmpty, found

\* Steps that only change pc and truncated.
Passes == TooManyLines \/ EndOfMenu \/ Overrun \/ TrimDone
LEMMA PassesFacts ==
    ASSUME Passes
    PROVE  /\ UNCHANGED <<menu, buf, cursor, entry, wrapptr, firstiteration, lines,
                          firstlinkline, lastlinkline>>
           /\ pc' \in {"dot", "overrun", "done"}
BY DEF Passes, TooManyLines, EndOfMenu, Overrun, TrimDone, found

LEMMA ExplodeNextSplit ==
    ExplodeNext <=> ExplodeLine \/ WrapLine \/ Trims \/ Passes
BY DEF ExplodeNext, Trims, Passes

LEMMA NextExplodeTypes == ExplodeTypes /\ [ExplodeNext]_explodevars => ExplodeTypes'
<1> SUFFICES ASSUME ExplodeTypes, [ExplodeNext]_explodevars PROVE ExplodeTypes'
  OBVIOUS
<1>1. CASE ExplodeLine
  BY <1>1, ExplodeLineTypes
<1>2. CASE WrapLine
  BY <1>2, WrapLineTypes
<1>3. CASE Trims
  <2>1. /\ lines' = lines \/ (lines # <<>> /\ lines' = Front(lines))
        /\ UNCHANGED <<menu, buf, cursor, entry, wrapptr, firstiteration, found>>
    BY <1>3, TrimsFacts
  <2>2. lines' \in Seq(Line)
    BY <2>1, TrimmedFacts DEF ExplodeTypes
  <2> QED
    BY <2>1, <2>2 DEF ExplodeTypes, found, MenuBytes
<1>4. CASE Passes
  BY <1>4, PassesFacts DEF ExplodeTypes, MenuBytes
<1>5. CASE UNCHANGED explodevars
  BY <1>5 DEF ExplodeTypes, explodevars, found, MenuBytes
<1> QED
  BY <1>1, <1>2, <1>3, <1>4, <1>5, ExplodeNextSplit

-----------------------------------------------------------------------------
(* The first and the last link line.                                       *)

\* A link was found and is not yet in the table.
Awaited == pc = "wrap" /\ firstiteration /\ isitemtypeselectable(entry.type)

LinkLines ==
    /\ LinksBounded
    /\ \/ firstlinkline = -1 /\ lastlinkline = -1
       \/ 0 <= firstlinkline /\ firstlinkline <= lastlinkline
    /\ Awaited => lastlinkline = Len(lines)
    /\ pc \in {"line", "wrap"} /\ ~Awaited => lastlinkline < Len(lines)

LEMMA InitLinkLines == ExplodeInit => LinkLines
<1> SUFFICES ASSUME ExplodeInit PROVE LinkLines
  OBVIOUS
<1>1. lines = <<>> /\ pc = "line" /\ firstlinkline = -1 /\ lastlinkline = -1 /\ Len(lines) = 0
  BY DEF ExplodeInit
<1> QED
  BY <1>1 DEF LinkLines, LinksBounded, Awaited

LEMMA NextLinkLines ==
    ExplodeTypes /\ LinkLines /\ [ExplodeNext]_explodevars => LinkLines'
<1> SUFFICES ASSUME ExplodeTypes, LinkLines, [ExplodeNext]_explodevars PROVE LinkLines'
  OBVIOUS
<1>1. /\ Len(lines) \in Nat /\ firstlinkline \in Int /\ lastlinkline \in Int
      /\ lines \in Seq(Line)
  BY LenProperties DEF ExplodeTypes
<1>2. CASE ExplodeLine
  <2>1. /\ pc = "line" /\ pc' = "wrap" /\ firstiteration' = TRUE /\ lines' = lines
        /\ entry' = Entry /\ cursor <= Len(buf)
        /\ IF isitemtypeselectable(ItemType) THEN LinkFound
           ELSE UNCHANGED <<firstlinkline, lastlinkline>>
    BY <1>2 DEF ExplodeLine
  <2>2. Awaited' <=> isitemtypeselectable(ItemType)
    BY <2>1, EntryType DEF Awaited, isitemtypeselectable
  <2>3. lastlinkline < Len(lines)
    BY <2>1 DEF LinkLines, Awaited
  <2>4. CASE isitemtypeselectable(ItemType)
    <3>1. /\ firstlinkline' = IF firstlinkline < 0 THEN Len(lines) ELSE firstlinkline
          /\ lastlinkline' = Len(lines)
      BY <2>1, <2>4 DEF LinkFound
    <3>2. 0 <= firstlinkline' /\ firstlinkline' <= lastlinkline'
      BY <1>1, <2>3, <3>1 DEF LinkLines
    <3>3. LinksBounded'
      <4>1. ASSUME NEW i \in 1 .. Len(lines), Selectable(lines[i])
            PROVE  i - 1 \in firstlinkline' .. lastlinkline'
        <5>1. i - 1 \in firstlinkline .. lastlinkline
          BY <4>1 DEF LinkLines, LinksBounded
        <5> QED
          BY <1>1, <2>3, <3>1, <5>1 DEF LinkLines
      <4>2. ASSUME NEW i \in {firstlinkline', lastlinkline'} \cap 0 .. Len(lines) - 1
            PROVE  Selectable(lines[i + 1])
        <5>1. i \in {firstlinkline} \cap 0 .. Len(lines) - 1
          BY <1>1, <3>1
        <5> QED
          BY <5>1 DEF LinkLines, LinksBounded
      <4> QED
        BY <2>1, <4>1, <4>2 DEF LinksBounded
    <3> QED
      BY <1>1, <2>1, <2>2, <2>4, <3>1, <3>2, <3>3 DEF LinkLines
  <2>5. CASE ~isitemtypeselectable(ItemType)
    <3>1. firstlinkline' = firstlinkline /\ lastlinkline' = lastlinkline
      BY <2>1, <2>5
    <3>2. LinksBounded'
      BY <2>1, <3>1 DEF LinkLines, LinksBounded
    <3> QED
      BY <2>1, <2>2, <2>3, <2>5, <3>1, <3>2 DEF LinkLines
  <2> QED
    BY <2>4, <2>5
<1>3. CASE WrapLine
  <2> DEFINE piece == PieceOf(~firstiteration)
  <2>1. piece \in Line /\ lines' = Append(lines, piece)
    BY <1>3, WrapLineTypes
  <2>2. /\ pc = "wrap" /\ pc' \in {"line", "wrap"} /\ firstiteration' = FALSE
        /\ firstlinkline' = firstlinkline /\ lastlinkline' = lastlinkline
    BY <1>3 DEF WrapLine, found
  <2>3. Selectable(piece) <=> Awaited
    BY <2>2 DEF Selectable, Awaited, PieceOf
  <2> HIDE DEF piece
  <2>4. /\ Len(lines') = Len(lines) + 1 /\ lines'[Len(lines) + 1] = piece
        /\ \A i \in 1 .. Len(lines) : lines'[i] = lines[i]
    BY <1>1, <2>1
  <2>5. ~Awaited' /\ lastlinkline' < Len(lines')
    BY <1>1, <2>2, <2>4 DEF Awaited, LinkLines
  <2>6. ASSUME NEW i \in 1 .. Len(lines'), Selectable(lines'[i])
        PROVE  i - 1 \in firstlinkline .. lastlinkline
    <3>1. CASE i \in 1 .. Len(lines)
      BY <2>4, <2>6, <3>1 DEF LinkLines, LinksBounded
    <3>2. CASE i = Len(lines) + 1
      <4>1. Awaited
        BY <2>3, <2>4, <2>6, <3>2
      <4> QED
        BY <1>1, <3>2, <4>1 DEF LinkLines
    <3> QED
      BY <1>1, <2>4, <3>1, <3>2
  <2>7. ASSUME NEW i \in {firstlinkline, lastlinkline} \cap 0 .. Len(lines') - 1
        PROVE  Selectable(lines'[i + 1])
    <3>1. CASE i \in 0 .. Len(lines) - 1
      <4>1. Selectable(lines[i + 1]) /\ i + 1 \in 1 .. Len(lines)
        BY <1>1, <2>7, <3>1 DEF LinkLines, LinksBounded
      <4> QED
        BY <2>4, <4>1
    <3>2. CASE i = Len(lines)
      <4>1. Awaited
        BY <1>1, <2>2, <2>7, <3>2 DEF LinkLines
      <4> QED
        BY <2>3, <2>4, <3>2, <4>1
    <3> QED
      BY <1>1, <2>4, <2>7, <3>1, <3>2
  <2>8. LinksBounded'
    BY <2>2, <2>6, <2>7 DEF LinksBounded
  <2> QED
    BY <2>2, <2>5, <2>8 DEF LinkLines
<1>4. CASE Trims
  <2>1. /\ lines' = lines \/ (lines # <<>> /\ lines' = Front(lines))
        /\ firstlinkline' = firstlinkline /\ lastlinkline' = lastlinkline
        /\ pc' = "trim"
    BY <1>4, TrimsFacts DEF found
  <2>2. Len(lines') \in Nat /\ Len(lines') <= Len(lines)
        /\ \A i \in 1 .. Len(lines') : lines'[i] = lines[i]
    <3>1. CASE lines' = lines
      BY <1>1, <3>1
    <3>2. CASE lines # <<>> /\ lines' = Front(lines)
      <4>1. /\ Len(Front(lines)) = Len(lines) - 1 /\ Len(lines) \in Nat \ {0}
            /\ \A i \in 1 .. Len(lines) - 1 : Front(lines)[i] = lines[i]
        BY <1>1, <3>2, TrimmedFacts
      <4> QED
        BY <3>2, <4>1
    <3> QED
      BY <2>1, <3>1, <3>2
  <2>3. LinksBounded'
    <3>1. ASSUME NEW i \in 1 .. Len(lines'), Selectable(lines'[i])
          PROVE  i - 1 \in firstlinkline .. lastlinkline
      <4>1. i \in 1 .. Len(lines) /\ lines'[i] = lines[i]
        BY <1>1, <2>2
      <4> QED
        BY <3>1, <4>1 DEF LinkLines, LinksBounded
    <3>2. ASSUME NEW i \in {firstlinkline, lastlinkline} \cap 0 .. Len(lines') - 1
          PROVE  Selectable(lines'[i + 1])
      <4>1. i \in 0 .. Len(lines) - 1 /\ lines'[i + 1] = lines[i + 1]
        BY <1>1, <2>2
      <4> QED
        BY <4>1 DEF LinkLines, LinksBounded
    <3> QED
      BY <2>1, <3>1, <3>2 DEF LinksBounded
  <2> QED
    BY <2>1, <2>3 DEF LinkLines, Awaited
<1>5. CASE Passes
  <2>1. /\ lines' = lines /\ firstlinkline' = firstlinkline /\ lastlinkline' = lastlinkline
        /\ pc' \in {"dot", "overrun", "done"}
    BY <1>5, PassesFacts
  <2> QED
    BY <2>1 DEF LinkLines, LinksBounded, Awaited
<1>6. CASE UNCHANGED explodevars
  BY <1>6 DEF LinkLines, LinksBounded, Awaited, explodevars, found
<1> QED
  BY <1>2, <1>3, <1>4, <1>5, <1>6, ExplodeNextSplit

-----------------------------------------------------------------------------
(* Where a source line is in the buffer.                                   *)

Count == Len(menu.sources)
Source(k) == menu.sources[k]
Bytes0 == MenuBytes(menu)
Offset(k) == Joint(Ended(menu), k)
BodyEnd(k) == Offset(k - 1) + Len(Source(k))

LEMMA OffsetEnds ==
    ASSUME ExplodeTypes
    PROVE  Offset(0) = 0 /\ Offset(Count) = Len(buf) /\ Count \in Nat
<1>1. /\ Ended(menu) \in Seq(Seq(Char)) /\ Len(Ended(menu)) = Count
      /\ MenuBytes(menu) = FlattenSeq(Ended(menu)) /\ Count \in Nat
  BY EndedFacts, SourceFacts DEF ExplodeTypes, Count
<1>2. SubSeq(Ended(menu), 1, Count) = Ended(menu)
  BY <1>1, SubSeqFull
<1>3. SubSeq(Ended(menu), 1, 0) = <<>>
  BY <1>1, SubSeqEmpty
<1>4. Len(FlattenSeq(<<>>)) = 0
  BY NothingFlat
<1> QED
  BY <1>1, <1>2, <1>3, <1>4 DEF Offset, Joint, ExplodeTypes

LEMMA SourceAt ==
    ASSUME ExplodeTypes, NEW k \in 1 .. Count
    PROVE  /\ Offset(k - 1) \in Nat /\ Offset(k) \in Nat /\ Offset(k) <= Len(buf)
           /\ Len(buf) \in Nat /\ Len(Source(k)) \in Nat /\ Source(k) \in Seq(STRING)
           /\ BodyEnd(k) \in Offset(k - 1) .. Offset(k) - 1
           /\ \A j \in 1 .. Len(Source(k)) :
                /\ Bytes0[Offset(k - 1) + j] = Source(k)[j]
                /\ Source(k)[j] \notin {NUL, CR, LF}
           /\ \A p \in Offset(k - 1) + 1 .. BodyEnd(k) :
                /\ Bytes0[p] = Source(k)[p - Offset(k - 1)]
                /\ Bytes0[p] \notin {NUL, CR, LF}
           /\ Bytes0[Offset(k)] = LF
           /\ IF menu.end = <<LF>> THEN Offset(k) = BodyEnd(k) + 1
              ELSE Offset(k) = BodyEnd(k) + 2 /\ Bytes0[BodyEnd(k) + 1] = CR
<1> DEFINE e == Ended(menu)
           l == e[k]
           src == Source(k)
           end == menu.end
<1>1. menu \in [sources : Seq(Sources), end : Ends] /\ Len(buf) = Len(Bytes0)
  BY DEF ExplodeTypes, Bytes0
<1>2. /\ Count \in Nat /\ src \in Seq(STRING) /\ src \in Sources /\ Len(src) \in Nat
      /\ end = <<LF>> => Len(end) = 1 /\ end[1] = LF
      /\ end # <<LF>> => Len(end) = 2 /\ end[1] = CR /\ end[2] = LF
  BY <1>1, SourceFacts, LenProperties DEF Count, Source
<1>3. /\ e \in Seq(Seq(Char)) /\ Len(e) = Count /\ Bytes0 = FlattenSeq(e)
      /\ Len(l) = Len(src) + Len(end)
      /\ \A j \in 1 .. Len(src) : l[j] = src[j]
      /\ \A j \in 1 .. Len(end) : l[Len(src) + j] = end[j]
  BY <1>1, EndedFacts DEF Count, Source, Bytes0
<1>4. k - 1 \in Nat /\ k - 1 < Len(e) /\ (k - 1) + 1 = k
  BY <1>2, <1>3
<1> HIDE DEF e
<1>5. /\ Offset(k - 1) \in Nat /\ Len(l) \in Nat /\ Len(Bytes0) \in Nat
      /\ Offset(k) = Offset(k - 1) + Len(l) /\ Offset(k) <= Len(Bytes0)
      /\ \A j \in 1 .. Len(l) : Bytes0[Offset(k - 1) + j] = l[j]
  <2>1. e \in Seq(Seq(Char))
    BY <1>3
  <2>2. ASSUME NEW m \in Nat, m < Len(e)
        PROVE  /\ Joint(e, m) \in Nat /\ Len(e[m + 1]) \in Nat /\ Len(FlattenSeq(e)) \in Nat
               /\ Joint(e, m + 1) = Joint(e, m) + Len(e[m + 1])
               /\ Joint(e, m) + Len(e[m + 1]) <= Len(FlattenSeq(e))
               /\ \A j \in 1 .. Len(e[m + 1]) :
                    FlattenSeq(e)[Joint(e, m) + j] = e[m + 1][j]
    BY <2>1, <2>2, PartAt, Zenon
  <2> DEFINE m == k - 1
  <2>3. m \in Nat /\ m < Len(e) /\ m + 1 = k
    BY <1>4
  <2> HIDE DEF m
  <2>4. /\ Joint(e, m) \in Nat /\ Len(e[k]) \in Nat /\ Len(FlattenSeq(e)) \in Nat
        /\ Joint(e, k) = Joint(e, m) + Len(e[k])
        /\ Joint(e, m) + Len(e[k]) <= Len(FlattenSeq(e))
        /\ \A j \in 1 .. Len(e[k]) : FlattenSeq(e)[Joint(e, m) + j] = e[k][j]
    BY <2>2, <2>3
  <2>5. Joint(e, m) = Offset(k - 1) /\ Joint(e, k) = Offset(k)
    BY DEF Offset, e, m
  <2>6. Bytes0 = FlattenSeq(e)
    BY <1>3
  <2> HIDE DEF l
  <2>7. /\ Offset(k - 1) \in Nat /\ Len(l) \in Nat /\ Len(Bytes0) \in Nat
        /\ Offset(k) = Offset(k - 1) + Len(l) /\ Offset(k - 1) + Len(l) <= Len(Bytes0)
        /\ \A j \in 1 .. Len(l) : Bytes0[Offset(k - 1) + j] = l[j]
    BY <2>4, <2>5, <2>6, Zenon DEF l
  <2> QED
    BY <2>7
<1> HIDE DEF l, end, src
<1>6. Len(end) \in 1 .. 2 /\ Offset(k) = BodyEnd(k) + Len(end)
      /\ BodyEnd(k) = Offset(k - 1) + Len(src)
  BY <1>2, <1>3, <1>5 DEF BodyEnd, src
<1>7. \A j \in 1 .. Len(src) :
        Bytes0[Offset(k - 1) + j] = src[j] /\ src[j] \notin {NUL, CR, LF}
  <2>1. \A j \in 1 .. Len(src) : j \in 1 .. Len(l)
    BY <1>2, <1>3, <1>6
  <2>2. ToSet(src) \cap {NUL, LF, CR} = {} /\ DOMAIN src = 1 .. Len(src)
    BY <1>2, MenuExplodeAssumption, LenProperties
  <2>3. \A j \in 1 .. Len(src) : src[j] \in ToSet(src)
    BY <2>2 DEF ToSet
  <2> QED
    BY <1>3, <1>5, <2>1, <2>2, <2>3
<1>8. ASSUME NEW p \in Offset(k - 1) + 1 .. BodyEnd(k)
      PROVE  Bytes0[p] = src[p - Offset(k - 1)] /\ Bytes0[p] \notin {NUL, CR, LF}
  <2>1. p - Offset(k - 1) \in 1 .. Len(src) /\ Offset(k - 1) + (p - Offset(k - 1)) = p
    BY <1>2, <1>5, <1>6
  <2> QED
    BY <1>7, <2>1
<1>9. \A j \in 1 .. Len(end) : Bytes0[BodyEnd(k) + j] = end[j]
  <2> SUFFICES ASSUME NEW j \in 1 .. Len(end) PROVE Bytes0[BodyEnd(k) + j] = end[j]
    OBVIOUS
  <2>1. Len(src) + j \in 1 .. Len(l) /\ Offset(k - 1) + (Len(src) + j) = BodyEnd(k) + j
    BY <1>2, <1>3, <1>5, <1>6
  <2> QED
    BY <1>3, <1>5, <2>1
<1>10. /\ Bytes0[Offset(k)] = LF
       /\ IF end = <<LF>> THEN Offset(k) = BodyEnd(k) + 1
          ELSE Offset(k) = BodyEnd(k) + 2 /\ Bytes0[BodyEnd(k) + 1] = CR
  <2>1. CASE end = <<LF>>
    <3>1. Bytes0[BodyEnd(k) + 1] = LF
      BY <1>2, <1>9, <2>1
    <3> QED
      BY <1>2, <1>6, <2>1, <3>1
  <2>2. CASE end # <<LF>>
    <3>1. Bytes0[BodyEnd(k) + 1] = CR /\ Bytes0[BodyEnd(k) + 2] = LF
      <4>1. Len(end) = 2 /\ end[1] = CR /\ end[2] = LF
        BY <1>2, <2>2, Zenon
      <4>2. 1 \in 1 .. Len(end) /\ 2 \in 1 .. Len(end)
        BY <4>1
      <4> QED
        BY <1>9, <4>1, <4>2
    <3> QED
      BY <1>2, <1>6, <2>2, <3>1
  <2> QED
    BY <2>1, <2>2
<1>11. BodyEnd(k) \in Offset(k - 1) .. Offset(k) - 1 /\ Offset(k) \in Nat
  BY <1>2, <1>5, <1>6
<1> QED
  BY <1>1, <1>2, <1>5, <1>7, <1>8, <1>10, <1>11 DEF src, end

LEMMA OffsetsGrow ==
    ASSUME ExplodeTypes
    PROVE  /\ \A k \in 0 .. Count : Offset(k) \in 0 .. Len(buf)
           /\ \A k \in 0 .. Count : \A j \in 0 .. k - 1 : Offset(j) < Offset(k)
<1>1. Count \in Nat /\ Offset(0) = 0
  BY OffsetEnds
<1>2. \A k \in 1 .. Count : /\ Offset(k - 1) \in Nat /\ Offset(k) \in Nat
                             /\ Offset(k - 1) < Offset(k) /\ Offset(k) <= Len(buf)
                             /\ Len(buf) \in Nat
  BY SourceAt
<1>3. \A k \in 0 .. Count : Offset(k) \in 0 .. Len(buf)
  <2>1. Len(buf) \in Nat
    BY LenProperties DEF ExplodeTypes
  <2>2. ASSUME NEW k \in 0 .. Count PROVE Offset(k) \in 0 .. Len(buf)
    <3>1. CASE k = 0
      BY <1>1, <2>1, <3>1
    <3>2. CASE k \in 1 .. Count
      BY <1>2, <3>2
    <3> QED
      BY <1>1, <3>1, <3>2
  <2> QED
    BY <2>2
<1> DEFINE Later == {k \in Nat : k <= Count => \A j \in 0 .. k - 1 : Offset(j) < Offset(k)}
<1>4. 0 \in Later
  OBVIOUS
<1>5. ASSUME NEW k \in Nat, k \in Later PROVE k + 1 \in Later
  <2> SUFFICES ASSUME k + 1 <= Count, NEW j \in 0 .. (k + 1) - 1
               PROVE  Offset(j) < Offset(k + 1)
    OBVIOUS
  <2>1. k + 1 \in 1 .. Count /\ (k + 1) - 1 = k /\ k <= Count /\ j \in 0 .. k
    BY <1>1
  <2>2. Offset(k) < Offset(k + 1) /\ Offset(k) \in Nat /\ Offset(k + 1) \in Nat
    BY <1>2, <2>1
  <2>3. j = k \/ (j \in 0 .. k - 1 /\ j \in 0 .. Count)
    BY <1>1, <2>1
  <2>4. j \in 0 .. k - 1 => Offset(j) < Offset(k)
    BY <1>5, <2>1
  <2>5. j \in 0 .. Count => Offset(j) \in Int
    BY <1>3
  <2> QED
    BY <2>2, <2>3, <2>4, <2>5
<1> HIDE DEF Later
<1>6. \A k \in Nat : k \in Later
  BY <1>4, <1>5, NatSetInduction
<1> QED
  BY <1>1, <1>3, <1>6 DEF Later

\* A source line that the table can be compared with, and where its
\* description ends.
UsualSource(k) ==
    IF Source(k) = <<>> THEN menu.end # <<LF>> /\ k > 1 ELSE Source(k)[1] # TAB
Until(k) == FirstIn(Bytes0, Offset(k - 1) + 2, {TAB, CR, LF})

LEMMA UntilFacts ==
    ASSUME ExplodeTypes, NEW k \in 1 .. Count, UsualSource(k)
    PROVE  /\ Until(k) \in Offset(k - 1) + 2 .. Offset(k)
           /\ Bytes0[Until(k)] \in {TAB, CR, LF}
           /\ \A p \in Offset(k - 1) + 2 .. Until(k) - 1 :
                /\ p \in Offset(k - 1) + 1 .. BodyEnd(k)
                /\ Bytes0[p] \notin {NUL, TAB, CR, LF}
           /\ Source(k) # <<>> => Until(k) <= BodyEnd(k) + 1
<1> DEFINE o == Offset(k - 1)
           b == BodyEnd(k)
           z == Until(k)
<1>1. /\ o \in Nat /\ Offset(k) \in Nat /\ Offset(k) <= Len(buf) /\ Len(buf) \in Nat
      /\ b \in o .. Offset(k) - 1 /\ b = o + Len(Source(k)) /\ Len(Source(k)) \in Nat
      /\ Source(k) \in Seq(STRING)
      /\ \A p \in o + 1 .. b : Bytes0[p] \notin {NUL, CR, LF}
      /\ Bytes0[Offset(k)] = LF
      /\ IF menu.end = <<LF>> THEN Offset(k) = b + 1
         ELSE Offset(k) = b + 2 /\ Bytes0[b + 1] = CR
  BY SourceAt DEF BodyEnd
<1>1a. Bytes0[b + 1] \in {CR, LF}
  BY <1>1
<1>2. Len(buf) = Len(Bytes0) /\ Bytes0 \in Seq(Char)
  BY EndedFacts DEF ExplodeTypes, Bytes0
<1>2a. z = FirstIn(Bytes0, o + 2, {TAB, CR, LF}) /\ z = Until(k)
      /\ o = Offset(k - 1) /\ b = BodyEnd(k)
  BY DEF Until
<1> HIDE DEF o, b, z
<1>3. CASE Source(k) # <<>>
  <2>1. b >= o + 1
    BY <1>1, <1>3, EmptySeq
  <2>2. o + 2 \in 1 .. Len(Bytes0) + 1 /\ b + 1 \in o + 2 .. Len(Bytes0) + 1
        /\ b + 1 \in 1 .. Len(Bytes0)
    BY <1>1, <1>2, <2>1
  <2>3. At(Bytes0, b + 1) \in {TAB, CR, LF}
    BY <1>1a, <2>2 DEF At
  <2> DEFINE i == o + 2
             f == b + 1
             bytes == Bytes0
             marks == {TAB, CR, LF}
  <2> HIDE DEF i, f, bytes, marks
  <2>4. /\ FirstIn(bytes, i, marks) \in i .. f
        /\ At(bytes, FirstIn(bytes, i, marks)) \in marks
        /\ \A p \in i .. FirstIn(bytes, i, marks) - 1 : At(bytes, p) \notin marks
    <3>1. /\ bytes \in Seq(Char) /\ i \in 1 .. Len(bytes) + 1
          /\ f \in i .. Len(bytes) + 1 /\ At(bytes, f) \in marks
      BY <1>2, <2>2, <2>3 DEF i, f, bytes, marks
    <3> QED
      BY <3>1, FirstFound, Zenon
  <2>5. /\ z \in o + 2 .. b + 1 /\ At(Bytes0, z) \in {TAB, CR, LF}
        /\ \A p \in o + 2 .. z - 1 : At(Bytes0, p) \notin {TAB, CR, LF}
    BY <1>2a, <2>4 DEF i, f, bytes, marks
  <2>6. /\ \A p \in o + 2 .. z - 1 : p \in o + 1 .. b /\ p <= Len(Bytes0)
        /\ z <= Len(Bytes0) /\ z \in o + 2 .. Offset(k) /\ z <= b + 1
    BY <1>1, <1>2, <2>1, <2>5
  <2>7. /\ \A p \in o + 2 .. z - 1 : Bytes0[p] \notin {NUL, TAB, CR, LF}
        /\ Bytes0[z] \in {TAB, CR, LF}
    BY <1>1, <2>5, <2>6 DEF At
  <2> QED
    BY <1>2a, <2>6, <2>7
<1>4. CASE Source(k) = <<>>
  <2>1. menu.end # <<LF>> /\ Len(Source(k)) = 0
    BY <1>4, EmptySeq DEF UsualSource
  <2>2. o + 2 = Offset(k)
    BY <1>1, <2>1
  <2>3. /\ o + 2 \in 1 .. Len(Bytes0) + 1 /\ o + 2 \in 1 .. Len(Bytes0)
        /\ o + 2 \in o + 2 .. Len(Bytes0) + 1
    BY <1>1, <1>2, <2>2
  <2>4. At(Bytes0, o + 2) \in {TAB, CR, LF}
    BY <1>1, <2>2, <2>3 DEF At
  <2>5. z \in o + 2 .. o + 2
    BY <1>2, <1>2a, <2>3, <2>4, FirstFound
  <2>6. z = o + 2 /\ o + 2 .. z - 1 = {}
    BY <1>1, <2>5
  <2> QED
    BY <1>1, <1>1a, <1>2a, <1>4, <2>2, <2>6
<1> QED
  BY <1>3, <1>4

\* What the description of a line is in the menu.
LEMMA DescriptionAt ==
    ASSUME ExplodeTypes, NEW k \in 1 .. Count, UsualSource(k)
    PROVE  /\ Description(Source(k)) = SubSeq(Bytes0, Offset(k - 1) + 2, Until(k) - 1)
           /\ Description(Source(k)) \in Seq(Char)
           /\ Len(Description(Source(k))) = Until(k) - Offset(k - 1) - 2
           /\ \A j \in 1 .. Len(Description(Source(k))) :
                Description(Source(k))[j] = Bytes0[Offset(k - 1) + 1 + j]
<1> DEFINE src == Source(k)
           o == Offset(k - 1)
           z == Until(k)
           b == BodyEnd(k)
           d == Description(src)
           bytes == Bytes0
<1>1. /\ o \in Nat /\ Offset(k) \in Nat /\ Offset(k) <= Len(buf) /\ Len(buf) \in Nat
      /\ b = o + Len(src) /\ Len(src) \in Nat /\ src \in Seq(STRING)
      /\ \A p \in o + 1 .. b : bytes[p] = src[p - o] /\ bytes[p] \notin {NUL, CR, LF}
  BY SourceAt DEF BodyEnd
<1>2. /\ z \in o + 2 .. Offset(k) /\ bytes[z] \in {TAB, CR, LF}
      /\ \A p \in o + 2 .. z - 1 : p \in o + 1 .. b /\ bytes[p] \notin {NUL, TAB, CR, LF}
      /\ src # <<>> => z <= b + 1
  BY UntilFacts
<1>3. Len(buf) = Len(bytes) /\ bytes \in Seq(Char)
  BY EndedFacts DEF ExplodeTypes, Bytes0
<1>4. src = <<>> => z = o + 2
  <2> SUFFICES ASSUME src = <<>> PROVE z = o + 2
    OBVIOUS
  <2>1. Len(src) = 0
    BY EmptySeq
  <2>2. o + 2 \notin o + 2 .. z - 1
    BY <1>1, <1>2, <2>1
  <2> QED
    BY <1>1, <1>2, <2>2
<1>5. src # <<>> => src[1] # TAB
  BY DEF UsualSource
<1> HIDE DEF src, o, z, b, bytes
<1>6. /\ SubSeq(bytes, o + 2, z - 1) \in Seq(Char)
      /\ Len(SubSeq(bytes, o + 2, z - 1)) = z - o - 2
      /\ \A j \in 1 .. z - o - 2 : SubSeq(bytes, o + 2, z - 1)[j] = bytes[o + 1 + j]
  <2> DEFINE m == o + 2
             n == z - 1
             l == z - o - 2
  <2>1. /\ m \in 1 .. Len(bytes) + 1 /\ n \in m - 1 .. Len(bytes) /\ n - m + 1 = l
        /\ \A j \in 1 .. l : m + j - 1 = o + 1 + j
    BY <1>1, <1>2, <1>3
  <2> HIDE DEF m, n, l
  <2>2. /\ SubSeq(bytes, m, n) \in Seq(Char) /\ Len(SubSeq(bytes, m, n)) = n - m + 1
        /\ \A j \in 1 .. n - m + 1 : SubSeq(bytes, m, n)[j] = bytes[m + j - 1]
    BY <1>3, <2>1, SubSeqFacts
  <2>3. /\ SubSeq(bytes, m, n) \in Seq(Char) /\ Len(SubSeq(bytes, m, n)) = l
        /\ \A j \in 1 .. l : SubSeq(bytes, m, n)[j] = bytes[o + 1 + j]
    BY <2>1, <2>2
  <2> QED
    BY <2>3 DEF m, n, l
<1>7. d = SubSeq(bytes, o + 2, z - 1)
  <2>1. CASE src = <<>>
    <3>1. Tabs(src, 1, Len(src)) = {} /\ Len(src) = 0
      BY <2>1, EmptySeq DEF Tabs
    <3>2. d = SubSeq(src, 2, 0)
      BY <3>1 DEF Description
    <3>3. SubSeq(src, 2, 0) = <<>>
      BY <1>1, SubSeqEmpty
    <3>4. SubSeq(bytes, o + 2, o + 1) = <<>>
      BY <1>1, SubSeqEmpty
    <3>5. z - 1 = o + 1
      BY <1>1, <1>4, <2>1
    <3> QED
      BY <3>2, <3>3, <3>4, <3>5
  <2>2. CASE src # <<>>
    <3> DEFINE u == z - o
               cuts == Tabs(src, 1, Len(src))
    <3>1. u \in 2 .. Len(src) + 1 /\ z = o + u
      BY <1>1, <1>2, <2>2
    <3>2. \A j \in 1 .. Len(src) :
            o + j \in o + 1 .. b /\ bytes[o + j] = src[j] /\ src[j] \notin {NUL, CR, LF}
      <4>1. \A j \in 1 .. Len(src) : o + j \in o + 1 .. b /\ (o + j) - o = j
        BY <1>1
      <4> QED
        BY <1>1, <4>1
    <3>3. \A j \in 1 .. u - 1 : src[j] # TAB
      <4> SUFFICES ASSUME NEW j \in 1 .. u - 1 PROVE src[j] # TAB
        OBVIOUS
      <4>1. j = 1 \/ (o + j \in o + 2 .. z - 1 /\ j \in 1 .. Len(src))
        BY <1>1, <3>1
      <4> QED
        BY <1>2, <1>5, <2>2, <3>2, <4>1
    <3>4. u <= Len(src) => src[u] = TAB
      BY <1>1, <1>2, <3>1, <3>2
    <3> HIDE DEF u
    <3>5. (IF cuts = {} THEN Len(src) ELSE Min(cuts) - 1) = u - 1
      <4>1. CASE u <= Len(src)
        <5>1. u \in cuts /\ \A j \in cuts : u <= j
          BY <1>1, <3>1, <3>3, <3>4, <4>1 DEF Tabs
        <5>2. cuts \subseteq Int
          BY DEF Tabs
        <5> HIDE DEF cuts
        <5>3. Min(cuts) \in cuts /\ \A j \in cuts : Min(cuts) <= j
          <6>1. \E m \in cuts : \A j \in cuts : m <= j
            BY <5>1
          <6> QED
            BY <6>1 DEF Min
        <5>4. Min(cuts) = u
          <6> DEFINE m == Min(cuts)
          <6> HIDE DEF m
          <6>1. m \in cuts /\ u <= m /\ m <= u
            BY <5>1, <5>3 DEF m
          <6>2. m \in Int /\ u \in Int
            BY <5>1, <5>2, <6>1
          <6>3. m = u
            BY <6>1, <6>2
          <6> QED
            BY <6>3 DEF m
        <5> QED
          BY <5>1, <5>4
      <4>2. CASE ~(u <= Len(src))
        <5>1. u = Len(src) + 1
          BY <1>1, <3>1, <4>2
        <5>2. cuts = {}
          BY <1>1, <3>3, <5>1 DEF Tabs
        <5> QED
          BY <1>1, <5>1, <5>2
      <4> QED
        BY <4>1, <4>2
    <3>6. d = SubSeq(src, 2, u - 1)
      BY <3>5, Zenon DEF Description
    <3>7. /\ 2 \in 1 .. Len(src) + 1 /\ u - 1 \in 2 - 1 .. Len(src) /\ (u - 1) - 2 + 1 = z - o - 2
          /\ \A j \in 1 .. z - o - 2 : 2 + j - 1 = j + 1 /\ j + 1 \in 1 .. Len(src)
      BY <1>1, <3>1
    <3> DEFINE n == u - 1
               s == SubSeq(src, 2, n)
    <3>8. /\ s \in Seq(STRING) /\ Len(s) = z - o - 2
          /\ \A j \in 1 .. z - o - 2 : s[j] = src[j + 1]
      <4>1. 2 \in 1 .. Len(src) + 1 /\ n \in 2 - 1 .. Len(src) /\ n - 2 + 1 = z - o - 2
        BY <3>7
      <4> HIDE DEF n
      <4>2. /\ s \in Seq(STRING) /\ Len(s) = n - 2 + 1
            /\ \A j \in 1 .. n - 2 + 1 : s[j] = src[2 + j - 1]
        BY <1>1, <4>1, SubSeqFacts
      <4> HIDE DEF s
      <4> QED
        BY <3>7, <4>1, <4>2
    <3> HIDE DEF n, s
    <3> DEFINE t == SubSeq(bytes, o + 2, z - 1)
    <3>9. \A j \in 1 .. z - o - 2 : s[j] = t[j]
      <4> SUFFICES ASSUME NEW j \in 1 .. z - o - 2 PROVE s[j] = t[j]
        OBVIOUS
      <4>1. j + 1 \in 1 .. Len(src) /\ o + (j + 1) = o + 1 + j
        BY <1>1, <3>7
      <4> QED
        BY <1>6, <3>2, <3>8, <4>1
    <3> HIDE DEF t
    <3>10. s \in Seq(Char) /\ t \in Seq(Char) /\ Len(s) = Len(t) /\ Len(s) = z - o - 2
      <4>1. STRING \subseteq Char
        BY DEF Char
      <4>2. Seq(STRING) \subseteq Seq(Char)
        BY <4>1, SeqMonotonic
      <4> QED
        BY <1>6, <3>8, <4>2 DEF t
    <3>11. s = t
      BY <3>9, <3>10, SeqEqual
    <3> QED
      BY <3>6, <3>11 DEF s, t, n
  <2> QED
    BY <2>1, <2>2
<1>8. /\ d \in Seq(Char) /\ Len(d) = z - o - 2
      /\ \A j \in 1 .. Len(d) : d[j] = bytes[o + 1 + j]
  BY <1>6, <1>7
<1> QED
  BY <1>7, <1>8 DEF src, o, z, bytes

-----------------------------------------------------------------------------
(* What the buffer has become, once k lines have been taken from it.       *)

\* Separators in these lines are gone, and the carriage return right behind
\* them; nothing else has changed but to NUL.
Buffered(b, k) ==
    /\ \A p \in 1 .. Len(b) : b[p] \in {Bytes0[p], NUL}
    /\ \A p \in 1 .. Offset(k) : b[p] \notin {TAB, CR, LF}
    /\ \A p \in Offset(k) + 1 .. Len(b) :
         b[p] = IF p = Offset(k) + 1 /\ Bytes0[p] = CR THEN NUL ELSE Bytes0[p]

\* The columns are as they were, and descriptions have not become empty.
KeptLine(b, m) ==
    /\ \A p \in Until(m) + 1 .. BodyEnd(m) : Bytes0[p] # TAB => b[p] = Bytes0[p]
    /\ Offset(m - 1) + 2 < Until(m) => b[Offset(m - 1) + 2] # NUL
KeptLines(b, k) == \A m \in 1 .. k : KeptLine(b, m)

LEMMA UsualSources == Usual => \A k \in 1 .. Count : UsualSource(k)
BY Zenon DEF Usual, UsualSource, Count, Source

LEMMA LineEndsAt ==
    ASSUME ExplodeTypes, NEW k \in 0 .. Count - 1, Buffered(buf, k), cursor = Offset(k) + 1
    PROVE  LineEnd = Offset(k + 1)
<1> DEFINE o == Offset(k)
           n == Offset(k + 1)
           b == BodyEnd(k + 1)
<1>1. /\ o \in Nat /\ n \in Nat /\ n <= Len(buf) /\ Len(buf) \in Nat
      /\ b \in o .. n - 1
      /\ \A p \in o + 1 .. b : Bytes0[p] \notin {NUL, CR, LF}
      /\ Bytes0[n] = LF
      /\ (n = b + 1 \/ (n = b + 2 /\ Bytes0[b + 1] = CR))
  <2> DEFINE m == k + 1
  <2>1. m \in 1 .. Count /\ m - 1 = k
    BY OffsetEnds
  <2> HIDE DEF m
  <2>2. /\ Offset(m - 1) \in Nat /\ Offset(m) \in Nat /\ Offset(m) <= Len(buf) /\ Len(buf) \in Nat
        /\ BodyEnd(m) \in Offset(m - 1) .. Offset(m) - 1
        /\ \A p \in Offset(m - 1) + 1 .. BodyEnd(m) : Bytes0[p] \notin {NUL, CR, LF}
        /\ Bytes0[Offset(m)] = LF
        /\ \/ Offset(m) = BodyEnd(m) + 1
           \/ Offset(m) = BodyEnd(m) + 2 /\ Bytes0[BodyEnd(m) + 1] = CR
    BY <2>1, SourceAt
  <2> QED
    BY <2>1, <2>2 DEF m
<1>2. \A p \in o + 1 .. Len(buf) :
        buf[p] = IF p = o + 1 /\ Bytes0[p] = CR THEN NUL ELSE Bytes0[p]
  BY DEF Buffered
<1>3. /\ cursor = o + 1 /\ buf \in Seq(Char)
      /\ n = Offset(k + 1)
  BY DEF ExplodeTypes
<1> HIDE DEF o, n, b
<1>4. n \in cursor .. Len(buf) /\ buf[n] = LF
  BY <1>1, <1>2, <1>3, Marks
<1>5. \A p \in cursor .. n - 1 : buf[p] # LF
  <2> SUFFICES ASSUME NEW p \in cursor .. n - 1 PROVE buf[p] # LF
    OBVIOUS
  <2>1. p \in o + 1 .. b \/ (p = b + 1 /\ Bytes0[b + 1] = CR)
    BY <1>1, <1>3
  <2>2. Bytes0[p] # LF /\ p \in o + 1 .. Len(buf)
    BY <1>1, <1>3, <2>1, Marks
  <2> QED
    BY <1>2, <2>2, Marks
<1>6. FirstIn(buf, cursor, {LF}) = n
  <2>1. /\ cursor \in 1 .. Len(buf) + 1 /\ n \in cursor .. Len(buf) + 1 /\ At(buf, n) \in {LF}
    BY <1>1, <1>3, <1>4 DEF At
  <2>2. \A p \in cursor .. n - 1 : At(buf, p) \notin {LF}
    <3>1. \A p \in cursor .. n - 1 : p <= Len(buf)
      BY <1>1, <1>3
    <3> QED
      BY <1>5, <3>1 DEF At
  <2> QED
    BY <1>3, <2>1, <2>2, FirstIsUnique
<1> QED
  BY <1>3, <1>4, <1>6 DEF LineEnd

LEMMA SeparatedAt ==
    ASSUME ExplodeTypes, NEW k \in 0 .. Count - 1, Buffered(buf, k), cursor = Offset(k) + 1,
           NEW j \in 1 .. Len(buf)
    PROVE  Separated[j] =
             IF j <= Offset(k) THEN buf[j]
             ELSE IF j <= Offset(k + 1)
             THEN IF Bytes0[j] \in {TAB, CR, LF} THEN NUL ELSE Bytes0[j]
             ELSE IF j = Offset(k + 1) + 1 /\ Bytes0[j] = CR THEN NUL
             ELSE Bytes0[j]
<1> DEFINE o == Offset(k)
           n == Offset(k + 1)
<1>1. LineEnd = n
  BY LineEndsAt
<1>2. o \in Nat /\ n \in Nat /\ o < n /\ n <= Len(buf) /\ Len(buf) \in Nat
  <2> DEFINE m == k + 1
  <2>1. m \in 1 .. Count /\ m - 1 = k
    BY OffsetEnds
  <2> HIDE DEF m
  <2>2. /\ Offset(m - 1) \in Nat /\ Offset(m) \in Nat /\ Offset(m) <= Len(buf) /\ Len(buf) \in Nat
        /\ BodyEnd(m) \in Offset(m - 1) .. Offset(m) - 1
    BY <2>1, SourceAt
  <2> QED
    BY <2>1, <2>2 DEF m
<1>3. \A p \in o + 1 .. Len(buf) :
        buf[p] = IF p = o + 1 /\ Bytes0[p] = CR THEN NUL ELSE Bytes0[p]
  BY DEF Buffered
<1>4. Separated[j] = IF \/ j \in cursor .. LineEnd /\ buf[j] \in {TAB, LF}
                        \/ j \in cursor + 1 .. LineEnd + 1 /\ buf[j] = CR
                     THEN NUL ELSE buf[j]
  BY DEF Separated
<1>5. cursor = o + 1
  OBVIOUS
<1> HIDE DEF o, n
<1>6. CASE j <= o
  <2>1. j \notin cursor .. LineEnd /\ j \notin cursor + 1 .. LineEnd + 1
    BY <1>1, <1>2, <1>5, <1>6
  <2> QED
    BY <1>4, <1>6, <2>1 DEF o
<1>7. CASE ~(j <= o) /\ j <= n
  <2>1. j \in cursor .. LineEnd /\ j \in o + 1 .. Len(buf)
        /\ (j \in cursor + 1 .. LineEnd + 1 <=> j # o + 1)
    BY <1>1, <1>2, <1>5, <1>7
  <2>2. CASE j = o + 1 /\ Bytes0[j] = CR
    <3>1. buf[j] = NUL
      BY <1>3, <2>1, <2>2
    <3> QED
      BY <1>4, <1>7, <2>2, <3>1, Marks DEF o, n
  <2>3. CASE ~(j = o + 1 /\ Bytes0[j] = CR)
    <3>1. buf[j] = Bytes0[j]
      BY <1>3, <2>1, <2>3
    <3>2. Separated[j] = IF Bytes0[j] \in {TAB, CR, LF} THEN NUL ELSE Bytes0[j]
      BY <1>4, <2>1, <2>3, <3>1, Marks, TabIsNone
    <3> QED
      BY <1>7, <3>2 DEF o, n
  <2> QED
    BY <2>2, <2>3
<1>8. CASE ~(j <= o) /\ ~(j <= n)
  <2>1. j \notin cursor .. LineEnd /\ j \in o + 1 .. Len(buf) /\ j # o + 1
        /\ (j \in cursor + 1 .. LineEnd + 1 <=> j = n + 1)
    BY <1>1, <1>2, <1>5, <1>8
  <2>2. buf[j] = Bytes0[j]
    BY <1>3, <2>1
  <2> QED
    BY <1>4, <1>8, <2>1, <2>2 DEF o, n
<1> QED
  BY <1>6, <1>7, <1>8

\* The next line is separated.
LEMMA LineSeparated ==
    ASSUME ExplodeTypes, Usual, NEW k \in 0 .. Count - 1,
           Buffered(buf, k), KeptLines(buf, k), cursor = Offset(k) + 1
    PROVE  /\ Buffered(Separated, k + 1) /\ KeptLines(Separated, k + 1)
           /\ \A p \in Offset(k) + 2 .. Until(k + 1) - 1 : Separated[p] = Bytes0[p]
           /\ Separated[Until(k + 1)] = NUL
           /\ ItemType = SourceType(Source(k + 1))
<1> DEFINE o == Offset(k)
           n == Offset(k + 1)
           b == BodyEnd(k + 1)
           z == Until(k + 1)
           src == Source(k + 1)
           sep == Separated
           len == Len(buf)
           byte(p) == Bytes0[p]
<1>1. /\ o \in Nat /\ n \in Nat /\ n <= len /\ len \in Nat
      /\ b \in o .. n - 1 /\ b = o + Len(src) /\ Len(src) \in Nat
      /\ \A p \in o + 1 .. b : byte(p) = src[p - o] /\ byte(p) \notin {NUL, CR, LF}
      /\ z \in o + 2 .. n /\ byte(z) \in {TAB, CR, LF}
      /\ \A p \in o + 2 .. z - 1 : byte(p) \notin {NUL, TAB, CR, LF}
      /\ IF src = <<>> THEN menu.end # <<LF>> ELSE src[1] # TAB
      /\ menu.end # <<LF>> => byte(b + 1) = CR
  <2> DEFINE m == k + 1
  <2>1. m \in 1 .. Count /\ m - 1 = k
    BY OffsetEnds
  <2> HIDE DEF m
  <2>2. UsualSource(m)
    BY <2>1, UsualSources
  <2>3. /\ Offset(m - 1) \in Nat /\ Offset(m) \in Nat /\ Offset(m) <= Len(buf) /\ Len(buf) \in Nat
        /\ BodyEnd(m) \in Offset(m - 1) .. Offset(m) - 1
        /\ BodyEnd(m) = Offset(m - 1) + Len(Source(m)) /\ Len(Source(m)) \in Nat
        /\ \A p \in Offset(m - 1) + 1 .. BodyEnd(m) :
             Bytes0[p] = Source(m)[p - Offset(m - 1)] /\ Bytes0[p] \notin {NUL, CR, LF}
        /\ menu.end # <<LF>> => Bytes0[BodyEnd(m) + 1] = CR
    BY <2>1, SourceAt DEF BodyEnd
  <2>4. /\ Until(m) \in Offset(m - 1) + 2 .. Offset(m)
        /\ Bytes0[Until(m)] \in {TAB, CR, LF}
        /\ \A p \in Offset(m - 1) + 2 .. Until(m) - 1 : Bytes0[p] \notin {NUL, TAB, CR, LF}
    BY <2>1, <2>2, UntilFacts
  <2>5. IF Source(m) = <<>> THEN menu.end # <<LF>> ELSE Source(m)[1] # TAB
    BY <2>2 DEF UsualSource
  <2> QED
    BY <2>1, <2>3, <2>4, <2>5 DEF m
<1>2. /\ \A p \in 1 .. len : buf[p] \in {byte(p), NUL}
      /\ \A p \in 1 .. o : buf[p] \notin {TAB, CR, LF}
      /\ \A m \in 1 .. k : KeptLine(buf, m)
  BY DEF Buffered, KeptLines
<1>3. \A p \in 1 .. len :
        sep[p] = IF p <= o THEN buf[p]
                 ELSE IF p <= n THEN IF byte(p) \in {TAB, CR, LF} THEN NUL ELSE byte(p)
                 ELSE IF p = n + 1 /\ byte(p) = CR THEN NUL ELSE byte(p)
  BY SeparatedAt
<1>4. Len(sep) = len
  BY SeparatedType
<1>5. cursor = o + 1
  OBVIOUS
<1>6. \A m \in 1 .. k :
        /\ Offset(m - 1) \in Nat /\ Until(m) \in Offset(m - 1) + 2 .. Offset(m)
        /\ BodyEnd(m) < Offset(m) /\ BodyEnd(m) \in Nat /\ Offset(m) <= o /\ Offset(m) \in Nat
  <2> SUFFICES ASSUME NEW m \in 1 .. k
               PROVE  /\ Offset(m - 1) \in Nat /\ Until(m) \in Offset(m - 1) + 2 .. Offset(m)
                      /\ BodyEnd(m) < Offset(m) /\ BodyEnd(m) \in Nat /\ Offset(m) <= Offset(k)
                      /\ Offset(m) \in Nat
    OBVIOUS
  <2>1. m \in 1 .. Count /\ k \in 0 .. Count /\ (m = k \/ m \in 0 .. k - 1)
    BY OffsetEnds
  <2>2. Offset(m) = Offset(k) \/ Offset(m) < Offset(k)
    BY <2>1, OffsetsGrow
  <2>3. Offset(m - 1) \in Nat /\ Offset(m) \in Nat /\ BodyEnd(m) \in Offset(m - 1) .. Offset(m) - 1
    BY <2>1, SourceAt
  <2>4. Until(m) \in Offset(m - 1) + 2 .. Offset(m)
    BY <2>1, UsualSources, UntilFacts
  <2>5. Offset(k) \in Nat
    BY <1>1
  <2> QED
    BY <2>2, <2>3, <2>4, <2>5
<1> HIDE DEF o, n, b, z, src, sep, len, byte
<1>7. /\ \A p \in 1 .. len : sep[p] \in {byte(p), NUL}
      /\ \A p \in 1 .. n : sep[p] \notin {TAB, CR, LF}
      /\ \A p \in n + 1 .. len : sep[p] = IF p = n + 1 /\ byte(p) = CR THEN NUL ELSE byte(p)
  <2>1. \A p \in 1 .. len : sep[p] \in {byte(p), NUL}
    BY <1>2, <1>3
  <2>2. \A p \in 1 .. n : sep[p] \notin {TAB, CR, LF}
    <3> SUFFICES ASSUME NEW p \in 1 .. n PROVE sep[p] \notin {TAB, CR, LF}
      OBVIOUS
    <3>1. p \in 1 .. len /\ p <= n
      BY <1>1
    <3>2. CASE p <= o
      <4>1. p \in 1 .. o
        BY <1>1, <3>2
      <4> QED
        BY <1>2, <1>3, <3>1, <3>2, <4>1
    <3>3. CASE ~(p <= o)
      BY <1>3, <3>1, <3>3, Marks, TabIsNone
    <3> QED
      BY <3>2, <3>3
  <2>3. \A p \in n + 1 .. len : p \in 1 .. len /\ ~(p <= o) /\ ~(p <= n)
    BY <1>1
  <2> QED
    BY <1>3, <2>1, <2>2, <2>3
<1>8. \A p \in o + 1 .. n : byte(p) \notin {TAB, CR, LF} => sep[p] = byte(p)
  <2>1. \A p \in o + 1 .. n : p \in 1 .. len /\ ~(p <= o) /\ p <= n
    BY <1>1
  <2> QED
    BY <1>3, <2>1
<1>9. Buffered(sep, k + 1)
  BY <1>4, <1>7 DEF Buffered, n, byte, len
<1>10. \A p \in o + 2 .. z - 1 : sep[p] = byte(p)
  <2>1. \A p \in o + 2 .. z - 1 : p \in o + 1 .. n
    BY <1>1
  <2> QED
    BY <1>1, <1>8, <2>1
<1>11. sep[z] = NUL
  <2>1. z \in 1 .. len /\ ~(z <= o) /\ z <= n
    BY <1>1
  <2> QED
    BY <1>1, <1>3, <2>1
<1>12. KeptLine(sep, k + 1)
  <2>1. ASSUME NEW p \in z + 1 .. b, byte(p) # TAB PROVE sep[p] = byte(p)
    <3>1. p \in o + 1 .. b /\ p \in o + 1 .. n
      BY <1>1
    <3> QED
      BY <1>1, <1>8, <2>1, <3>1
  <2>2. o + 2 < z => sep[o + 2] # NUL
    <3>1. o + 2 < z => o + 2 \in o + 2 .. z - 1
      BY <1>1
    <3> QED
      BY <1>1, <1>10, <3>1
  <2>3. Offset((k + 1) - 1) = o
    BY DEF o
  <2> QED
    BY <2>1, <2>2, <2>3 DEF KeptLine, z, b, byte
<1>13. ASSUME NEW m \in 1 .. k PROVE KeptLine(sep, m)
  <2>1. /\ \A p \in Until(m) + 1 .. BodyEnd(m) : byte(p) # TAB => buf[p] = byte(p)
        /\ Offset(m - 1) + 2 < Until(m) => buf[Offset(m - 1) + 2] # NUL
    BY <1>2 DEF KeptLine, byte
  <2>2. \A p \in 1 .. o : sep[p] = buf[p]
    <3>1. \A p \in 1 .. o : p \in 1 .. len /\ p <= o
      BY <1>1
    <3> QED
      BY <1>3, <3>1
  <2> DEFINE zm == Until(m)
             bm == BodyEnd(m)
             fm == Offset(m - 1) + 2
             om == Offset(m - 1)
             em == Offset(m)
  <2>3a. om \in Nat /\ zm \in om + 2 .. em /\ bm < em /\ bm \in Nat /\ em <= o /\ em \in Nat
         /\ fm = om + 2
    BY <1>6
  <2> HIDE DEF zm, bm, fm, om, em
  <2>3. zm \in Nat /\ bm \in Nat /\ bm <= o /\ fm \in Nat \ {0} /\ (fm < zm => fm <= o)
    BY <1>1, <2>3a
  <2>3b. o \in Nat
    BY <1>1
  <2>4. \A p \in zm + 1 .. bm : p \in 1 .. o
    BY <2>3, <2>3b
  <2>5. fm < zm => fm \in 1 .. o
    BY <2>3, <2>3b
  <2>6. /\ \A p \in zm + 1 .. bm : byte(p) # TAB => sep[p] = byte(p)
        /\ fm < zm => sep[fm] # NUL
    BY <2>1, <2>2, <2>4, <2>5 DEF zm, bm, fm
  <2> QED
    BY <2>6 DEF KeptLine, byte, zm, bm, fm
<1>14. KeptLines(sep, k + 1)
  <2>1. \A m \in 1 .. k + 1 : m \in 1 .. k \/ m = k + 1
    OBVIOUS
  <2> QED
    BY <1>12, <1>13, <2>1 DEF KeptLines
<1>15. ItemType = SourceType(src)
  <2>1. ItemType = IF sep[o + 1] = NUL THEN "i" ELSE sep[o + 1]
    BY <1>5 DEF ItemType, sep
  <2>2. o + 1 \in 1 .. len /\ ~(o + 1 <= o) /\ o + 1 <= n /\ o + 1 \in o + 1 .. n
    BY <1>1
  <2>3. CASE src = <<>>
    <3>1. b + 1 = o + 1 /\ byte(o + 1) = CR
      <4>1. Len(src) = 0
        BY <2>3, EmptySeq
      <4> QED
        BY <1>1, <2>3, <4>1
    <3>2. sep[o + 1] = NUL
      BY <1>3, <2>2, <3>1
    <3> QED
      BY <2>1, <2>3, <3>2 DEF SourceType
  <2>4. CASE src # <<>>
    <3>1. o + 1 \in o + 1 .. b /\ (o + 1) - o = 1
      <4>1. Len(src) # 0
        BY <1>1, <2>4, EmptySeq DEF src
      <4> QED
        BY <1>1, <4>1
    <3>2. byte(o + 1) = src[1] /\ byte(o + 1) \notin {NUL, CR, LF} /\ src[1] # TAB
      BY <1>1, <2>4, <3>1
    <3>3. sep[o + 1] = src[1] /\ sep[o + 1] # NUL
      BY <1>8, <2>2, <3>2
    <3> QED
      BY <2>1, <2>4, <3>3 DEF SourceType
  <2> QED
    BY <2>3, <2>4
<1> QED
  BY <1>9, <1>10, <1>11, <1>14, <1>15 DEF o, z, src, sep, byte

-----------------------------------------------------------------------------
(* The columns of a line.                                                  *)

\* A set of numbers has as many members as the set moved by some distance.
LEMMA MovedSet ==
    ASSUME NEW S, S \subseteq Int, IsFiniteSet(S), NEW d \in Int,
           NEW T, \A v \in Int : v \in T <=> v - d \in S, T \subseteq Int
    PROVE  IsFiniteSet(T) /\ Cardinality(T) = Cardinality(S)
<1> DEFINE f == [v \in S |-> v + d]
<1>1. \A v \in S : f[v] = v + d
  OBVIOUS
<1>2. \A v \in S : v \in Int /\ v + d \in Int /\ (v + d) - d = v
  OBVIOUS
<1>3. f \in [S -> T]
  BY <1>2
<1> HIDE DEF f
<1>4. \A v, w \in S : f[v] = f[w] => v = w
  BY <1>1, <1>2
<1>5. \A w \in T : \E v \in S : f[v] = w
  <2> SUFFICES ASSUME NEW w \in T PROVE \E v \in S : f[v] = w
    OBVIOUS
  <2>1. w \in Int /\ w - d \in S /\ (w - d) + d = w
    OBVIOUS
  <2> QED
    BY <1>1, <2>1
<1>6. f \in Bijection(S, T)
  BY <1>3, <1>4, <1>5 DEF Bijection, Injection, Surjection, IsInjective
<1>7. ExistsBijection(S, T)
  BY <1>6 DEF ExistsBijection
<1> QED
  BY <1>7, FS_Bijection

LEMMA TabsFacts ==
    ASSUME NEW src, NEW t \in Int
    PROVE  /\ Tabs(src, 1, t) \subseteq 1 .. t /\ IsFiniteSet(Tabs(src, 1, t))
           /\ Cardinality(Tabs(src, 1, t)) \in Nat
           /\ \A r \in 1 .. t : r \in Tabs(src, 1, t) <=> src[r] = TAB
<1> DEFINE tabs == Tabs(src, 1, t)
<1>1. tabs \subseteq 1 .. t /\ \A r \in 1 .. t : r \in tabs <=> src[r] = TAB
  BY DEF Tabs
<1> HIDE DEF tabs
<1>2. IsFiniteSet(tabs)
  <2>1. IsFiniteSet(1 .. t)
    BY FS_Interval
  <2> QED
    BY <1>1, <2>1, FS_Subset
<1>3. Cardinality(tabs) \in Nat
  BY <1>2, FS_CardinalityType
<1> QED
  BY <1>1, <1>2, <1>3 DEF tabs

\* The number of TABs before one of them, which tells it from the others.
LEMMA TabsBefore ==
    ASSUME NEW src, NEW len \in Nat, NEW t \in 1 .. len, src[t] = TAB
    PROVE  /\ Cardinality(Tabs(src, 1, t)) = Cardinality(Tabs(src, 1, t - 1)) + 1
           /\ Cardinality(Tabs(src, 1, t - 1)) < Cardinality(Tabs(src, 1, len))
<1> DEFINE these == Tabs(src, 1, t)
           ahead == Tabs(src, 1, t - 1)
           all == Tabs(src, 1, len)
<1>1. t \in Int /\ t - 1 \in Int /\ t \in 1 .. t /\ t \notin 1 .. t - 1
  OBVIOUS
<1>2. \A r : /\ r \in these <=> r \in 1 .. t /\ src[r] = TAB
             /\ r \in ahead <=> r \in 1 .. t - 1 /\ src[r] = TAB
             /\ r \in all <=> r \in 1 .. len /\ src[r] = TAB
  BY DEF Tabs
<1>3. /\ IsFiniteSet(these) /\ Cardinality(these) \in Nat
      /\ IsFiniteSet(ahead) /\ Cardinality(ahead) \in Nat
      /\ IsFiniteSet(all) /\ Cardinality(all) \in Nat
  BY <1>1, TabsFacts
<1> HIDE DEF these, ahead, all
<1>4. ahead = these \ {t} /\ t \in these /\ these \subseteq all
  <2>1. \A r : r \in 1 .. t - 1 <=> r \in 1 .. t /\ r # t
    BY <1>1
  <2>2. \A r : r \in 1 .. t => r \in 1 .. len
    OBVIOUS
  <2> QED
    BY <1>1, <1>2, <2>1, <2>2
<1>5. Cardinality(ahead) = Cardinality(these) - 1
  BY <1>3, <1>4, FS_RemoveElement
<1>6. Cardinality(these) <= Cardinality(all)
  BY <1>3, <1>4, FS_Subset
<1> QED
  BY <1>3, <1>5, <1>6 DEF these, ahead, all

LEMMA TabsTold ==
    ASSUME NEW src, NEW len \in Nat, NEW t \in 1 .. len, src[t] = TAB,
           NEW r \in 1 .. len, src[r] = TAB, Cardinality(Tabs(src, 1, len)) <= COLIDS
    PROVE  LET ahead(p) == Cardinality(Tabs(src, 1, p - 1))
           IN  /\ ahead(r) % COLIDS = ahead(r)
               /\ ahead(r) = ahead(t) => r = t
<1> DEFINE ahead(p) == Cardinality(Tabs(src, 1, p - 1))
           all == Cardinality(Tabs(src, 1, len))
<1>1. all \in Nat /\ all <= COLIDS /\ COLIDS \in Nat \ {0}
  BY TabsFacts, MenuExplodeAssumption
<1>2. ASSUME NEW p \in 1 .. len PROVE ahead(p) \in Nat
  <2>1. p - 1 \in Int
    OBVIOUS
  <2> QED
    BY <2>1, TabsFacts
<1>3. ahead(r) < all
  BY TabsBefore
<1>4. ASSUME NEW p \in 1 .. len, src[p] = TAB, NEW q \in 1 .. len, src[q] = TAB, p < q
      PROVE  ahead(p) < ahead(q)
  <2> DEFINE n == q - 1
  <2>1. n \in Nat /\ p \in 1 .. n
    BY <1>4
  <2> HIDE DEF n
  <2>2. Cardinality(Tabs(src, 1, p - 1)) < Cardinality(Tabs(src, 1, n))
    BY <1>4, <2>1, TabsBefore
  <2> QED
    BY <2>2 DEF n
<1>5. ahead(r) \in Nat /\ ahead(t) \in Nat
  BY <1>2
<1>6. r < t => ahead(r) < ahead(t)
  BY <1>4
<1>7. t < r => ahead(t) < ahead(r)
  BY <1>4
<1> HIDE DEF ahead, all
<1>8. ahead(r) % COLIDS = ahead(r)
  BY <1>1, <1>3, <1>5
<1>9. ahead(r) = ahead(t) => r = t
  BY <1>5, <1>6, <1>7
<1> QED
  BY <1>8, <1>9 DEF ahead

\* The TABs of a line are where they are in its source.
LEMMA TabsAt ==
    ASSUME ExplodeTypes, NEW k \in 0 .. Count - 1, Buffered(buf, k), cursor = Offset(k) + 1
    PROVE  LET o == Offset(k)
               src == Source(k + 1)
           IN  /\ o \in Nat /\ Len(src) \in Nat
               /\ \A p \in Int : p \in Tabs(buf, cursor, LineEnd)
                                  <=> p - o \in 1 .. Len(src) /\ src[p - o] = TAB
               /\ \A q \in 1 .. Len(src) :
                    Cardinality(Tabs(buf, cursor, o + q - 1)) = Cardinality(Tabs(src, 1, q - 1))
<1> DEFINE o == Offset(k)
           n == Offset(k + 1)
           b == BodyEnd(k + 1)
           src == Source(k + 1)
<1>1. /\ o \in Nat /\ n \in Nat /\ n <= Len(buf) /\ Len(buf) \in Nat
      /\ b < n /\ b = o + Len(src) /\ Len(src) \in Nat
      /\ \A j \in 1 .. Len(src) : Bytes0[o + j] = src[j] /\ src[j] \notin {NUL, CR, LF}
      /\ \A p \in b + 1 .. n : Bytes0[p] \in {CR, LF}
  <2> DEFINE m == k + 1
  <2>1. m \in 1 .. Count /\ m - 1 = k
    BY OffsetEnds
  <2> HIDE DEF m
  <2>2. /\ Offset(m - 1) \in Nat /\ Offset(m) \in Nat /\ Offset(m) <= Len(buf) /\ Len(buf) \in Nat
        /\ BodyEnd(m) \in Offset(m - 1) .. Offset(m) - 1
        /\ BodyEnd(m) = Offset(m - 1) + Len(Source(m)) /\ Len(Source(m)) \in Nat
        /\ \A j \in 1 .. Len(Source(m)) :
             /\ Bytes0[Offset(m - 1) + j] = Source(m)[j]
             /\ Source(m)[j] \notin {NUL, CR, LF}
    BY <2>1, SourceAt DEF BodyEnd
  <2>3. \A p \in BodyEnd(m) + 1 .. Offset(m) : Bytes0[p] \in {CR, LF}
    <3>1. /\ Bytes0[Offset(m)] = LF
          /\ \/ Offset(m) = BodyEnd(m) + 1
             \/ Offset(m) = BodyEnd(m) + 2 /\ Bytes0[BodyEnd(m) + 1] = CR
      BY <2>1, SourceAt
    <3>2. BodyEnd(m) \in Nat /\ Offset(m) \in Nat
      BY <2>2
    <3> SUFFICES ASSUME NEW p \in BodyEnd(m) + 1 .. Offset(m) PROVE Bytes0[p] \in {CR, LF}
      OBVIOUS
    <3>3. p = Offset(m) \/ (p = BodyEnd(m) + 1 /\ Bytes0[BodyEnd(m) + 1] = CR)
      BY <3>1, <3>2
    <3> QED
      BY <3>1, <3>3
  <2> QED
    BY <2>1, <2>2, <2>3 DEF m
<1>2. \A p \in o + 1 .. Len(buf) :
        buf[p] = IF p = o + 1 /\ Bytes0[p] = CR THEN NUL ELSE Bytes0[p]
  BY DEF Buffered
<1>3. LineEnd = n /\ cursor = o + 1
  BY LineEndsAt
<1> HIDE DEF o, n, b, src
<1>4. \A p \in Int : p \in o + 1 .. n =>
        (buf[p] = TAB <=> p - o \in 1 .. Len(src) /\ src[p - o] = TAB)
  <2> SUFFICES ASSUME NEW p \in o + 1 .. n
               PROVE  buf[p] = TAB <=> p - o \in 1 .. Len(src) /\ src[p - o] = TAB
    OBVIOUS
  <2>1. p \in o + 1 .. Len(buf)
    BY <1>1
  <2>2. CASE p <= b
    <3> DEFINE j == p - o
    <3>1. j \in 1 .. Len(src) /\ o + j = p
      BY <1>1, <2>2
    <3> HIDE DEF j
    <3>2. buf[p] = src[j]
      BY <1>1, <1>2, <2>1, <3>1
    <3> QED
      BY <3>1, <3>2 DEF j
  <2>3. CASE ~(p <= b)
    <3>1. p \in b + 1 .. n /\ p - o \notin 1 .. Len(src)
      BY <1>1, <2>3
    <3>2. Bytes0[p] \in {CR, LF}
      BY <1>1, <3>1
    <3>3. buf[p] \in {NUL, CR, LF}
      BY <1>2, <2>1, <3>2
    <3>4. buf[p] # TAB
      BY <3>3 DEF NUL, CR, LF, TAB
    <3> QED
      BY <3>1, <3>4
  <2> QED
    BY <2>2, <2>3
<1>5. \A p \in Int : p \in Tabs(buf, cursor, LineEnd)
                     <=> p - o \in 1 .. Len(src) /\ src[p - o] = TAB
  <2> SUFFICES ASSUME NEW p \in Int
               PROVE  p \in Tabs(buf, cursor, LineEnd)
                        <=> p - o \in 1 .. Len(src) /\ src[p - o] = TAB
    OBVIOUS
  <2>1. p \in Tabs(buf, cursor, LineEnd) <=> p \in o + 1 .. n /\ buf[p] = TAB
    BY <1>3 DEF Tabs
  <2>2. p - o \in 1 .. Len(src) => p \in o + 1 .. n
    BY <1>1
  <2> QED
    BY <1>4, <2>1, <2>2
<1>6. ASSUME NEW q \in 1 .. Len(src)
      PROVE  Cardinality(Tabs(buf, cursor, o + q - 1)) = Cardinality(Tabs(src, 1, q - 1))
  <2> DEFINE S == Tabs(src, 1, q - 1)
             T == Tabs(buf, cursor, o + q - 1)
  <2>1. q - 1 \in Int
    OBVIOUS
  <2>2. S \subseteq Int /\ IsFiniteSet(S)
    BY <2>1, TabsFacts
  <2>3. \A v \in Int : v \in T <=> v - o \in S
    <3> SUFFICES ASSUME NEW v \in Int PROVE v \in T <=> v - o \in S
      OBVIOUS
    <3>1. v \in T <=> v \in o + 1 .. o + q - 1 /\ buf[v] = TAB
      BY <1>3 DEF Tabs
    <3>2. v - o \in S <=> v - o \in 1 .. q - 1 /\ src[v - o] = TAB
      BY DEF Tabs
    <3>3. v \in o + 1 .. o + q - 1 <=> v - o \in 1 .. q - 1
      BY <1>1
    <3>4. v \in o + 1 .. o + q - 1 => v \in o + 1 .. n /\ v - o \in 1 .. Len(src)
      BY <1>1
    <3> QED
      BY <1>4, <3>1, <3>2, <3>3, <3>4
  <2>4. T \subseteq Int
    BY <1>1, <1>3 DEF Tabs
  <2> HIDE DEF S, T
  <2>5. o \in Int
    BY <1>1
  <2>6. Cardinality(T) = Cardinality(S)
    BY <2>2, <2>3, <2>4, <2>5, MovedSet
  <2> QED
    BY <2>6 DEF S, T
<1> QED
  BY <1>1, <1>5, <1>6 DEF o, src

LEMMA ColumnFound ==
    ASSUME ExplodeTypes, NEW k \in 0 .. Count - 1, Buffered(buf, k), cursor = Offset(k) + 1,
           NEW t \in 1 .. Len(Source(k + 1)), Source(k + 1)[t] = TAB,
           Cardinality(Tabs(Source(k + 1), 1, Len(Source(k + 1)))) <= COLIDS
    PROVE  Column(Cardinality(Tabs(Source(k + 1), 1, t)) - 1) = Offset(k) + t + 1
<1> DEFINE o == Offset(k)
           src == Source(k + 1)
           ahead(p) == Cardinality(Tabs(src, 1, p - 1))
           id == ahead(t)
           tabs == Tabs(buf, cursor, LineEnd)
           its == {j \in tabs : Cardinality(Tabs(buf, cursor, j - 1)) % COLIDS = id}
<1>1. /\ o \in Nat /\ Len(src) \in Nat
      /\ \A p \in Int : p \in tabs <=> p - o \in 1 .. Len(src) /\ src[p - o] = TAB
      /\ \A q \in 1 .. Len(src) : Cardinality(Tabs(buf, cursor, o + q - 1)) = ahead(q)
  BY TabsAt
<1>2. Column(id) = IF its = {} THEN 0 ELSE Max(its) + 1
  BY DEF Column
<1>3. Cardinality(Tabs(src, 1, t)) - 1 = id
  <2>1. Cardinality(Tabs(src, 1, t)) = id + 1
    BY <1>1, TabsBefore
  <2>2. id \in Nat
    <3>1. t - 1 \in Int
      OBVIOUS
    <3> QED
      BY <3>1, TabsFacts
  <2> HIDE DEF id
  <2> QED
    BY <2>1, <2>2
<1>4. \A r \in 1 .. Len(src) : src[r] = TAB =>
        /\ ahead(r) % COLIDS = ahead(r)
        /\ ahead(r) = ahead(t) => r = t
  BY <1>1, TabsTold
<1>5. tabs \subseteq Int
  <2>1. cursor \in Int /\ LineEnd \in Int
    <3>1. LineEnd = Offset(k + 1) /\ Offset(k + 1) \in Nat
      <4> DEFINE m == k + 1
      <4>1. m \in 1 .. Count
        BY OffsetEnds
      <4> HIDE DEF m
      <4>2. Offset(m) \in Nat
        BY <4>1, SourceAt
      <4> QED
        BY <4>2, LineEndsAt DEF m
    <3> QED
      BY <1>1, <3>1
  <2> QED
    BY <2>1 DEF Tabs
<1>6. t \in 1 .. Len(src) /\ src[t] = TAB
  OBVIOUS
<1> HIDE DEF o, src, ahead, tabs
<1>6a. \A j : j \in its <=>
         j \in tabs /\ Cardinality(Tabs(buf, cursor, j - 1)) % COLIDS = ahead(t)
  OBVIOUS
<1> HIDE DEF its
<1>7. its = {o + t}
  <2>1. ASSUME NEW j \in its PROVE j = o + t
    <3> DEFINE r == j - o
    <3>1. j \in Int /\ j \in tabs
      BY <1>5, <1>6a
    <3>2. Cardinality(Tabs(buf, cursor, j - 1)) % COLIDS = ahead(t)
      BY <1>6a
    <3>3. r \in 1 .. Len(src) /\ src[r] = TAB
      BY <1>1, <3>1
    <3>4. j = o + r
      BY <1>1, <3>1
    <3> HIDE DEF r
    <3>5. Cardinality(Tabs(buf, cursor, j - 1)) = ahead(r)
      BY <1>1, <3>3, <3>4
    <3>6. ahead(r) = ahead(t)
      BY <1>4, <3>2, <3>3, <3>5
    <3> QED
      BY <1>4, <3>3, <3>4, <3>6
  <2>2. o + t \in its
    <3>1. o + t \in Int /\ (o + t) - o = t /\ (o + t) - 1 = o + t - 1
      BY <1>1, <1>6
    <3>2. o + t \in tabs
      BY <1>1, <1>6, <3>1
    <3>3. Cardinality(Tabs(buf, cursor, o + t - 1)) = ahead(t)
      BY <1>1, <1>6
    <3>4. ahead(t) % COLIDS = ahead(t)
      BY <1>4, <1>6
    <3>5. Cardinality(Tabs(buf, cursor, (o + t) - 1)) % COLIDS = ahead(t)
      BY <3>1, <3>3, <3>4, Zenon
    <3> QED
      BY <1>6a, <3>2, <3>5, Zenon
  <2> QED
    BY <2>1, <2>2
<1>8. Max(its) = o + t
  <2>1. o + t \in Nat /\ its \subseteq 0 .. o + t /\ its # {}
    BY <1>1, <1>6, <1>7
  <2>2. Max(its) \in its
    BY <2>1, GreatestNumber
  <2> QED
    BY <1>7, <2>2
<1>9. Column(id) = o + t + 1
  BY <1>2, <1>7, <1>8
<1> QED
  BY <1>3, <1>9 DEF o, src

\* The entry of a line is that of its columns, as far as they are in reach.
LEMMA EntryAt ==
    ASSUME ExplodeTypes, NEW k \in 0 .. Count - 1, Buffered(buf, k), cursor = Offset(k) + 1,
           NEW i \in 2 .. Len(Source(k + 1)) + 1, NEW j \in 1 .. Len(Source(k + 1)),
           InReach(Source(k + 1), i)
    PROVE  /\ IsColumn(Source(k + 1), 1, i, j) => Entry.selector = Offset(k) + i
           /\ IsColumn(Source(k + 1), 2, i, j) => Entry.host = Offset(k) + i
<1> DEFINE o == Offset(k)
           src == Source(k + 1)
           t == i - 1
<1>1. Len(src) \in Nat /\ o \in Nat
  BY TabsAt
<1>2. Entry.selector = Column(0) /\ Entry.host = Column(1)
  BY DEF Entry
<1>3. i \in 2 .. Len(src) + 1 /\ Cardinality(Tabs(src, 1, Len(src))) <= COLIDS
  BY DEF InReach
<1>4. t \in 1 .. Len(src) /\ o + t + 1 = o + i
  BY <1>1, <1>3
<1>5. src[t] = TAB => Column(Cardinality(Tabs(src, 1, t)) - 1) = o + t + 1
  BY <1>3, <1>4, ColumnFound
<1>6. \A c : IsColumn(src, c, i, j) => src[t] = TAB /\ Cardinality(Tabs(src, 1, t)) = c
  BY DEF IsColumn
<1> HIDE DEF o, src, t
<1>7. IsColumn(src, 1, i, j) => Column(0) = o + i
  <2>1. 1 - 1 = 0
    OBVIOUS
  <2> QED
    BY <1>4, <1>5, <1>6, <2>1
<1>8. IsColumn(src, 2, i, j) => Column(1) = o + i
  <2>1. 2 - 1 = 1
    OBVIOUS
  <2> QED
    BY <1>4, <1>5, <1>6, <2>1
<1> QED
  BY <1>2, <1>7, <1>8 DEF o, src

-----------------------------------------------------------------------------
(* What a turn of the wrapping loop does to the buffer.                    *)

\* An entry is that of a source line; a line of the table points to it.
Entered(e, m) ==
    /\ e.type = SourceType(Source(m))
    /\ \A i \in 2 .. Len(Source(m)) + 1, j \in 1 .. Len(Source(m)) :
         InReach(Source(m), i) =>
            /\ IsColumn(Source(m), 1, i, j) => e.selector = Offset(m - 1) + i
            /\ IsColumn(Source(m), 2, i, j) => e.host = Offset(m - 1) + i

\* The k-th line is being wrapped.
Wrapping(k) ==
    /\ k \in 1 .. Count /\ cursor = Offset(k) + 1
    /\ Entered(entry, k)
    /\ wrapptr \in Offset(k - 1) + 2 .. Until(k)
    /\ firstiteration <=> wrapptr = Offset(k - 1) + 2
    /\ buf[Until(k)] = NUL

Turn == wordwrap(buf, wrapptr, WrapLen)
TurnEnd == wrapptr + Len(Turn.line)
Zero == FirstIn(buf, wrapptr, {NUL})

LEMMA TurnFacts ==
    ASSUME ExplodeTypes, Usual, NEW k \in 1 .. Count, Buffered(buf, k), Wrapping(k), WrapLine
    PROVE  /\ Zero \in wrapptr .. Until(k)
           /\ \A p \in wrapptr .. Zero - 1 : buf[p] \notin {NUL, TAB, CR, LF}
           /\ buf[Zero] = NUL
           /\ Taken(buf, wrapptr, WrapLen, Turn, Zero)
           /\ TurnEnd \in wrapptr .. Zero /\ TurnEnd \in 1 .. Len(buf)
           /\ buf[wrapptr] # NUL => wrapptr < TurnEnd
           /\ buf' = [buf EXCEPT ![TurnEnd] = NUL]
           /\ \/ Turn.next = 0 /\ pc' = "line" /\ wrapptr' = wrapptr
              \/ /\ Turn.next \in TurnEnd .. Zero - 1 /\ Turn.next # 0
                 /\ wrapptr < Turn.next
                 /\ pc' = "wrap" /\ wrapptr' = Turn.next
           /\ firstiteration' = FALSE /\ menu' = menu /\ cursor' = cursor /\ entry' = entry
           /\ lines' = Append(lines, PieceOf(~firstiteration))
<1> DEFINE z == Until(k)
           len == Len(buf)
           o == Offset(k - 1)
           byte(p) == Bytes0[p]
<1>1. /\ o \in Nat /\ z \in o + 2 .. Offset(k) /\ Offset(k) <= len /\ len \in Nat
      /\ Offset(k) \in Nat
      /\ \A p \in o + 2 .. z - 1 : byte(p) \notin {NUL, TAB, CR, LF}
  <2>1. /\ Offset(k - 1) \in Nat /\ Offset(k) \in Nat /\ Offset(k) <= Len(buf) /\ Len(buf) \in Nat
    BY SourceAt
  <2>2. /\ Until(k) \in Offset(k - 1) + 2 .. Offset(k)
        /\ \A p \in Offset(k - 1) + 2 .. Until(k) - 1 : Bytes0[p] \notin {NUL, TAB, CR, LF}
    BY UsualSources, UntilFacts
  <2> QED
    BY <2>1, <2>2
<1>2. /\ wrapptr \in o + 2 .. z /\ buf[z] = NUL /\ buf \in Seq(Char)
      /\ \A p \in 1 .. len : buf[p] \in {byte(p), NUL}
  BY DEF Wrapping, Buffered, ExplodeTypes
<1>3. /\ pc = "wrap" /\ lines' = Append(lines, PieceOf(~firstiteration))
      /\ buf' = IF TurnEnd <= len THEN [buf EXCEPT ![TurnEnd] = NUL] ELSE buf
      /\ IF Turn.next = 0 THEN pc' = "line" /\ UNCHANGED wrapptr
         ELSE wrapptr' = Turn.next /\ UNCHANGED pc
      /\ firstiteration' = FALSE /\ menu' = menu /\ cursor' = cursor /\ entry' = entry
  BY DEF WrapLine, Turn, TurnEnd
<1> HIDE DEF z, len, o, byte
<1>4. /\ Zero \in wrapptr .. z /\ At(buf, Zero) = NUL
      /\ \A p \in wrapptr .. Zero - 1 : At(buf, p) # NUL
  <2>1. wrapptr \in 1 .. Len(buf) + 1 /\ z \in wrapptr .. Len(buf) + 1 /\ z <= Len(buf)
    BY <1>1, <1>2 DEF len
  <2>2. At(buf, z) \in {NUL}
    BY <1>2, <2>1 DEF At
  <2>3. /\ FirstIn(buf, wrapptr, {NUL}) \in wrapptr .. z
        /\ At(buf, FirstIn(buf, wrapptr, {NUL})) \in {NUL}
        /\ \A p \in wrapptr .. FirstIn(buf, wrapptr, {NUL}) - 1 : At(buf, p) \notin {NUL}
    BY <1>2, <2>1, <2>2, FirstFound
  <2> QED
    BY <2>3 DEF Zero
<1> HIDE DEF Zero
<1>5. /\ Zero \in 1 .. len /\ wrapptr \in 1 .. len /\ wrapptr \in Nat
      /\ \A p \in wrapptr .. Zero - 1 : p \in 1 .. len /\ p \in o + 2 .. z - 1
  BY <1>1, <1>2, <1>4
<1>6. buf[Zero] = NUL /\ \A p \in wrapptr .. Zero - 1 : buf[p] # NUL
  BY <1>4, <1>5 DEF At, len
<1>7. \A p \in wrapptr .. Zero - 1 : buf[p] \notin {NUL, TAB, CR, LF}
  BY <1>1, <1>2, <1>5, <1>6
<1>8. Taken(buf, wrapptr, WrapLen, Turn, Zero)
  <2>1. /\ wrapptr \in 1 .. Len(buf) + 1 /\ WrapLen \in Nat \ {0}
        /\ Zero \in wrapptr .. Len(buf) + 1 /\ At(buf, Zero) = NUL
    BY <1>4, <1>5, WrapLenFacts DEF len
  <2>2. Taken(buf, wrapptr, WrapLen, wordwrap(buf, wrapptr, WrapLen), Zero)
    BY <1>2, <1>7, <2>1, WordwrapTakes
  <2> QED
    BY <2>2 DEF Turn
<1>9. /\ TurnEnd \in wrapptr .. Zero /\ (wrapptr < Zero => wrapptr < TurnEnd)
      /\ \/ Turn.next = 0
         \/ Turn.next \in TurnEnd .. Zero - 1 /\ wrapptr < Turn.next
  BY <1>8 DEF Taken, TurnEnd
<1>10. TurnEnd \in 1 .. len /\ TurnEnd <= len
  BY <1>5, <1>9
<1>11. buf[wrapptr] # NUL => wrapptr < TurnEnd
  <2> SUFFICES ASSUME buf[wrapptr] # NUL PROVE wrapptr < TurnEnd
    OBVIOUS
  <2>1. wrapptr # Zero
    BY <1>6
  <2> QED
    BY <1>4, <1>5, <1>9, <2>1
<1>12. Turn.next \in TurnEnd .. Zero - 1 => Turn.next # 0
  BY <1>5, <1>9, <1>10
<1> QED
  BY <1>3, <1>4, <1>6, <1>7, <1>8, <1>9, <1>10, <1>11, <1>12 DEF z, len

\* The columns, the lines before and the beginning of the description stay.
LEMMA TurnKeeps ==
    ASSUME ExplodeTypes, Usual, NEW k \in 1 .. Count, Buffered(buf, k), KeptLines(buf, k),
           Wrapping(k), WrapLine
    PROVE  /\ Buffered(buf', k) /\ KeptLines(buf', k)
           /\ buf'[Until(k)] = NUL
<1> DEFINE z == Until(k)
           o == Offset(k - 1)
           len == Len(buf)
           c == TurnEnd
           byte(p) == Bytes0[p]
<1>1. /\ c \in wrapptr .. z /\ c \in 1 .. len
      /\ buf[wrapptr] # NUL => wrapptr < c
      /\ buf' = [buf EXCEPT ![c] = NUL] /\ len \in Nat
  <2>1. /\ Zero \in wrapptr .. Until(k) /\ TurnEnd \in wrapptr .. Zero /\ TurnEnd \in 1 .. Len(buf)
        /\ buf[wrapptr] # NUL => wrapptr < TurnEnd
        /\ buf' = [buf EXCEPT ![TurnEnd] = NUL]
    BY TurnFacts
  <2>2. Until(k) \in Nat /\ wrapptr \in Nat /\ Len(buf) \in Nat
    <3>1. Until(k) \in Offset(k - 1) + 2 .. Offset(k) /\ Offset(k) \in Nat /\ Offset(k - 1) \in Nat
          /\ Len(buf) \in Nat
      BY SourceAt, UsualSources, UntilFacts
    <3> QED
      BY <3>1 DEF ExplodeTypes
  <2> HIDE DEF Zero, TurnEnd
  <2> QED
    BY <2>1, <2>2
<1>2. /\ \A p \in 1 .. len : buf[p] \in {byte(p), NUL}
      /\ \A p \in 1 .. Offset(k) : buf[p] \notin {TAB, CR, LF}
      /\ \A p \in Offset(k) + 1 .. len :
           buf[p] = IF p = Offset(k) + 1 /\ byte(p) = CR THEN NUL ELSE byte(p)
      /\ wrapptr \in o + 2 .. z /\ buf[z] = NUL
      /\ \A m \in 1 .. k : KeptLine(buf, m)
  BY DEF Buffered, Wrapping, KeptLines
<1>3. /\ o \in Nat /\ Offset(k) \in Nat /\ z \in o + 2 .. Offset(k) /\ Offset(k) <= len
      /\ \A m \in 1 .. k - 1 : Offset(m) <= o /\ Offset(m) \in Nat
      /\ \A m \in 1 .. k : /\ Offset(m - 1) \in Nat /\ BodyEnd(m) \in Nat
                           /\ Until(m) \in Offset(m - 1) + 2 .. Offset(m)
                           /\ BodyEnd(m) < Offset(m)
  <2>1. k - 1 \in 0 .. Count /\ Count \in Nat
    BY OffsetEnds
  <2>2. \A m \in 1 .. k : m \in 1 .. Count
    BY <2>1
  <2>3. ASSUME NEW m \in 1 .. Count
        PROVE  /\ Offset(m - 1) \in Nat /\ BodyEnd(m) \in Nat
               /\ Until(m) \in Offset(m - 1) + 2 .. Offset(m)
               /\ BodyEnd(m) < Offset(m) /\ Offset(m) \in Nat /\ Offset(m) <= Len(buf)
    <3>1. Offset(m - 1) \in Nat /\ Offset(m) \in Nat /\ Offset(m) <= Len(buf)
          /\ BodyEnd(m) \in Offset(m - 1) .. Offset(m) - 1
      BY SourceAt
    <3>2. Until(m) \in Offset(m - 1) + 2 .. Offset(m)
      BY UsualSources, UntilFacts
    <3> QED
      BY <3>1, <3>2
  <2>4. ASSUME NEW m \in 1 .. k - 1 PROVE Offset(m) <= Offset(k - 1) /\ Offset(m) \in Nat
    <3>1. m = k - 1 \/ m \in 0 .. (k - 1) - 1
      BY <2>1
    <3>2. m = k - 1 \/ Offset(m) < Offset(k - 1)
      BY <2>1, <3>1, OffsetsGrow
    <3>3. m \in 1 .. Count /\ k \in 1 .. Count
      BY <2>1
    <3>4. Offset(m) \in Nat /\ Offset(k - 1) \in Nat
      BY <2>3, <3>3
    <3> QED
      BY <3>2, <3>4
  <2> QED
    BY <2>2, <2>3, <2>4
<1>4. buf \in Seq(Char) /\ DOMAIN buf = 1 .. len
  BY LenProperties DEF ExplodeTypes
<1> HIDE DEF z, o, len, c, byte
<1>5. /\ Len(buf') = len
      /\ \A p \in 1 .. len : buf'[p] = IF p = c THEN NUL ELSE buf[p]
  <2>1. buf' \in Seq(Char) /\ Len(buf') = Len(buf)
    BY <1>1, <1>4, ExceptSeq, Marks DEF len
  <2> QED
    BY <1>1, <1>4, <2>1 DEF len
<1>6. Buffered(buf', k)
  <2>1. \A p \in 1 .. len : buf'[p] \in {byte(p), NUL}
    BY <1>2, <1>5
  <2>2. \A p \in 1 .. Offset(k) : buf'[p] \notin {TAB, CR, LF}
    <3>1. \A p \in 1 .. Offset(k) : p \in 1 .. len
      BY <1>1, <1>3
    <3> QED
      BY <1>2, <1>5, <3>1, Marks
  <2>3. \A p \in Offset(k) + 1 .. len :
          buf'[p] = IF p = Offset(k) + 1 /\ byte(p) = CR THEN NUL ELSE byte(p)
    <3>1. \A p \in Offset(k) + 1 .. len : p \in 1 .. len /\ p # c
      BY <1>1, <1>2, <1>3
    <3> QED
      BY <1>2, <1>5, <3>1
  <2> QED
    BY <1>5, <2>1, <2>2, <2>3 DEF Buffered, byte
<1>7. ASSUME NEW m \in 1 .. k PROVE KeptLine(buf', m)
  <2> DEFINE zm == Until(m)
             bm == BodyEnd(m)
             om == Offset(m - 1)
             em == Offset(m)
  <2>1. /\ \A p \in zm + 1 .. bm : byte(p) # TAB => buf[p] = byte(p)
        /\ om + 2 < zm => buf[om + 2] # NUL
    BY <1>2 DEF KeptLine, byte
  <2>2. /\ om \in Nat /\ bm \in Nat /\ zm \in om + 2 .. em /\ bm < em /\ em \in Nat
        /\ em <= len
        /\ \/ m = k /\ zm = z /\ om = o
           \/ em <= o
    <3>1. om \in Nat /\ bm \in Nat /\ zm \in om + 2 .. em /\ bm < em
      BY <1>3
    <3>2. CASE m = k
      BY <1>3, <3>1, <3>2 DEF z, o
    <3>3. CASE m # k
      <4>1. m \in 1 .. k - 1
        BY <3>3
      <4>2. em <= o /\ em \in Nat
        BY <1>3, <4>1 DEF em
      <4>3. o <= len /\ o \in Nat /\ len \in Nat
        BY <1>1, <1>3
      <4> HIDE DEF em, zm, bm, om
      <4> QED
        BY <3>1, <4>2, <4>3
    <3> QED
      BY <3>2, <3>3
  <2> HIDE DEF zm, bm, om, em
  <2>3. \A p \in zm + 1 .. bm : p \in 1 .. len /\ p # c
    BY <1>1, <1>2, <1>3, <2>2
  <2>4. om + 2 < zm => om + 2 \in 1 .. len /\ (om + 2 = c => m = k /\ c = wrapptr)
    BY <1>1, <1>2, <1>3, <2>2
  <2>5. om + 2 < zm => buf'[om + 2] # NUL
    <3> SUFFICES ASSUME om + 2 < zm PROVE buf'[om + 2] # NUL
      OBVIOUS
    <3>1. om + 2 # c
      <4> SUFFICES ASSUME om + 2 = c PROVE FALSE
        OBVIOUS
      <4>1. c = wrapptr /\ buf[wrapptr] # NUL
        BY <2>1, <2>4
      <4>2. wrapptr \in Nat
        BY <1>2, <1>3
      <4> QED
        BY <1>1, <4>1, <4>2
    <3> QED
      BY <1>5, <2>1, <2>4, <3>1
  <2>6. \A p \in zm + 1 .. bm : byte(p) # TAB => buf'[p] = byte(p)
    BY <1>5, <2>1, <2>3
  <2> QED
    BY <2>5, <2>6 DEF KeptLine, zm, bm, om, byte
<1>8. buf'[z] = NUL
  <2>1. z \in 1 .. len
    BY <1>1, <1>3
  <2> QED
    BY <1>2, <1>5, <2>1
<1> QED
  BY <1>6, <1>7, <1>8 DEF KeptLines, z

-----------------------------------------------------------------------------
(* The links of the table and those of the menu.                           *)

LinkPart == [l \in Line |-> IF Selectable(l) THEN <<l>> ELSE <<>>]
SourcePart == [s \in Seq(STRING) |-> IF SourceLink(s) THEN <<s>> ELSE <<>>]

LEMMA LinkParts ==
    LinkPart \in [Line -> Seq(Line)] /\ SourcePart \in [Seq(STRING) -> Seq(Seq(STRING))]
<1>1. \A l \in Line : (IF Selectable(l) THEN <<l>> ELSE <<>>) \in Seq(Line)
  BY EmptySeq
<1> DEFINE T == Seq(STRING)
<1> HIDE DEF T
<1>2. \A s \in T : (IF SourceLink(s) THEN <<s>> ELSE <<>>) \in Seq(T)
  BY EmptySeq
<1> QED
  BY <1>1, <1>2 DEF LinkPart, SourcePart, T

LEMMA LinksMapped ==
    ASSUME NEW ls \in Seq(Line)
    PROVE  FlattenSeq([i \in 1 .. Len(ls) |->
             IF Selectable(ls[i]) THEN <<ls[i]>> ELSE <<>>]) = FlatMap(ls, LinkPart)
<1>1. \A i \in 1 .. Len(ls) : ls[i] \in Line
  BY ElementOfSeq
<1>2. \A i \in 1 .. Len(ls) :
        LinkPart[ls[i]] = IF Selectable(ls[i]) THEN <<ls[i]>> ELSE <<>>
  BY <1>1 DEF LinkPart
<1>3. [i \in 1 .. Len(ls) |-> IF Selectable(ls[i]) THEN <<ls[i]>> ELSE <<>>]
      = [i \in 1 .. Len(ls) |-> LinkPart[ls[i]]]
  BY <1>2, Zenon
<1> QED
  BY <1>3, Zenon DEF FlatMap

LEMMA SourcesMapped ==
    ASSUME NEW ss \in Seq(Seq(STRING))
    PROVE  LinksOf(ss) = FlatMap(ss, SourcePart)
<1>1. \A i \in 1 .. Len(ss) : ss[i] \in Seq(STRING)
  BY ElementOfSeq
<1>2. \A i \in 1 .. Len(ss) :
        SourcePart[ss[i]] = IF SourceLink(ss[i]) THEN <<ss[i]>> ELSE <<>>
  BY <1>1 DEF SourcePart
<1>3. [i \in 1 .. Len(ss) |-> IF SourceLink(ss[i]) THEN <<ss[i]>> ELSE <<>>]
      = [i \in 1 .. Len(ss) |-> SourcePart[ss[i]]]
  BY <1>2, Zenon
<1> QED
  BY <1>3, Zenon DEF FlatMap, LinksOf

\* The links of the first k source lines.
LinksTo(k) == LinksOf(SubSeq(menu.sources, 1, k))

LEMMA LinksToFacts ==
    ASSUME ExplodeTypes
    PROVE  /\ LinksTo(0) = <<>> /\ LinksTo(Count) = SourceLinks
           /\ SourceLinks \in Seq(Seq(STRING))
           /\ \A k \in 0 .. Count : LinksTo(k) \in Seq(Seq(STRING))
           /\ \A k \in 0 .. Count - 1 :
                /\ Source(k + 1) \in Seq(STRING)
                /\ LinksTo(k + 1) =
                     LinksTo(k) \o (IF SourceLink(Source(k + 1)) THEN <<Source(k + 1)>> ELSE <<>>)
                /\ \E rest \in Seq(Seq(STRING)) : SourceLinks = LinksTo(k) \o rest
<1> DEFINE all == menu.sources
           T == Seq(STRING)
           prefix(k) == SubSeq(all, 1, k)
<1>1. all \in Seq(T) /\ Count = Len(all) /\ Count \in Nat
  <2>1. all \in Seq(Sources) /\ Sources \subseteq T
    BY MenuExplodeAssumption DEF ExplodeTypes
  <2>2. Seq(Sources) \subseteq Seq(T)
    BY <2>1, SeqMonotonic
  <2> QED
    BY <2>1, <2>2, OffsetEnds DEF Count
<1>2. SourcePart \in [T -> Seq(T)]
  BY LinkParts
<1>3. \A ss \in Seq(T) : LinksOf(ss) = FlatMap(ss, SourcePart)
  BY SourcesMapped
<1>4. \A s \in T : SourcePart[s] = IF SourceLink(s) THEN <<s>> ELSE <<>>
  BY DEF SourcePart
<1>5. \A k \in 0 .. Count : LinksTo(k) = LinksOf(prefix(k))
  BY DEF LinksTo
<1>6. SourceLinks = LinksOf(all)
  BY DEF SourceLinks
<1>7. \A k \in 0 .. Count - 1 : Source(k + 1) = all[k + 1]
  BY DEF Source
<1> HIDE DEF all, T
<1>8. prefix(0) = <<>> /\ prefix(Count) = all /\ <<>> \in Seq(T)
  BY <1>1, SubSeqFull, SubSeqEmpty, EmptySeq
<1>9. \A ss \in Seq(T) : LinksOf(ss) \in Seq(T)
  BY <1>2, <1>3, FlatMapType
<1>10. LinksOf(<<>>) = <<>>
  BY <1>2, <1>3, <1>8, FlatMapEmpty
<1>11. ASSUME NEW k \in 0 .. Count - 1
       PROVE  /\ prefix(k) \in Seq(T) /\ prefix(k + 1) \in Seq(T) /\ all[k + 1] \in T
              /\ LinksOf(prefix(k + 1)) = LinksOf(prefix(k)) \o SourcePart[all[k + 1]]
              /\ \E rest \in Seq(T) : LinksOf(all) = LinksOf(prefix(k)) \o rest
  <2>1. k \in Nat /\ k < Len(all)
    BY <1>1
  <2>2. prefix(k) \in Seq(T) /\ prefix(k + 1) \in Seq(T) /\ all[k + 1] \in T
    BY <1>1, <2>1, PrefixGrows
  <2>3. /\ FlatMap(prefix(k + 1), SourcePart) =
             FlatMap(prefix(k), SourcePart) \o SourcePart[all[k + 1]]
        /\ \E rest \in Seq(T) : FlatMap(all, SourcePart) = FlatMap(prefix(k), SourcePart) \o rest
    <3> DEFINE d == SourcePart
    <3>1. all \in Seq(T) /\ d \in [T -> Seq(T)] /\ k \in Nat /\ k < Len(all)
      BY <1>1, <1>2, <2>1
    <3> HIDE DEF d
    <3>2. FlatMap(SubSeq(all, 1, k + 1), d) = FlatMap(SubSeq(all, 1, k), d) \o d[all[k + 1]]
      BY <3>1, PrefixMapped, Zenon
    <3>3. FlatMap(all, d) =
            FlatMap(SubSeq(all, 1, k), d) \o FlatMap(SubSeq(all, k + 1, Len(all)), d)
      BY <3>1, RestMapped, Zenon
    <3>4. FlatMap(SubSeq(all, k + 1, Len(all)), d) \in Seq(T)
      BY <3>1, PrefixGrows, FlatMapType, Zenon
    <3> QED
      BY <3>2, <3>3, <3>4, Zenon DEF d
  <2> HIDE DEF prefix
  <2> QED
    BY <1>1, <1>3, <2>2, <2>3
<1>12. \A k \in 0 .. Count : prefix(k) \in Seq(T)
  <2> SUFFICES ASSUME NEW k \in 0 .. Count PROVE prefix(k) \in Seq(T)
    OBVIOUS
  <2>1. k = Count \/ k \in 0 .. Count - 1
    BY <1>1
  <2> HIDE DEF prefix
  <2> QED
    BY <1>1, <1>8, <1>11, <2>1
<1> HIDE DEF prefix
<1>13. \A k \in 0 .. Count : LinksTo(k) \in Seq(T)
  BY <1>5, <1>9, <1>12
<1>14. LinksTo(0) = <<>> /\ LinksTo(Count) = SourceLinks /\ SourceLinks \in Seq(T)
  BY <1>1, <1>5, <1>6, <1>8, <1>9, <1>10
<1>15. ASSUME NEW k \in 0 .. Count - 1
       PROVE  /\ Source(k + 1) \in T
              /\ LinksTo(k + 1) =
                   LinksTo(k) \o (IF SourceLink(Source(k + 1)) THEN <<Source(k + 1)>> ELSE <<>>)
              /\ \E rest \in Seq(T) : SourceLinks = LinksTo(k) \o rest
  <2>1. k \in 0 .. Count /\ k + 1 \in 0 .. Count
    BY <1>1
  <2>2. LinksTo(k) = LinksOf(prefix(k)) /\ LinksTo(k + 1) = LinksOf(prefix(k + 1))
    BY <1>5, <2>1
  <2>3. SourcePart[all[k + 1]] =
          IF SourceLink(Source(k + 1)) THEN <<Source(k + 1)>> ELSE <<>>
    BY <1>4, <1>7, <1>11
  <2> QED
    BY <1>6, <1>7, <1>11, <2>2, <2>3
<1> QED
  BY <1>13, <1>14, <1>15 DEF T

-----------------------------------------------------------------------------
(* Every link of the menu is listed.                                       *)

\* The lines for links, as far as the first k source lines are concerned.
Points(l, m) == l.text = Offset(m - 1) + 2 /\ Entered(l, m)
Matches(links, k) ==
    /\ Len(links) <= Len(LinksTo(k))
    /\ \A i \in 1 .. Len(links) :
         \E m \in 1 .. k : Points(links[i], m) /\ LinksTo(k)[i] = Source(m)
AllMatch(links, k) == Matches(links, k) /\ Len(links) = Len(LinksTo(k))
OthersNameless(links, k) ==
    \A i \in Len(links) + 1 .. Len(LinksTo(k)) : Nameless(LinksTo(k)[i])

\* k source lines have been taken from the buffer.
Exploded(k) ==
    /\ Buffered(buf, k) /\ KeptLines(buf, k)
    /\ pc = "line" => cursor = Offset(k) + 1 /\ AllMatch(Links, k)
    /\ pc = "wrap" =>
         Wrapping(k) /\ AllMatch(Links, IF firstiteration THEN k - 1 ELSE k)
    /\ pc \in {"dot", "trim", "done"} =>
         Matches(Links, k) /\ OthersNameless(Links, k) /\ (k = Count \/ truncated)

LEMMA MenuStays ==
    ASSUME menu' = menu
    PROVE  /\ Bytes0' = Bytes0 /\ Count' = Count /\ (Usual' <=> Usual)
           /\ \A k : /\ (Offset(k))' = Offset(k) /\ (Source(k))' = Source(k)
                     /\ (Until(k))' = Until(k) /\ (BodyEnd(k))' = BodyEnd(k)
                     /\ (LinksTo(k))' = LinksTo(k)
BY DEF Bytes0, MenuBytes, Count, Usual, Offset, Joint, Ended, Source, Until, BodyEnd, LinksTo

LEMMA ExplodedNext ==
    ASSUME menu' = menu, NEW k,
           Buffered(buf', k), KeptLines(buf', k),
           pc' = "line" => cursor' = Offset(k) + 1 /\ AllMatch(Links', k),
           pc' = "wrap" =>
             /\ k \in 1 .. Count /\ cursor' = Offset(k) + 1
             /\ Entered(entry', k)
             /\ wrapptr' \in Offset(k - 1) + 2 .. Until(k)
             /\ firstiteration' <=> wrapptr' = Offset(k - 1) + 2
             /\ buf'[Until(k)] = NUL
             /\ AllMatch(Links', IF firstiteration' THEN k - 1 ELSE k),
           pc' \in {"dot", "trim", "done"} =>
             Matches(Links', k) /\ OthersNameless(Links', k) /\ (k = Count \/ truncated')
    PROVE  Exploded(k)'
<1>1. /\ Bytes0' = Bytes0 /\ Count' = Count
      /\ \A j : /\ (Offset(j))' = Offset(j) /\ (Source(j))' = Source(j)
                /\ (Until(j))' = Until(j) /\ (BodyEnd(j))' = BodyEnd(j)
                /\ (LinksTo(j))' = LinksTo(j)
  BY MenuStays
<1>2. Buffered(buf, k)' <=> Buffered(buf', k)
  BY <1>1 DEF Buffered
<1>3. KeptLines(buf, k)' <=> KeptLines(buf', k)
  BY <1>1 DEF KeptLines, KeptLine
<1>4. /\ \A e, m : Entered(e, m)' <=> Entered(e, m)
      /\ \A l, m : Points(l, m)' <=> Points(l, m)
  BY <1>1 DEF Points, Entered
<1>5. /\ \A j : Matches(Links, j)' <=> Matches(Links', j)
      /\ \A j : AllMatch(Links, j)' <=> AllMatch(Links', j)
      /\ \A j : OthersNameless(Links, j)' <=> OthersNameless(Links', j)
  BY <1>1, <1>4 DEF Matches, AllMatch, OthersNameless
<1> QED
  BY <1>1, <1>2, <1>3, <1>4, <1>5 DEF Exploded, Wrapping

LEMMA MatchesMore ==
    ASSUME ExplodeTypes, NEW k \in 1 .. Count, NEW links \in Seq(Line), AllMatch(links, k - 1)
    PROVE  /\ ~SourceLink(Source(k)) => AllMatch(links, k)
           /\ \A l \in Line : Points(l, k) /\ SourceLink(Source(k)) =>
                                AllMatch(links \o <<l>>, k)
<1> DEFINE a == LinksTo(k - 1)
           b == LinksTo(k)
           s == Source(k)
           T == Seq(STRING)
<1>1. a \in Seq(T) /\ s \in T /\ b = a \o (IF SourceLink(s) THEN <<s>> ELSE <<>>)
  <2> DEFINE j == k - 1
  <2>1. j \in 0 .. Count - 1 /\ j \in 0 .. Count /\ j + 1 = k
    BY OffsetEnds
  <2> HIDE DEF j
  <2>2. /\ LinksTo(j) \in Seq(Seq(STRING)) /\ Source(j + 1) \in Seq(STRING)
        /\ LinksTo(j + 1) =
             LinksTo(j) \o (IF SourceLink(Source(j + 1)) THEN <<Source(j + 1)>> ELSE <<>>)
    BY <2>1, LinksToFacts
  <2>3. k - 1 = j
    BY DEF j
  <2> QED
    BY <2>1, <2>2, <2>3
<1>2. /\ Len(links) = Len(a) /\ Len(links) \in Nat
      /\ \A i \in 1 .. Len(links) : \E m \in 1 .. k - 1 : Points(links[i], m) /\ a[i] = Source(m)
  BY LenProperties DEF AllMatch, Matches
<1>3. k \in Nat /\ \A m \in 1 .. k - 1 : m \in 1 .. k
  BY OffsetEnds
<1>4. ASSUME ~SourceLink(s) PROVE AllMatch(links, k)
  <2>1. b = a
    BY <1>1, <1>4, ConcatEmptySeq
  <2> QED
    BY <1>2, <1>3, <2>1 DEF AllMatch, Matches
<1>5. ASSUME NEW l \in Line, Points(l, k), SourceLink(s) PROVE AllMatch(links \o <<l>>, k)
  <2> DEFINE ls == links \o <<l>>
  <2>1. /\ Len(ls) = Len(links) + 1 /\ ls[Len(links) + 1] = l
        /\ \A i \in 1 .. Len(links) : ls[i] = links[i]
    BY OneBehind
  <2>2. b = a \o <<s>>
    BY <1>1, <1>5
  <2> HIDE DEF ls, a, b, T
  <2>3. /\ Len(b) = Len(a) + 1 /\ b[Len(a) + 1] = s /\ \A i \in 1 .. Len(a) : b[i] = a[i]
    BY <1>1, <2>2, OneBehind
  <2>4. ASSUME NEW i \in 1 .. Len(ls) PROVE \E m \in 1 .. k : Points(ls[i], m) /\ b[i] = Source(m)
    <3>1. CASE i = Len(links) + 1
      <4>1. ls[i] = l /\ b[i] = Source(k) /\ k \in 1 .. k
        BY <1>2, <1>3, <2>1, <2>3, <3>1
      <4> QED
        BY <1>5, <4>1
    <3>2. CASE i \in 1 .. Len(links)
      <4>1. PICK m \in 1 .. k - 1 : Points(links[i], m) /\ a[i] = Source(m)
        BY <1>2, <3>2
      <4>2. ls[i] = links[i] /\ b[i] = a[i]
        BY <1>2, <2>1, <2>3, <3>2
      <4> QED
        BY <1>3, <4>1, <4>2
    <3> QED
      BY <1>2, <2>1, <3>1, <3>2
  <2>5. Len(ls) = Len(b)
    BY <1>2, <2>1, <2>3
  <2> QED
    BY <1>2, <2>1, <2>4, <2>5 DEF AllMatch, Matches, ls, b
<1> QED
  BY <1>4, <1>5

LEMMA MatchesFewer ==
    ASSUME NEW links \in Seq(Line), NEW l \in Line, NEW k,
           Matches(links \o <<l>>, k), OthersNameless(links \o <<l>>, k),
           \A m \in 1 .. k : Points(l, m) => Nameless(Source(m))
    PROVE  Matches(links, k) /\ OthersNameless(links, k)
<1> DEFINE ls == links \o <<l>>
           n == Len(links)
           all == LinksTo(k)
<1>1. /\ Len(ls) = n + 1 /\ n \in Nat /\ ls[n + 1] = l
      /\ \A i \in 1 .. n : ls[i] = links[i]
  BY OneBehind
<1>2. /\ Len(ls) <= Len(all)
      /\ \A i \in 1 .. Len(ls) : \E m \in 1 .. k : Points(ls[i], m) /\ all[i] = Source(m)
      /\ \A i \in Len(ls) + 1 .. Len(all) : Nameless(all[i])
  BY DEF Matches, OthersNameless
<1> HIDE DEF ls, n, all
<1>4. Nameless(all[n + 1])
  <2>1. n + 1 \in 1 .. Len(ls)
    BY <1>1
  <2>2. PICK m \in 1 .. k : Points(ls[n + 1], m) /\ all[n + 1] = Source(m)
    BY <1>2, <2>1
  <2> QED
    BY <1>1, <2>2
<1>5. \A i \in 1 .. n : \E m \in 1 .. k : Points(links[i], m) /\ all[i] = Source(m)
  <2>1. \A i \in 1 .. n : i \in 1 .. Len(ls) /\ ls[i] = links[i]
    BY <1>1
  <2> QED
    BY <1>2, <2>1
<1> QED
  BY <1>1, <1>2, <1>4, <1>5 DEF Matches, OthersNameless, n, all

LEMMA LinksInTable ==
    ASSUME ExplodeTypes
    PROVE  Links = FlatMap(lines, LinkPart) /\ Links \in Seq(Line)
<1>1. lines \in Seq(Line)
  BY DEF ExplodeTypes
<1>2. Links = FlatMap(lines, LinkPart)
  BY <1>1, LinksMapped DEF Links
<1> QED
  BY <1>1, <1>2, LinkParts, FlatMapType

LEMMA InitExploded == ExplodeInit /\ Usual => Exploded(0)
<1> SUFFICES ASSUME ExplodeInit, Usual PROVE Exploded(0)
  OBVIOUS
<1>1. ExplodeTypes /\ buf = Bytes0 /\ cursor = 1 /\ pc = "line" /\ lines = <<>>
  BY InitExplodeTypes DEF ExplodeInit, Bytes0
<1>2. Offset(0) = 0 /\ Offset(Count) = Len(buf) /\ Count \in Nat /\ LinksTo(0) = <<>>
  BY <1>1, OffsetEnds, LinksToFacts
<1>3. Links = <<>> /\ Len(<<>>) = 0
  BY <1>1, LinksInTable, LinkParts, FlatMapEmpty
<1>4. \A p \in 1 .. Len(buf) : p = 1 => Bytes0[p] # CR
  <2> SUFFICES ASSUME 1 \in 1 .. Len(buf) PROVE Bytes0[1] # CR
    OBVIOUS
  <2>1. Count # 0
    BY <1>1, <1>2
  <2>2. 1 \in 1 .. Count
    BY <1>2, <2>1
  <2>3. Source(1) # <<>>
    BY <2>2, UsualSources DEF UsualSource
  <2>4. Len(Source(1)) \in Nat /\ Source(1) \in Seq(STRING)
        /\ \A j \in 1 .. Len(Source(1)) :
             Bytes0[Offset(1 - 1) + j] = Source(1)[j] /\ Source(1)[j] \notin {NUL, CR, LF}
    BY <1>1, <2>2, SourceAt
  <2>5. 1 \in 1 .. Len(Source(1))
    BY <2>3, <2>4, EmptySeq
  <2>6. 1 - 1 = 0 /\ 0 + 1 = 1
    OBVIOUS
  <2>7. Bytes0[Offset(0) + 1] = Source(1)[1] /\ Source(1)[1] # CR
    BY <2>4, <2>5, <2>6
  <2> QED
    BY <1>2, <2>7
<1>5. Buffered(buf, 0)
  BY <1>1, <1>2, <1>4 DEF Buffered
<1>6. KeptLines(buf, 0)
  BY DEF KeptLines
<1>7. AllMatch(Links, 0)
  BY <1>2, <1>3 DEF AllMatch, Matches
<1> QED
  BY <1>1, <1>2, <1>5, <1>6, <1>7 DEF Exploded

\* The line at the cursor is the next one.
LEMMA LineToCome ==
    ASSUME ExplodeTypes, NEW k \in 0 .. Count, cursor = Offset(k) + 1
    PROVE  IF cursor <= Len(buf) THEN k \in 0 .. Count - 1 ELSE k = Count
<1>1. Offset(Count) = Len(buf) /\ Count \in Nat /\ Len(buf) \in Nat
  BY OffsetEnds, LenProperties DEF ExplodeTypes
<1>2. Offset(k) \in 0 .. Len(buf) /\ \A j \in 0 .. Count - 1 : Offset(j) < Offset(Count)
  BY <1>1, OffsetsGrow
<1> QED
  BY <1>1, <1>2

LEMMA ExplodeLineExploded ==
    ASSUME ExplodeTypes, Usual, NEW k \in 0 .. Count, Exploded(k), ExplodeLine
    PROVE  k + 1 \in 0 .. Count /\ Exploded(k + 1)'
<1>1. /\ pc = "line" /\ cursor <= Len(buf) /\ entry' = Entry /\ buf' = Separated
      /\ wrapptr' = cursor + 1 /\ firstiteration' = TRUE /\ cursor' = LineEnd + 1
      /\ pc' = "wrap" /\ menu' = menu /\ lines' = lines
  BY DEF ExplodeLine
<1>2. Buffered(buf, k) /\ KeptLines(buf, k) /\ cursor = Offset(k) + 1 /\ AllMatch(Links, k)
  BY <1>1 DEF Exploded
<1>3. k \in 0 .. Count - 1
  BY <1>1, <1>2, LineToCome
<1> DEFINE m == k + 1
<1>4. m \in 1 .. Count /\ m - 1 = k /\ m \in 0 .. Count
  BY <1>3, OffsetEnds
<1>5. /\ Buffered(Separated, m) /\ KeptLines(Separated, m) /\ Separated[Until(m)] = NUL
      /\ ItemType = SourceType(Source(m))
  BY <1>2, <1>3, LineSeparated
<1>6. Entered(Entry, m)
  <2>1. \A i \in 2 .. Len(Source(k + 1)) + 1, j \in 1 .. Len(Source(k + 1)) :
          InReach(Source(k + 1), i) =>
             /\ IsColumn(Source(k + 1), 1, i, j) => Entry.selector = Offset(k) + i
             /\ IsColumn(Source(k + 1), 2, i, j) => Entry.host = Offset(k) + i
    BY <1>2, <1>3, EntryAt
  <2>2. Entry.type = SourceType(Source(m))
    BY <1>1, <1>5, EntryType
  <2> QED
    BY <1>4, <2>1, <2>2 DEF Entered
<1>7. LineEnd = Offset(m)
  BY <1>2, <1>3, LineEndsAt
<1> HIDE DEF m
<1>8. Until(m) \in Offset(m - 1) + 2 .. Offset(m) /\ Offset(m - 1) \in Nat
  BY <1>4, SourceAt, UsualSources, UntilFacts
<1>9. wrapptr' = Offset(m - 1) + 2 /\ wrapptr' \in Offset(m - 1) + 2 .. Until(m)
      /\ cursor' = Offset(m) + 1
  BY <1>1, <1>2, <1>4, <1>7, <1>8
<1>10. Links' = Links
  BY <1>1 DEF Links
<1>11. Exploded(m)'
  BY <1>1, <1>2, <1>4, <1>5, <1>6, <1>9, <1>10, ExplodedNext
<1> QED
  BY <1>4, <1>11 DEF m

\* The first piece of a line leads where its entry does.
LEMMA PiecePoints ==
    ASSUME ExplodeTypes, NEW k \in 1 .. Count, Entered(entry, k), wrapptr = Offset(k - 1) + 2,
           NEW c
    PROVE  PieceOf(c).text = Offset(k - 1) + 2 /\ Entered(PieceOf(c), k)
<1> DEFINE piece == PieceOf(c)
           o == Offset(k - 1)
           src == Source(k)
<1>1. /\ piece.text = wrapptr /\ piece.type = entry.type
      /\ piece.selector = Reached(entry.selector) /\ piece.host = Reached(entry.host)
  BY DEF PieceOf
<1>2. o \in Nat /\ Len(src) \in Nat /\ wrapptr = o + 2
  BY SourceAt
<1>3. OFFSETS \in Nat
  BY MenuExplodeAssumption
<1>4. ASSUME NEW i \in 2 .. Len(src) + 1, InReach(src, i) PROVE Reached(o + i) = o + i
  <2> DEFINE p == o + i
  <2>1. p \in Nat /\ p # 0 /\ p - wrapptr \in 0 .. OFFSETS - 1 /\ wrapptr \in Nat
    <3>1. i - 2 < OFFSETS
      BY <1>4 DEF InReach
    <3> QED
      BY <1>2, <1>3, <3>1
  <2> HIDE DEF p
  <2>2. Reached(p) = p
    BY <2>1, ReachedFacts
  <2> QED
    BY <2>2 DEF p
<1>5. /\ entry.type = SourceType(src)
      /\ \A i \in 2 .. Len(src) + 1, j \in 1 .. Len(src) :
           InReach(src, i) =>
              /\ IsColumn(src, 1, i, j) => entry.selector = o + i
              /\ IsColumn(src, 2, i, j) => entry.host = o + i
  BY DEF Entered
<1> HIDE DEF piece, o, src
<1>6. \A i \in 2 .. Len(src) + 1, j \in 1 .. Len(src) :
        InReach(src, i) =>
           /\ IsColumn(src, 1, i, j) => piece.selector = o + i
           /\ IsColumn(src, 2, i, j) => piece.host = o + i
  BY <1>1, <1>4, <1>5
<1>7. piece.text = o + 2 /\ Entered(piece, k)
  BY <1>1, <1>2, <1>5, <1>6 DEF Entered, o, src
<1> QED
  BY <1>7 DEF piece, o

LEMMA WrapLineExploded ==
    ASSUME ExplodeTypes, Usual, NEW k \in 0 .. Count, Exploded(k), WrapLine
    PROVE  Exploded(k)'
<1>1. /\ pc = "wrap" /\ Buffered(buf, k) /\ KeptLines(buf, k) /\ Wrapping(k)
      /\ AllMatch(Links, IF firstiteration THEN k - 1 ELSE k) /\ k \in 1 .. Count
  BY DEF Exploded, WrapLine, Wrapping
<1>2. Buffered(buf', k) /\ KeptLines(buf', k) /\ buf'[Until(k)] = NUL
  BY <1>1, TurnKeeps
<1>3. /\ Zero \in wrapptr .. Until(k)
      /\ \/ pc' = "line" /\ wrapptr' = wrapptr
         \/ wrapptr' \in TurnEnd .. Zero - 1 /\ wrapptr < wrapptr' /\ pc' = "wrap"
      /\ TurnEnd \in wrapptr .. Zero
      /\ firstiteration' = FALSE /\ menu' = menu /\ cursor' = cursor /\ entry' = entry
      /\ lines' = Append(lines, PieceOf(~firstiteration))
  BY <1>1, TurnFacts
<1>4. /\ cursor = Offset(k) + 1 /\ Entered(entry, k)
      /\ wrapptr \in Offset(k - 1) + 2 .. Until(k)
      /\ firstiteration <=> wrapptr = Offset(k - 1) + 2
  BY <1>1 DEF Wrapping
<1>5. pc' = "wrap" => /\ wrapptr' \in Offset(k - 1) + 2 .. Until(k)
                      /\ firstiteration' <=> wrapptr' = Offset(k - 1) + 2
  <2>1. Offset(k - 1) \in Nat /\ Until(k) \in Nat
    BY <1>1, SourceAt, UsualSources, UntilFacts
  <2> HIDE DEF Zero, TurnEnd
  <2> QED
    BY <1>3, <1>4, <2>1
<1> DEFINE piece == PieceOf(~firstiteration)
<1>6. piece \in Line /\ lines \in Seq(Line) /\ lines' \in Seq(Line)
  BY WrapLineTypes DEF ExplodeTypes
<1>7. Links' = Links \o LinkPart[piece] /\ Links \in Seq(Line)
  <2>1. Links' = FlatMap(lines', LinkPart)
    BY <1>6, LinksMapped DEF Links
  <2>2. FlatMap(Append(lines, piece), LinkPart) = FlatMap(lines, LinkPart) \o LinkPart[piece]
    BY <1>6, LinkParts, FlatMapAppend
  <2> QED
    BY <1>3, <2>1, <2>2, LinksInTable
<1>8. LinkPart[piece] = IF Selectable(piece) THEN <<piece>> ELSE <<>>
  BY <1>6 DEF LinkPart
<1>9. Selectable(piece) <=> SourceLink(Source(k)) /\ firstiteration
  BY <1>4 DEF Selectable, PieceOf, SourceLink, Entered
<1>10. firstiteration => Points(piece, k)
  BY <1>1, <1>4, PiecePoints DEF Points
<1> HIDE DEF piece
<1>11. AllMatch(Links', k)
  <2>1. CASE Selectable(piece)
    <3>1. Links' = Links \o <<piece>> /\ AllMatch(Links, k - 1) /\ Points(piece, k)
          /\ SourceLink(Source(k))
      BY <1>1, <1>7, <1>8, <1>9, <1>10, <2>1
    <3> QED
      BY <1>1, <1>6, <1>7, <3>1, MatchesMore
  <2>2. CASE ~Selectable(piece)
    <3>1. Links' = Links
      BY <1>7, <1>8, <2>2, ConcatEmptySeq
    <3>2. CASE firstiteration
      <4>1. AllMatch(Links, k - 1) /\ ~SourceLink(Source(k))
        BY <1>1, <1>9, <2>2, <3>2
      <4> QED
        BY <1>1, <1>7, <3>1, <4>1, MatchesMore
    <3>3. CASE ~firstiteration
      BY <1>1, <3>1, <3>3
    <3> QED
      BY <3>2, <3>3
  <2> QED
    BY <2>1, <2>2
<1>12. pc' \in {"line", "wrap"}
  BY <1>3
<1> HIDE DEF Zero, TurnEnd
<1> QED
  BY <1>1, <1>2, <1>3, <1>4, <1>5, <1>11, <1>12, ExplodedNext

\* The string at a position of a buffer.
StrIn(b, ptr) ==
    IF ptr > Len(b) THEN <<>> ELSE SubSeq(b, ptr, FirstIn(b, ptr, {NUL}) - 1)

LEMMA StrInBuffer == \A ptr : Str(ptr) = StrIn(buf, ptr)
BY DEF Str, StrIn

LEMMA StrFound ==
    ASSUME NEW b \in Seq(Char), NEW ptr \in 1 .. Len(b)
    PROVE  LET f == FirstIn(b, ptr, {NUL})
           IN  /\ f \in ptr .. Len(b) + 1
               /\ f <= Len(b) => b[f] = NUL
               /\ \A p \in ptr .. f - 1 : b[p] # NUL
               /\ StrIn(b, ptr) = SubSeq(b, ptr, f - 1)
               /\ StrIn(b, ptr) \in Seq(Char) /\ Len(StrIn(b, ptr)) = f - ptr
               /\ \A j \in 1 .. f - ptr : StrIn(b, ptr)[j] = b[ptr + j - 1]
<1> DEFINE f == FirstIn(b, ptr, {NUL})
           n == Len(b)
<1>1. n \in Nat /\ ptr \in 1 .. n + 1 /\ n + 1 \in ptr .. n + 1 /\ At(b, n + 1) \in {NUL}
  <2>1. n \in Nat
    BY LenProperties
  <2> QED
    BY <2>1 DEF At
<1>2. f \in ptr .. n + 1 /\ At(b, f) \in {NUL} /\ \A p \in ptr .. f - 1 : At(b, p) \notin {NUL}
  BY <1>1, FirstFound
<1>3. StrIn(b, ptr) = SubSeq(b, ptr, f - 1)
  <2>1. ~(ptr > Len(b))
    BY <1>1
  <2> QED
    BY <2>1, Zenon DEF StrIn
<1> HIDE DEF f, n
<1>4. f \in ptr .. n + 1 /\ (f <= n => b[f] = NUL)
  BY <1>2 DEF At, n
<1>5. \A p \in ptr .. f - 1 : b[p] # NUL
  <2>1. \A p \in ptr .. f - 1 : p <= n
    BY <1>1, <1>4
  <2> QED
    BY <1>2, <2>1 DEF At, n
<1> DEFINE g == f - 1
<1>6. ptr \in 1 .. n + 1 /\ g \in ptr - 1 .. n /\ g - ptr + 1 = f - ptr
  BY <1>1, <1>4
<1> HIDE DEF g
<1>7. /\ SubSeq(b, ptr, g) \in Seq(Char) /\ Len(SubSeq(b, ptr, g)) = g - ptr + 1
      /\ \A j \in 1 .. g - ptr + 1 : SubSeq(b, ptr, g)[j] = b[ptr + j - 1]
  BY <1>6, SubSeqFacts DEF n
<1>8. /\ StrIn(b, ptr) \in Seq(Char) /\ Len(StrIn(b, ptr)) = f - ptr
      /\ \A j \in 1 .. f - ptr : StrIn(b, ptr)[j] = b[ptr + j - 1]
  BY <1>3, <1>6, <1>7 DEF g
<1> QED
  BY <1>3, <1>4, <1>5, <1>8 DEF f, n

LEMMA StrEmpty ==
    ASSUME NEW b \in Seq(Char), NEW ptr \in 1 .. Len(b), StrIn(b, ptr) = <<>>
    PROVE  b[ptr] = NUL
<1> DEFINE f == FirstIn(b, ptr, {NUL})
<1>1. f \in ptr .. Len(b) + 1 /\ (f <= Len(b) => b[f] = NUL) /\ Len(StrIn(b, ptr)) = f - ptr
  BY StrFound
<1>2. Len(StrIn(b, ptr)) = 0 /\ Len(b) \in Nat
  BY EmptySeq, LenProperties
<1> HIDE DEF f
<1>3. f = ptr
  BY <1>1, <1>2
<1> QED
  BY <1>1, <1>3

LEMMA StrUntil ==
    ASSUME NEW b \in Seq(Char), NEW ptr \in 1 .. Len(b), NEW f \in ptr .. Len(b), b[f] = NUL,
           \A p \in ptr .. f - 1 : b[p] # NUL
    PROVE  /\ StrIn(b, ptr) = SubSeq(b, ptr, f - 1)
           /\ StrIn(b, ptr) \in Seq(Char) /\ Len(StrIn(b, ptr)) = f - ptr
           /\ \A j \in 1 .. f - ptr : StrIn(b, ptr)[j] = b[ptr + j - 1]
<1> DEFINE g == FirstIn(b, ptr, {NUL})
<1>1. Len(b) \in Nat
  BY LenProperties
<1>2. /\ g \in ptr .. Len(b) + 1
      /\ g <= Len(b) => b[g] = NUL
      /\ \A p \in ptr .. g - 1 : b[p] # NUL
      /\ StrIn(b, ptr) = SubSeq(b, ptr, g - 1)
      /\ StrIn(b, ptr) \in Seq(Char) /\ Len(StrIn(b, ptr)) = g - ptr
      /\ \A j \in 1 .. g - ptr : StrIn(b, ptr)[j] = b[ptr + j - 1]
  BY StrFound
<1> HIDE DEF g
<1>3. g = f
  <2>1. ~(f < g)
    <3> SUFFICES ASSUME f < g PROVE FALSE
      OBVIOUS
    <3>1. f \in ptr .. g - 1
      BY <1>1, <1>2
    <3> QED
      BY <1>2, <3>1
  <2>2. ~(g < f)
    <3> SUFFICES ASSUME g < f PROVE FALSE
      OBVIOUS
    <3>1. g \in ptr .. f - 1 /\ g <= Len(b)
      BY <1>1, <1>2
    <3> QED
      BY <1>2, <3>1
  <2> QED
    BY <1>1, <1>2, <2>1, <2>2
<1> QED
  BY <1>2, <1>3

\* A link whose text is empty has no description.
LEMMA EmptyIsNameless ==
    ASSUME ExplodeTypes, Usual, NEW k \in 0 .. Count, KeptLines(buf, k), NEW m \in 1 .. k,
           NEW l, Points(l, m), Str(l.text) = <<>>
    PROVE  Nameless(Source(m))
<1> DEFINE t == Offset(m - 1) + 2
<1>1. m \in 1 .. Count
  BY OffsetEnds
<1>2. /\ Offset(m - 1) \in Nat /\ Until(m) \in t .. Offset(m) /\ Offset(m) <= Len(buf)
      /\ Offset(m) \in Nat /\ Len(buf) \in Nat
  BY <1>1, SourceAt, UsualSources, UntilFacts
<1>3. t \in 1 .. Len(buf) /\ buf \in Seq(Char)
  BY <1>2 DEF ExplodeTypes
<1>4. buf[t] = NUL
  <2>1. StrIn(buf, t) = <<>>
    BY StrInBuffer DEF Points
  <2> QED
    BY <1>3, <2>1, StrEmpty
<1>5. ~(t < Until(m))
  BY <1>4 DEF KeptLines, KeptLine
<1>6. Len(Description(Source(m))) = Until(m) - Offset(m - 1) - 2
      /\ Description(Source(m)) \in Seq(Char)
  BY <1>1, UsualSources, DescriptionAt
<1>7. Len(Description(Source(m))) = 0
  BY <1>2, <1>5, <1>6
<1> QED
  BY <1>6, <1>7, EmptySeq DEF Nameless

LEMMA TrimsExploded ==
    ASSUME ExplodeTypes, ExplodeTypes', Usual, NEW k \in 0 .. Count, Exploded(k), Trims
    PROVE  Exploded(k)'
<1>1. /\ lines' = lines \/ (lines # <<>> /\ lines' = Front(lines))
      /\ UNCHANGED <<menu, buf, cursor, entry, wrapptr, firstiteration, found>>
      /\ pc \in {"dot", "trim"} /\ pc' = "trim"
  BY TrimsFacts
<1>2. /\ menu' = menu /\ buf' = buf /\ truncated' = truncated /\ lines \in Seq(Line)
      /\ lines' \in Seq(Line)
  BY <1>1 DEF found, ExplodeTypes
<1>3. /\ Buffered(buf, k) /\ KeptLines(buf, k) /\ Matches(Links, k) /\ OthersNameless(Links, k)
      /\ (k = Count \/ truncated)
  BY <1>1 DEF Exploded
<1>4. Matches(Links', k) /\ OthersNameless(Links', k)
  <2>1. CASE lines' = lines
    <3>1. Links' = Links
      BY <2>1 DEF Links
    <3> QED
      BY <1>3, <3>1
  <2>2. CASE lines # <<>> /\ lines' = Front(lines) /\ lines' # lines
    <3> DEFINE l == LastLine
               rest == Front(lines)
    <3>1. rest \in Seq(Line) /\ l \in Line /\ lines = rest \o <<l>> /\ rest = lines'
      BY <1>2, <2>2, TrimmedFacts DEF LastLine
    <3>2. \/ l.type = "dot"
          \/ Str(l.text) = <<>>
      BY <2>2 DEF Trims, TrimDot, TrimEmpty, EndsEmpty
    <3> HIDE DEF l, rest
    <3>3. Links' = FlatMap(rest, LinkPart) /\ Links' \in Seq(Line)
      <4>1. Links' = FlatMap(lines', LinkPart)
        BY <1>2, LinksMapped DEF Links
      <4> QED
        BY <3>1, <4>1, LinkParts, FlatMapType
    <3>4. Links = Links' \o LinkPart[l]
      <4>1. <<l>> \in Seq(Line)
        BY <3>1
      <4>2. FlatMap(<<l>>, LinkPart) = LinkPart[l]
        BY <3>1, LinkParts, FlatMapOne
      <4>3. FlatMap(rest \o <<l>>, LinkPart) = FlatMap(rest, LinkPart) \o FlatMap(<<l>>, LinkPart)
        BY <3>1, <4>1, LinkParts, FlatMapConcat
      <4> QED
        BY <3>1, <3>3, <4>2, <4>3, LinksInTable
    <3>5. LinkPart[l] = IF Selectable(l) THEN <<l>> ELSE <<>>
      BY <3>1 DEF LinkPart
    <3>6. CASE ~Selectable(l)
      <4>1. Links = Links'
        BY <3>3, <3>4, <3>5, <3>6, ConcatEmptySeq
      <4> QED
        BY <1>3, <4>1
    <3>7. CASE Selectable(l)
      <4>1. Links = Links' \o <<l>> /\ Str(l.text) = <<>>
        BY <3>2, <3>4, <3>5, <3>7 DEF Selectable, isitemtypeselectable
      <4>2. \A m \in 1 .. k : Points(l, m) => Nameless(Source(m))
        BY <1>3, <4>1, EmptyIsNameless
      <4> DEFINE links == Links'
      <4> HIDE DEF links
      <4>2a. links \in Seq(Line) /\ Links = links \o <<l>>
        BY <3>3, <4>1 DEF links
      <4>3. links \in Seq(Line) /\ Matches(links \o <<l>>, k) /\ OthersNameless(links \o <<l>>, k)
        BY <1>3, <4>2a, Zenon
      <4>4. Matches(links, k) /\ OthersNameless(links, k)
        BY <3>1, <4>2, <4>3, MatchesFewer
      <4> QED
        BY <4>4 DEF links
    <3> QED
      BY <3>6, <3>7
  <2> QED
    BY <1>1, <2>1, <2>2
<1> QED
  BY <1>1, <1>2, <1>3, <1>4, ExplodedNext

LEMMA PassesExploded ==
    ASSUME ExplodeTypes, Usual, NEW k \in 0 .. Count, Exploded(k), Passes
    PROVE  Exploded(k)'
<1>1. /\ menu' = menu /\ buf' = buf /\ lines' = lines /\ cursor' = cursor
      /\ pc' \in {"dot", "overrun", "done"}
  BY PassesFacts
<1>2. Links' = Links
  BY <1>1 DEF Links
<1>3. Buffered(buf', k) /\ KeptLines(buf', k)
  BY <1>1 DEF Exploded
<1>4. AllMatch(Links, k) => Matches(Links, k) /\ OthersNameless(Links, k)
  <2>1. Len(LinksTo(k)) \in Nat
    BY LinksToFacts, LenProperties
  <2> QED
    BY <2>1 DEF AllMatch, OthersNameless
<1>5. pc' \in {"dot", "trim", "done"} =>
        Matches(Links', k) /\ OthersNameless(Links', k) /\ (k = Count \/ truncated')
  <2>1. CASE TooManyLines
    <3>1. pc = "line" /\ truncated' = TRUE
      BY <2>1 DEF TooManyLines
    <3> QED
      BY <1>2, <1>4, <3>1 DEF Exploded
  <2>2. CASE EndOfMenu
    <3>1. pc = "line" /\ ~(cursor <= Len(buf))
      <4>1. cursor \in Int /\ Len(buf) \in Int
        BY LenProperties DEF ExplodeTypes
      <4> QED
        BY <2>2, <4>1 DEF EndOfMenu
    <3>2. cursor = Offset(k) + 1 /\ AllMatch(Links, k)
      BY <3>1 DEF Exploded
    <3>3. k = Count
      BY <3>1, <3>2, LineToCome
    <3> QED
      BY <1>2, <1>4, <3>2, <3>3
  <2>3. CASE Overrun
    BY <2>3 DEF Overrun
  <2>4. CASE TrimDone
    <3>1. pc = "trim" /\ truncated' = truncated
      BY <2>4 DEF TrimDone, found
    <3> QED
      BY <1>2, <3>1 DEF Exploded
  <2> QED
    BY <2>1, <2>2, <2>3, <2>4 DEF Passes
<1> QED
  BY <1>1, <1>3, <1>5, ExplodedNext

\* The inductive invariant.
LinksExploded == Usual => \E k \in 0 .. Count : Exploded(k)

LEMMA InitLinksExploded == ExplodeInit => LinksExploded
<1>1. ExplodeInit => 0 \in 0 .. Count
  BY InitExplodeTypes, OffsetEnds
<1> QED
  BY <1>1, InitExploded DEF LinksExploded

LEMMA NextLinksExploded ==
    ExplodeTypes /\ ExplodeTypes' /\ LinksExploded /\ [ExplodeNext]_explodevars => LinksExploded'
<1> SUFFICES ASSUME ExplodeTypes, ExplodeTypes', LinksExploded, [ExplodeNext]_explodevars, Usual'
             PROVE  (\E k \in 0 .. Count : Exploded(k))'
  BY DEF LinksExploded
<1>1. menu' = menu
  <2>1. CASE ExplodeLine
    BY <2>1 DEF ExplodeLine
  <2>2. CASE WrapLine
    BY <2>2 DEF WrapLine
  <2>3. CASE Trims
    BY <2>3, TrimsFacts
  <2>4. CASE Passes
    BY <2>4, PassesFacts
  <2>5. CASE UNCHANGED explodevars
    BY <2>5 DEF explodevars
  <2> QED
    BY <2>1, <2>2, <2>3, <2>4, <2>5, ExplodeNextSplit
<1>2. Usual /\ Count' = Count
  BY <1>1, MenuStays
<1>3. PICK k \in 0 .. Count : Exploded(k)
  BY <1>2 DEF LinksExploded
<1>4. CASE ExplodeLine
  <2>1. k + 1 \in 0 .. Count /\ Exploded(k + 1)'
    BY <1>2, <1>3, <1>4, ExplodeLineExploded
  <2> QED
    BY <1>2, <2>1
<1>5. CASE WrapLine
  BY <1>2, <1>3, <1>5, WrapLineExploded
<1>6. CASE Trims
  BY <1>2, <1>3, <1>6, TrimsExploded
<1>7. CASE Passes
  BY <1>2, <1>3, <1>7, PassesExploded
<1>8. CASE UNCHANGED explodevars
  <2>1. /\ buf' = buf /\ cursor' = cursor /\ pc' = pc /\ lines' = lines /\ entry' = entry
        /\ wrapptr' = wrapptr /\ firstiteration' = firstiteration /\ truncated' = truncated
        /\ Links' = Links
    BY <1>8 DEF explodevars, found, Links
  <2>2. Exploded(k)'
    BY <1>1, <1>3, <2>1, ExplodedNext DEF Exploded, Wrapping
  <2> QED
    BY <1>2, <2>2
<1> QED
  BY <1>4, <1>5, <1>6, <1>7, <1>8, ExplodeNextSplit

\* A column is still in the buffer, and ends there.
LEMMA ColumnKept ==
    ASSUME ExplodeTypes, Usual, NEW k \in 0 .. Count, Buffered(buf, k), KeptLines(buf, k),
           NEW m \in 1 .. k, NEW i \in 2 .. Len(Source(m)) + 1, NEW j \in 1 .. Len(Source(m)),
           NEW n, IsColumn(Source(m), n, i, j)
    PROVE  Str(Offset(m - 1) + i) = SubSeq(Source(m), i, j)
<1> DEFINE src == Source(m)
           o == Offset(m - 1)
           b == BodyEnd(m)
           z == Until(m)
           e == Offset(m)
           len == Len(buf)
           byte(p) == Bytes0[p]
           ptr == o + i
           f == o + j + 1
<1>1. m \in 1 .. Count /\ k \in Nat /\ k <= Count
  BY OffsetEnds
<1>2. /\ o \in Nat /\ e \in Nat /\ e <= len /\ len \in Nat
      /\ b = o + Len(src) /\ Len(src) \in Nat /\ src \in Seq(STRING) /\ b < e
      /\ \A q \in 1 .. Len(src) : byte(o + q) = src[q] /\ src[q] \notin {NUL, CR, LF}
      /\ byte(b + 1) \in {CR, LF}
  <2>1. /\ Offset(m - 1) \in Nat /\ Offset(m) \in Nat /\ Offset(m) <= Len(buf)
        /\ Len(buf) \in Nat /\ Len(Source(m)) \in Nat /\ Source(m) \in Seq(STRING)
        /\ BodyEnd(m) \in Offset(m - 1) .. Offset(m) - 1
        /\ \A q \in 1 .. Len(Source(m)) :
             /\ Bytes0[Offset(m - 1) + q] = Source(m)[q]
             /\ Source(m)[q] \notin {NUL, CR, LF}
        /\ Bytes0[Offset(m)] = LF
        /\ IF menu.end = <<LF>> THEN Offset(m) = BodyEnd(m) + 1
           ELSE Offset(m) = BodyEnd(m) + 2 /\ Bytes0[BodyEnd(m) + 1] = CR
    BY <1>1, SourceAt
  <2>2. Bytes0[BodyEnd(m) + 1] \in {CR, LF}
    BY <2>1
  <2>3. BodyEnd(m) = Offset(m - 1) + Len(Source(m))
    BY DEF BodyEnd
  <2> QED
    BY <2>1, <2>2, <2>3
<1>3. /\ z \in o + 2 .. e /\ \A p \in o + 2 .. z - 1 : byte(p) # TAB
      /\ src # <<>> => src[1] # TAB
  BY <1>1, UsualSources, UntilFacts DEF UsualSource
<1>4. /\ \A p \in 1 .. len : buf[p] \in {byte(p), NUL}
      /\ \A p \in 1 .. Offset(k) : buf[p] \notin {TAB, CR, LF}
      /\ \A p \in z + 1 .. b : byte(p) # TAB => buf[p] = byte(p)
  BY DEF Buffered, KeptLines, KeptLine
<1>5. /\ j \in i - 1 .. Len(src) /\ src[i - 1] = TAB
      /\ \A q \in i .. j : src[q] # TAB
      /\ j < Len(src) => src[j + 1] = TAB
  BY DEF IsColumn, Tabs
<1>6. e <= Offset(k) /\ Offset(k) \in Nat
  <2>1. m = k \/ m \in 0 .. k - 1
    BY <1>1
  <2>2. m = k \/ Offset(m) < Offset(k)
    BY <1>1, <2>1, OffsetsGrow
  <2>3. Offset(k) \in Nat
    BY <1>1, OffsetsGrow
  <2> QED
    BY <1>2, <2>2, <2>3
<1>7. i \in 2 .. Len(src) + 1 /\ j \in 1 .. Len(src) /\ buf \in Seq(Char)
  BY DEF ExplodeTypes
<1>8. ptr = o + i /\ f = o + j + 1
  OBVIOUS
<1> HIDE DEF src, o, b, z, e, len, byte, ptr, f
<1>9. z <= o + i - 1
  <2>1. src[1] # TAB /\ i - 1 \in 1 .. Len(src)
    <3>1. Len(src) # 0
      BY <1>2, <1>7
    <3> QED
      BY <1>2, <1>3, <1>7, <3>1, EmptySeq
  <2>2. i - 1 # 1
    BY <1>5, <2>1
  <2>3. byte(o + (i - 1)) = TAB
    BY <1>2, <1>5, <2>1
  <2>4. o + (i - 1) \notin o + 2 .. z - 1
    BY <1>3, <2>3
  <2> QED
    BY <1>2, <1>3, <1>7, <2>1, <2>2, <2>4
<1>10. \A q \in i .. j : buf[o + q] = src[q] /\ buf[o + q] # NUL
  <2> SUFFICES ASSUME NEW q \in i .. j PROVE buf[o + q] = src[q] /\ buf[o + q] # NUL
    OBVIOUS
  <2>1. q \in 1 .. Len(src) /\ o + q \in z + 1 .. b
    BY <1>2, <1>3, <1>5, <1>7, <1>9
  <2>2. byte(o + q) = src[q] /\ src[q] # NUL /\ src[q] # TAB
    BY <1>2, <1>5, <2>1
  <2> QED
    BY <1>4, <2>1, <2>2
<1>11. ptr \in 1 .. len /\ f \in ptr .. len /\ f \in 1 .. Offset(k) /\ f - ptr = j - i + 1
       /\ f \in 1 .. len
  BY <1>2, <1>5, <1>6, <1>7, <1>8
<1>12. buf[f] = NUL
  <2>1. byte(f) \in {TAB, CR, LF}
    <3>1. CASE j < Len(src)
      <4>1. j + 1 \in 1 .. Len(src) /\ o + (j + 1) = f
        BY <1>2, <1>7, <1>8, <3>1
      <4>2. src[j + 1] = TAB /\ byte(o + (j + 1)) = src[j + 1]
        BY <1>2, <1>5, <3>1, <4>1
      <4> QED
        BY <4>1, <4>2
    <3>2. CASE ~(j < Len(src))
      <4>1. j = Len(src)
        BY <1>2, <1>7, <3>2
      <4>2. f = b + 1
        BY <1>2, <1>8, <4>1
      <4> QED
        BY <1>2, <4>2
    <3> QED
      BY <3>1, <3>2
  <2> QED
    BY <1>4, <1>11, <2>1
<1>13. \A p \in ptr .. f - 1 : buf[p] # NUL
  <2> SUFFICES ASSUME NEW p \in ptr .. f - 1 PROVE buf[p] # NUL
    OBVIOUS
  <2> DEFINE q == p - o
  <2>1. q \in i .. j /\ p = o + q
    BY <1>2, <1>7, <1>8, <1>11
  <2> HIDE DEF q
  <2> QED
    BY <1>10, <2>1
<1> DEFINE s == StrIn(buf, ptr)
           t == SubSeq(src, i, j)
<1>14. s \in Seq(Char) /\ Len(s) = j - i + 1 /\ \A q \in 1 .. j - i + 1 : s[q] = buf[ptr + q - 1]
  <2>1. /\ StrIn(buf, ptr) \in Seq(Char) /\ Len(StrIn(buf, ptr)) = f - ptr
        /\ \A q \in 1 .. f - ptr : StrIn(buf, ptr)[q] = buf[ptr + q - 1]
    BY <1>7, <1>11, <1>12, <1>13, StrUntil DEF len
  <2> QED
    BY <1>11, <2>1
<1>15. t \in Seq(Char) /\ Len(t) = j - i + 1 /\ \A q \in 1 .. j - i + 1 : t[q] = src[i + q - 1]
  <2>1. i \in 1 .. Len(src) + 1 /\ j \in i - 1 .. Len(src)
    BY <1>2, <1>5, <1>7
  <2>2. STRING \subseteq Char
    BY DEF Char
  <2>3. Seq(STRING) \subseteq Seq(Char)
    BY <2>2, SeqMonotonic
  <2>4. src \in Seq(STRING)
    BY <1>2
  <2> HIDE DEF src, t
  <2>5. /\ SubSeq(src, i, j) \in Seq(STRING) /\ Len(SubSeq(src, i, j)) = j - i + 1
        /\ \A q \in 1 .. j - i + 1 : SubSeq(src, i, j)[q] = src[i + q - 1]
    BY <2>1, <2>4, SubSeqFacts
  <2> QED
    BY <2>3, <2>5 DEF t
<1> HIDE DEF s, t
<1>16. \A q \in 1 .. Len(s) : s[q] = t[q]
  <2> SUFFICES ASSUME NEW q \in 1 .. Len(s) PROVE s[q] = t[q]
    OBVIOUS
  <2>1. q \in 1 .. j - i + 1
    BY <1>14
  <2>2. i + q - 1 \in i .. j /\ o + (i + q - 1) = ptr + q - 1
    BY <1>2, <1>7, <1>8, <2>1
  <2> QED
    BY <1>10, <1>14, <1>15, <2>1, <2>2
<1>17. s = t
  BY <1>14, <1>15, <1>16, SeqEqual
<1> QED
  BY <1>17, StrInBuffer DEF s, t, ptr, o, src

LEMMA PointsLead ==
    ASSUME ExplodeTypes, Usual, NEW k \in 0 .. Count, Buffered(buf, k), KeptLines(buf, k),
           NEW m \in 1 .. k, NEW l, Points(l, m)
    PROVE  LeadsTo(l, Source(m))
<1> DEFINE src == Source(m)
<1>1. l.type = SourceType(src)
  BY DEF Points, Entered
<1>2. ASSUME NEW i \in 2 .. Len(src) + 1, NEW j \in 1 .. Len(src), InReach(src, i)
      PROVE  /\ IsColumn(src, 1, i, j) => Str(l.selector) = SubSeq(src, i, j)
             /\ IsColumn(src, 2, i, j) => Str(l.host) = SubSeq(src, i, j)
  <2>1. /\ IsColumn(src, 1, i, j) => l.selector = Offset(m - 1) + i
        /\ IsColumn(src, 2, i, j) => l.host = Offset(m - 1) + i
    BY <1>2 DEF Points, Entered
  <2>2. \A n : IsColumn(src, n, i, j) => Str(Offset(m - 1) + i) = SubSeq(src, i, j)
    BY ColumnKept
  <2> QED
    BY <2>1, <2>2
<1> QED
  BY <1>1, <1>2 DEF LeadsTo

LEMMA ExplodedListed ==
    ASSUME ExplodeTypes, LinkLines, LinksExploded
    PROVE  EveryLinkListed
<1> SUFFICES ASSUME pc = "done", Usual
             PROVE  /\ Len(Links) <= Len(SourceLinks)
                    /\ \A i \in 1 .. Len(Links) : LeadsTo(Links[i], SourceLinks[i])
                    /\ truncated \/ \A i \in Len(Links) + 1 .. Len(SourceLinks) :
                                      Nameless(SourceLinks[i])
  BY DEF EveryLinkListed, LinkLines
<1>1. PICK k \in 0 .. Count : Exploded(k)
  BY DEF LinksExploded
<1>2. /\ Buffered(buf, k) /\ KeptLines(buf, k) /\ Matches(Links, k) /\ OthersNameless(Links, k)
      /\ (k = Count \/ truncated)
  BY <1>1 DEF Exploded
<1> DEFINE some == LinksTo(k)
           all == SourceLinks
           T == Seq(STRING)
           links == Links
<1>3. /\ Len(links) <= Len(some) /\ links \in Seq(Line)
      /\ \A i \in 1 .. Len(links) : \E m \in 1 .. k : Points(links[i], m) /\ some[i] = Source(m)
      /\ \A i \in Len(links) + 1 .. Len(some) : Nameless(some[i])
  BY <1>2, LinksInTable DEF Matches, OthersNameless
<1>4. some \in Seq(T) /\ \E rest \in Seq(T) : all = some \o rest
  <2>1. CASE k = Count
    <3>1. some = all /\ some \in Seq(T) /\ <<>> \in Seq(T)
      BY <2>1, LinksToFacts, EmptySeq
    <3>2. all = some \o <<>>
      BY <3>1, ConcatEmptySeq
    <3> QED
      BY <3>1, <3>2
  <2>2. CASE k # Count
    <3>1. k \in 0 .. Count - 1
      BY <2>2, OffsetEnds
    <3> QED
      BY <3>1, LinksToFacts
  <2> QED
    BY <2>1, <2>2
<1>5. k = Count => some = all
  BY LinksToFacts
<1> HIDE DEF some, all, T, links
<1>6. PICK rest \in Seq(T) : all = some \o rest
  BY <1>4
<1>7. Len(all) = Len(some) + Len(rest) /\ Len(some) \in Nat /\ Len(rest) \in Nat
      /\ Len(links) \in Nat
      /\ \A i \in 1 .. Len(some) + Len(rest) :
           all[i] = IF i <= Len(some) THEN some[i] ELSE rest[i - Len(some)]
  BY <1>3, <1>4, <1>6, ConcatProperties, LenProperties
<1>8. Len(links) <= Len(all)
  BY <1>3, <1>7
<1>9. ASSUME NEW i \in 1 .. Len(links) PROVE LeadsTo(links[i], all[i])
  <2>1. PICK m \in 1 .. k : Points(links[i], m) /\ some[i] = Source(m)
    BY <1>3
  <2>2. all[i] = some[i]
    BY <1>3, <1>7
  <2>3. LeadsTo(links[i], Source(m))
    BY <1>2, <2>1, PointsLead
  <2> QED
    BY <2>1, <2>2, <2>3
<1>10. truncated \/ \A i \in Len(links) + 1 .. Len(all) : Nameless(all[i])
  BY <1>2, <1>3, <1>5
<1> QED
  BY <1>8, <1>9, <1>10 DEF links, all

\* menu_explode() lists every link, once and in order, with its own selector
\* and host as far as they are in reach.
THEOREM ListsEveryLink == ExplodeSpec => []EveryLinkListed
<1> DEFINE LinksInv == ExplodeTypes /\ LinkLines /\ LinksExploded
<1>1. ExplodeInit => LinksInv
  BY InitExplodeTypes, InitLinkLines, InitLinksExploded
<1>2. LinksInv /\ [ExplodeNext]_explodevars => LinksInv'
  BY NextExplodeTypes, NextLinkLines, NextLinksExploded
<1>3. LinksInv => EveryLinkListed
  BY ExplodedListed
<1> QED
  BY <1>1, <1>2, <1>3, PTL DEF ExplodeSpec

-----------------------------------------------------------------------------
(* What is shown of a description.                                         *)

LEMMA InkedFacts ==
    /\ Inked(<<>>) = <<>>
    /\ \A s \in Seq(Char) : Inked(s) \in Seq(Char)
    /\ \A s, t \in Seq(Char) : Inked(s \o t) = Inked(s) \o Inked(t)
    /\ \A s \in Seq(Char) : (\A i \in 1 .. Len(s) : s[i] = SPACE) => Inked(s) = <<>>
<1>1. /\ NotAmong(<<>>, {SPACE}) = <<>>
      /\ \A s \in Seq(Char) : NotAmong(s, {SPACE}) \in Seq(Char)
      /\ \A s, t \in Seq(Char) : NotAmong(s \o t, {SPACE}) =
                                   NotAmong(s, {SPACE}) \o NotAmong(t, {SPACE})
  BY NotAmongFacts
<1>2. \A s \in Seq(Char) :
        (\A i \in 1 .. Len(s) : s[i] = SPACE) => NotAmong(s, {SPACE}) = <<>>
  <2> SUFFICES ASSUME NEW s \in Seq(Char), \A i \in 1 .. Len(s) : s[i] = SPACE
               PROVE  NotAmong(s, {SPACE}) = <<>>
    OBVIOUS
  <2>1. \A i \in 1 .. Len(s) : s[i] \in {SPACE}
    OBVIOUS
  <2> QED
    BY <2>1, AllDropped
<1> QED
  BY <1>1, <1>2, Zenon DEF Inked

\* The text between two positions of a buffer, in two parts.
LEMMA InkedSplit ==
    ASSUME NEW b \in Seq(Char), NEW m \in 1 .. Len(b) + 1, NEW n \in m - 1 .. Len(b),
           NEW k \in m - 1 .. n
    PROVE  /\ Inked(SubSeq(b, m, n)) = Inked(SubSeq(b, m, k)) \o Inked(SubSeq(b, k + 1, n))
           /\ Inked(SubSeq(b, m, k)) \in Seq(Char)
           /\ (\A p \in k + 1 .. n : b[p] = SPACE) =>
                 Inked(SubSeq(b, m, n)) = Inked(SubSeq(b, m, k))
<1> DEFINE u == SubSeq(b, m, k)
           v == SubSeq(b, k + 1, n)
<1>1. Len(b) \in Nat
  BY LenProperties
<1>2. /\ k + 1 \in 1 .. Len(b) + 1 /\ n \in (k + 1) - 1 .. Len(b) /\ k \in m - 1 .. Len(b)
      /\ \A i \in 1 .. n - (k + 1) + 1 : (k + 1) + i - 1 \in k + 1 .. n
  BY <1>1
<1>3. SubSeq(b, m, n) = u \o v
  BY SubSeqSplit
<1>4. u \in Seq(Char)
  BY <1>2, SubSeqFacts
<1>5. /\ v \in Seq(Char) /\ Len(v) = n - (k + 1) + 1
      /\ \A i \in 1 .. n - (k + 1) + 1 : v[i] = b[(k + 1) + i - 1]
  <2> DEFINE j == k + 1
  <2>1. j \in 1 .. Len(b) + 1 /\ n \in j - 1 .. Len(b)
    BY <1>2
  <2> HIDE DEF j
  <2>2. /\ SubSeq(b, j, n) \in Seq(Char) /\ Len(SubSeq(b, j, n)) = n - j + 1
        /\ \A i \in 1 .. n - j + 1 : SubSeq(b, j, n)[i] = b[j + i - 1]
    BY <2>1, SubSeqFacts
  <2> QED
    BY <2>2 DEF j
<1> HIDE DEF u, v
<1>6. (\A p \in k + 1 .. n : b[p] = SPACE) => \A i \in 1 .. Len(v) : v[i] = SPACE
  BY <1>2, <1>5
<1>7. Inked(u \o v) = Inked(u) \o Inked(v) /\ Inked(u) \in Seq(Char)
  BY <1>4, <1>5, InkedFacts
<1>8. (\A p \in k + 1 .. n : b[p] = SPACE) => Inked(v) = <<>>
  BY <1>5, <1>6, InkedFacts
<1>9. Inked(u) \o <<>> = Inked(u)
  BY <1>7, ConcatEmptySeq
<1>10. (\A p \in k + 1 .. n : b[p] = SPACE) => Inked(u \o v) = Inked(u)
  BY <1>7, <1>8, <1>9
<1> QED
  BY <1>3, <1>7, <1>10, Zenon DEF u, v

LEMMA DescriptionType == \A s \in Seq(STRING) : Description(s) \in Seq(Char)
<1> SUFFICES ASSUME NEW s \in Seq(STRING) PROVE Description(s) \in Seq(Char)
  OBVIOUS
<1> DEFINE cuts == Tabs(s, 1, Len(s))
           n == IF cuts = {} THEN Len(s) ELSE Min(cuts) - 1
<1>1. Len(s) \in Nat
  BY LenProperties
<1>2. n \in 0 .. Len(s)
  <2>1. CASE cuts = {}
    BY <1>1, <2>1
  <2>2. CASE cuts # {}
    <3>1. cuts \subseteq 1 .. Len(s) /\ cuts \subseteq Nat
      BY <1>1 DEF Tabs
    <3> HIDE DEF cuts
    <3>2. \E m \in cuts : \A j \in cuts : m <= j
      BY <2>2, <3>1, LeastNumber
    <3>3. Min(cuts) \in cuts
      BY <3>2 DEF Min
    <3>4. n = Min(cuts) - 1
      BY <2>2
    <3>5. Min(cuts) \in 1 .. Len(s)
      BY <3>1, <3>3
    <3> DEFINE m == Min(cuts)
    <3> HIDE DEF m
    <3>6. m \in 1 .. Len(s) /\ n = m - 1
      BY <3>4, <3>5 DEF m
    <3> HIDE DEF n
    <3> QED
      BY <1>1, <3>6
  <2> QED
    BY <2>1, <2>2
<1>3. Description(s) = SubSeq(s, 2, n)
  BY Zenon DEF Description
<1> HIDE DEF n
<1>4. Seq(STRING) \subseteq Seq(Char)
  <2>1. STRING \subseteq Char
    BY DEF Char
  <2> QED
    BY <2>1, SeqMonotonic
<1>5. CASE n >= 1
  <2>1. 2 \in 1 .. Len(s) + 1 /\ n \in 2 - 1 .. Len(s)
    BY <1>1, <1>2, <1>5
  <2>2. SubSeq(s, 2, n) \in Seq(STRING)
    BY <2>1, SubSeqFacts
  <2> QED
    BY <1>3, <1>4, <2>2
<1>6. CASE ~(n >= 1)
  <2>1. n \in Int /\ n < 2
    BY <1>1, <1>2, <1>6
  <2>2. SubSeq(s, 2, n) = <<>>
    BY <2>1, SubSeqEmpty
  <2> QED
    BY <1>3, <2>2, EmptySeq
<1> QED
  BY <1>5, <1>6

\* What is meant by the first k source lines.
DescPart == [s \in Seq(STRING) |-> Inked(Description(s))]
MeantTo(k) == MeantBy(SubSeq(menu.sources, 1, k))

LEMMA DescParts == DescPart \in [Seq(STRING) -> Seq(Char)]
<1>1. \A s \in Seq(STRING) : Inked(Description(s)) \in Seq(Char)
  BY DescriptionType, InkedFacts
<1> QED
  BY <1>1 DEF DescPart

LEMMA MeantMapped ==
    ASSUME NEW ss \in Seq(Seq(STRING))
    PROVE  MeantBy(ss) = FlatMap(ss, DescPart)
<1>1. \A i \in 1 .. Len(ss) : ss[i] \in Seq(STRING)
  BY ElementOfSeq
<1>2. \A i \in 1 .. Len(ss) : DescPart[ss[i]] = Inked(Description(ss[i]))
  BY <1>1 DEF DescPart
<1>3. [i \in 1 .. Len(ss) |-> Inked(Description(ss[i]))] = [i \in 1 .. Len(ss) |-> DescPart[ss[i]]]
  BY <1>2, Zenon
<1> QED
  BY <1>3, Zenon DEF MeantBy, FlatMap

LEMMA MeantToFacts ==
    ASSUME ExplodeTypes
    PROVE  /\ MeantTo(0) = <<>>
           /\ \A k \in 0 .. Count : MeantTo(k) \in Seq(Char)
           /\ \A k \in 0 .. Count - 1 :
                MeantTo(k + 1) = MeantTo(k) \o Inked(Description(Source(k + 1)))
           /\ Meant = IF Count > 0 /\ IsMarker(Source(Count)) THEN MeantTo(Count - 1)
                      ELSE MeantTo(Count)
<1> DEFINE all == menu.sources
           T == Seq(STRING)
           prefix(k) == SubSeq(all, 1, k)
<1>1. all \in Seq(T) /\ Count = Len(all) /\ Count \in Nat
  <2>1. all \in Seq(Sources) /\ Sources \subseteq T
    BY MenuExplodeAssumption DEF ExplodeTypes
  <2>2. Seq(Sources) \subseteq Seq(T)
    BY <2>1, SeqMonotonic
  <2> QED
    BY <2>1, <2>2, OffsetEnds DEF Count
<1>2. DescPart \in [T -> Seq(Char)]
  BY DescParts
<1>3. \A ss \in Seq(T) : MeantBy(ss) = FlatMap(ss, DescPart)
  BY MeantMapped
<1>4. \A k \in 0 .. Count : MeantTo(k) = MeantBy(prefix(k))
  BY DEF MeantTo
<1>5. \A k \in 1 .. Count : Source(k) = all[k]
  BY DEF Source
<1>6. \A s \in T : DescPart[s] = Inked(Description(s))
  BY DEF DescPart
<1>7. Meant = MeantBy(IF all # <<>> /\ IsMarker(Last(all)) THEN Front(all) ELSE all)
  BY Zenon DEF Meant
<1> HIDE DEF all, T
<1>8. prefix(0) = <<>> /\ prefix(Count) = all /\ <<>> \in Seq(T)
  BY <1>1, SubSeqFull, SubSeqEmpty, EmptySeq
<1>9. \A ss \in Seq(T) : MeantBy(ss) \in Seq(Char)
  BY <1>2, <1>3, FlatMapType
<1>10. MeantBy(<<>>) = <<>>
  BY <1>2, <1>3, <1>8, FlatMapEmpty
<1>11. ASSUME NEW k \in 0 .. Count - 1
       PROVE  /\ prefix(k) \in Seq(T) /\ prefix(k + 1) \in Seq(T) /\ all[k + 1] \in T
              /\ MeantBy(prefix(k + 1)) = MeantBy(prefix(k)) \o Inked(Description(all[k + 1]))
  <2>1. k \in Nat /\ k < Len(all)
    BY <1>1
  <2>2. prefix(k) \in Seq(T) /\ prefix(k + 1) \in Seq(T) /\ all[k + 1] \in T
    BY <1>1, <2>1, PrefixGrows
  <2>3. FlatMap(prefix(k + 1), DescPart) = FlatMap(prefix(k), DescPart) \o DescPart[all[k + 1]]
    <3> DEFINE d == DescPart
    <3>1. all \in Seq(T) /\ d \in [T -> Seq(Char)] /\ k \in Nat /\ k < Len(all)
      BY <1>1, <1>2, <2>1
    <3> HIDE DEF d
    <3>2. FlatMap(SubSeq(all, 1, k + 1), d) = FlatMap(SubSeq(all, 1, k), d) \o d[all[k + 1]]
      BY <3>1, PrefixMapped, Zenon
    <3> QED
      BY <3>2, Zenon DEF d
  <2> HIDE DEF prefix
  <2> QED
    BY <1>3, <1>6, <2>2, <2>3
<1>12. \A k \in 0 .. Count : prefix(k) \in Seq(T)
  <2> SUFFICES ASSUME NEW k \in 0 .. Count PROVE prefix(k) \in Seq(T)
    OBVIOUS
  <2>1. k = Count \/ k \in 0 .. Count - 1
    BY <1>1
  <2> HIDE DEF prefix
  <2> QED
    BY <1>1, <1>8, <1>11, <2>1
<1>13. Meant = IF Count > 0 /\ IsMarker(Source(Count)) THEN MeantTo(Count - 1) ELSE MeantTo(Count)
  <2>1. CASE all = <<>>
    <3>1. Count = 0
      BY <1>1, <2>1, EmptySeq
    <3>2. Meant = MeantBy(all)
      BY <1>7, <2>1, Zenon
    <3>3. MeantTo(0) = MeantBy(all)
      <4>1. 0 \in 0 .. Count
        BY <3>1
      <4> HIDE DEF prefix
      <4> QED
        BY <1>4, <1>8, <2>1, <4>1
    <3> HIDE DEF prefix
    <3> QED
      BY <3>1, <3>2, <3>3
  <2>2. CASE all # <<>>
    <3>1. Count > 0
      BY <1>1, <2>2, EmptySeq
    <3>2. Last(all) = all[Count] /\ Front(all) = prefix(Count - 1)
      BY <1>1, Zenon DEF Last, Front
    <3>3. Count \in 1 .. Count /\ Count - 1 \in 0 .. Count /\ Count \in 0 .. Count
      BY <1>1, <3>1
    <3>4. Source(Count) = all[Count]
      BY <1>5, <3>3
    <3> HIDE DEF prefix
    <3> QED
      BY <1>4, <1>7, <1>8, <2>2, <3>1, <3>2, <3>3, <3>4
  <2> QED
    BY <2>1, <2>2
<1> HIDE DEF prefix
<1>14. \A k \in 0 .. Count : MeantTo(k) \in Seq(Char)
  BY <1>4, <1>9, <1>12
<1>15. MeantTo(0) = <<>>
  BY <1>1, <1>4, <1>8, <1>10
<1>16. ASSUME NEW k \in 0 .. Count - 1
       PROVE  MeantTo(k + 1) = MeantTo(k) \o Inked(Description(Source(k + 1)))
  <2>1. k \in 0 .. Count /\ k + 1 \in 0 .. Count /\ k + 1 \in 1 .. Count
    BY <1>1
  <2>2. MeantTo(k) = MeantBy(prefix(k)) /\ MeantTo(k + 1) = MeantBy(prefix(k + 1))
    BY <1>4, <2>1
  <2>3. Source(k + 1) = all[k + 1]
    BY <1>5, <2>1
  <2> QED
    BY <1>11, <2>2, <2>3
<1> QED
  BY <1>13, <1>14, <1>15, <1>16

\* What the lines of the table show, in a buffer.
InkPart(b) == [l \in Line |-> Inked(StrIn(b, l.text))]
ShownIn(b, ls) == FlatMap(ls, InkPart(b))

LEMMA StrInType ==
    ASSUME NEW b \in Seq(Char), NEW ptr \in Nat \ {0}
    PROVE  StrIn(b, ptr) \in Seq(Char)
<1>1. Len(b) \in Nat
  BY LenProperties
<1>2. CASE ptr > Len(b)
  BY <1>2, EmptySeq DEF StrIn
<1>3. CASE ~(ptr > Len(b))
  <2>1. ptr \in 1 .. Len(b)
    BY <1>1, <1>3
  <2> QED
    BY <2>1, StrFound
<1> QED
  BY <1>2, <1>3

LEMMA InkParts ==
    ASSUME NEW b \in Seq(Char)
    PROVE  InkPart(b) \in [Line -> Seq(Char)]
<1>1. \A l \in Line : l.text \in Nat \ {0}
  BY DEF Line
<1>2. \A l \in Line : Inked(StrIn(b, l.text)) \in Seq(Char)
  BY <1>1, StrInType, InkedFacts
<1> QED
  BY <1>2 DEF InkPart

LEMMA ShownInFacts ==
    ASSUME NEW b \in Seq(Char)
    PROVE  /\ ShownIn(b, <<>>) = <<>>
           /\ \A ls \in Seq(Line) : ShownIn(b, ls) \in Seq(Char)
           /\ \A ls \in Seq(Line), l \in Line :
                ShownIn(b, ls \o <<l>>) = ShownIn(b, ls) \o Inked(StrIn(b, l.text))
<1> DEFINE d == InkPart(b)
<1>1. d \in [Line -> Seq(Char)]
  BY InkParts
<1>2. \A l \in Line : d[l] = Inked(StrIn(b, l.text))
  BY DEF InkPart
<1>3. \A ls : ShownIn(b, ls) = FlatMap(ls, d)
  BY DEF ShownIn
<1> HIDE DEF d
<1>4. FlatMap(<<>>, d) = <<>>
  BY <1>1, FlatMapEmpty
<1>5. \A ls \in Seq(Line) : FlatMap(ls, d) \in Seq(Char)
  BY <1>1, FlatMapType
<1>6. \A ls \in Seq(Line), l \in Line : FlatMap(ls \o <<l>>, d) = FlatMap(ls, d) \o d[l]
  <2> SUFFICES ASSUME NEW ls \in Seq(Line), NEW l \in Line
               PROVE  FlatMap(ls \o <<l>>, d) = FlatMap(ls, d) \o d[l]
    OBVIOUS
  <2>1. <<l>> \in Seq(Line)
    OBVIOUS
  <2>2. FlatMap(ls \o <<l>>, d) = FlatMap(ls, d) \o FlatMap(<<l>>, d)
    BY <1>1, <2>1, FlatMapConcat
  <2>3. FlatMap(<<l>>, d) = d[l]
    BY <1>1, FlatMapOne
  <2> QED
    BY <2>2, <2>3
<1> QED
  BY <1>2, <1>3, <1>4, <1>5, <1>6

LEMMA ShownIsShownIn ==
    ASSUME ExplodeTypes
    PROVE  Shown = ShownIn(buf, lines)
<1>1. lines \in Seq(Line)
  BY DEF ExplodeTypes
<1>2. \A i \in 1 .. Len(lines) : lines[i] \in Line
  BY <1>1, ElementOfSeq
<1>3. \A i \in 1 .. Len(lines) : Inked(Str(lines[i].text)) = InkPart(buf)[lines[i]]
  BY <1>2, StrInBuffer DEF InkPart
<1>4. [i \in 1 .. Len(lines) |-> Inked(Str(lines[i].text))] =
        [i \in 1 .. Len(lines) |-> InkPart(buf)[lines[i]]]
  BY <1>3, Zenon
<1> QED
  BY <1>4, Zenon DEF Shown, ShownIn, FlatMap

\* The texts of the lines end before a position, up to which a buffer stays.
EndBy(b, ls, f) == \A i \in 1 .. Len(ls) : \E n \in ls[i].text .. f : b[n] = NUL

LEMMA StrStays ==
    ASSUME NEW b \in Seq(Char), NEW c \in Seq(Char), NEW f \in 0 .. Len(b), f <= Len(c),
           \A p \in 1 .. f : c[p] = b[p],
           NEW ptr \in Nat \ {0}, NEW n \in ptr .. f, b[n] = NUL
    PROVE  StrIn(c, ptr) = StrIn(b, ptr)
<1> DEFINE z == FirstIn(b, ptr, {NUL})
<1>1. Len(b) \in Nat /\ Len(c) \in Nat /\ ptr \in 1 .. Len(b) /\ ptr \in 1 .. Len(c)
  BY LenProperties
<1>2. /\ z \in ptr .. Len(b) + 1 /\ (z <= Len(b) => b[z] = NUL)
      /\ \A p \in ptr .. z - 1 : b[p] # NUL
  BY <1>1, StrFound
<1> HIDE DEF z
<1>3. z <= n
  BY <1>1, <1>2
<1>4. /\ z \in ptr .. Len(b) /\ b[z] = NUL /\ z \in ptr .. Len(c) /\ c[z] = NUL
      /\ \A p \in ptr .. z - 1 : c[p] # NUL
  <2>1. z \in ptr .. Len(b) /\ z \in ptr .. Len(c) /\ z \in 1 .. f /\ z <= Len(b)
    BY <1>1, <1>2, <1>3
  <2>2. \A p \in ptr .. z - 1 : p \in 1 .. f
    BY <1>1, <2>1
  <2>3. \A p \in ptr .. z - 1 : c[p] = b[p] /\ b[p] # NUL
    BY <1>2, <2>2
  <2>4. b[z] = NUL /\ c[z] = b[z]
    BY <1>2, <2>1
  <2> QED
    BY <2>1, <2>3, <2>4
<1>5. /\ StrIn(b, ptr) \in Seq(Char) /\ Len(StrIn(b, ptr)) = z - ptr
      /\ \A j \in 1 .. z - ptr : StrIn(b, ptr)[j] = b[ptr + j - 1]
  BY <1>1, <1>2, <1>4, StrUntil
<1>6. /\ StrIn(c, ptr) \in Seq(Char) /\ Len(StrIn(c, ptr)) = z - ptr
      /\ \A j \in 1 .. z - ptr : StrIn(c, ptr)[j] = c[ptr + j - 1]
  BY <1>1, <1>2, <1>4, StrUntil
<1>7. \A j \in 1 .. z - ptr : ptr + j - 1 \in 1 .. f
  BY <1>1, <1>3, <1>4
<1>8. \A j \in 1 .. z - ptr : StrIn(c, ptr)[j] = StrIn(b, ptr)[j]
  BY <1>5, <1>6, <1>7
<1> QED
  BY <1>5, <1>6, <1>8, SeqEqual

LEMMA ShownStays ==
    ASSUME NEW b \in Seq(Char), NEW c \in Seq(Char), NEW f \in 0 .. Len(b), f <= Len(c),
           \A p \in 1 .. f : c[p] = b[p], NEW ls \in Seq(Line), EndBy(b, ls, f)
    PROVE  ShownIn(c, ls) = ShownIn(b, ls) /\ EndBy(c, ls, f)
<1>1. \A i \in 1 .. Len(ls) : ls[i] \in Line /\ ls[i].text \in Nat \ {0}
  <2>1. \A l \in Line : l.text \in Nat \ {0}
    BY DEF Line
  <2> QED
    BY <2>1, ElementOfSeq
<1>2. \A i \in 1 .. Len(ls) :
        /\ StrIn(c, ls[i].text) = StrIn(b, ls[i].text)
        /\ \E n \in ls[i].text .. f : c[n] = NUL
  <2> SUFFICES ASSUME NEW i \in 1 .. Len(ls)
               PROVE  /\ StrIn(c, ls[i].text) = StrIn(b, ls[i].text)
                      /\ \E n \in ls[i].text .. f : c[n] = NUL
    OBVIOUS
  <2> DEFINE ptr == ls[i].text
  <2>1. PICK n \in ptr .. f : b[n] = NUL
    BY DEF EndBy
  <2>2. ptr \in Nat \ {0}
    BY <1>1
  <2> HIDE DEF ptr
  <2>3. n \in 1 .. f
    BY <2>2, LenProperties
  <2>4. StrIn(c, ptr) = StrIn(b, ptr)
    BY <2>1, <2>2, StrStays
  <2> QED
    BY <2>1, <2>3, <2>4 DEF ptr
<1>3. \A i \in 1 .. Len(ls) : InkPart(c)[ls[i]] = InkPart(b)[ls[i]]
  BY <1>1, <1>2 DEF InkPart
<1>4. [i \in 1 .. Len(ls) |-> InkPart(c)[ls[i]]] = [i \in 1 .. Len(ls) |-> InkPart(b)[ls[i]]]
  BY <1>3, Zenon
<1>5. ShownIn(c, ls) = ShownIn(b, ls)
  BY <1>4, Zenon DEF ShownIn, FlatMap
<1> QED
  BY <1>2, <1>5 DEF EndBy

\* All descriptions can be shown in full.
AllFit == \A i \in 1 .. Count : Fits(Source(i))

\* The first k descriptions are in the table, and an end marker on the last
\* of these lines is a line of its own.
LastIs(b, ls, k) ==
    IF k = 0 THEN ls = <<>>
    ELSE /\ ls # <<>> /\ ls[Len(ls)].type = SourceType(Source(k))
         /\ IsMarker(Source(k)) =>
              ~ls[Len(ls)].continued /\ ShownIn(b, Front(ls)) = MeantTo(k - 1)
Drawn(b, ls, k) == ShownIn(b, ls) = MeantTo(k) /\ LastIs(b, ls, k)

\* The k-th description is in the table up to a position; what follows is
\* still in the buffer.
DrawnUpTo(b, ls, k, ptr, first) ==
    /\ ShownIn(b, ls) = MeantTo(k - 1) \o Inked(SubSeq(Bytes0, Offset(k - 1) + 2, ptr - 1))
    /\ EndBy(b, ls, ptr - 1)
    /\ \A p \in ptr .. Until(k) - 1 : b[p] = Bytes0[p]
    /\ ~first => Bytes0[ptr] # SPACE /\ ptr < Until(k) /\ ~IsMarker(Source(k))

Described(k) ==
    /\ pc = "line" => Drawn(buf, lines, k) /\ EndBy(buf, lines, Offset(k))
    /\ pc = "wrap" => DrawnUpTo(buf, lines, k, wrapptr, firstiteration)
    /\ pc = "dot" /\ ~truncated => Drawn(buf, lines, k)
    /\ pc \in {"trim", "done"} /\ ~truncated => ShownIn(buf, lines) = Meant

LEMMA DescribedNext ==
    ASSUME menu' = menu, NEW k,
           pc' = "line" => Drawn(buf', lines', k) /\ EndBy(buf', lines', Offset(k)),
           pc' = "wrap" => DrawnUpTo(buf', lines', k, wrapptr', firstiteration'),
           pc' = "dot" /\ ~truncated' => Drawn(buf', lines', k),
           pc' \in {"trim", "done"} /\ ~truncated' => ShownIn(buf', lines') = Meant
    PROVE  Described(k)'
<1>1. /\ Bytes0' = Bytes0
      /\ \A j : (Offset(j))' = Offset(j) /\ (Source(j))' = Source(j) /\ (Until(j))' = Until(j)
  BY MenuStays
<1>2. Meant' = Meant /\ \A j : (MeantTo(j))' = MeantTo(j)
  BY DEF Meant, MeantTo
<1>3. ShownIn(buf, lines)' = ShownIn(buf', lines')
  BY DEF ShownIn, InkPart
<1>4. \A j : EndBy(buf, lines, j)' <=> EndBy(buf', lines', j)
  BY DEF EndBy
<1>5. Drawn(buf, lines, k)' <=> Drawn(buf', lines', k)
  BY <1>1, <1>2 DEF Drawn, LastIs
<1>6. DrawnUpTo(buf, lines, k, wrapptr, firstiteration)' <=>
        DrawnUpTo(buf', lines', k, wrapptr', firstiteration')
  BY <1>1, <1>2 DEF DrawnUpTo
<1>7. EndBy(buf, lines, Offset(k))' <=> EndBy(buf', lines', Offset(k))
  BY <1>1 DEF EndBy
<1> QED
  BY <1>2, <1>3, <1>5, <1>6, <1>7 DEF Described

LEMMA InitDescribed == ExplodeInit => Described(0)
<1> SUFFICES ASSUME ExplodeInit PROVE Described(0)
  OBVIOUS
<1>1. pc = "line" /\ lines = <<>> /\ ExplodeTypes
  BY InitExplodeTypes DEF ExplodeInit
<1>2. buf \in Seq(Char)
  BY <1>1 DEF ExplodeTypes
<1>3. ShownIn(buf, <<>>) = <<>> /\ MeantTo(0) = <<>>
  BY <1>1, <1>2, ShownInFacts, MeantToFacts
<1>4. EndBy(buf, <<>>, Offset(0))
  BY EmptySeq DEF EndBy
<1> QED
  BY <1>1, <1>3, <1>4 DEF Described, Drawn, LastIs

LEMMA ExplodeLineDescribed ==
    ASSUME ExplodeTypes, Usual, NEW k \in 0 .. Count, Exploded(k), Described(k), ExplodeLine
    PROVE  Described(k + 1)'
<1>1. /\ pc = "line" /\ cursor <= Len(buf) /\ buf' = Separated
      /\ wrapptr' = cursor + 1 /\ firstiteration' = TRUE
      /\ pc' = "wrap" /\ menu' = menu /\ lines' = lines
  BY DEF ExplodeLine
<1>2. /\ Buffered(buf, k) /\ KeptLines(buf, k) /\ cursor = Offset(k) + 1
      /\ ShownIn(buf, lines) = MeantTo(k) /\ EndBy(buf, lines, Offset(k))
  BY <1>1 DEF Exploded, Described, Drawn
<1>3. k \in 0 .. Count - 1 /\ k \in Nat
  BY <1>1, <1>2, LineToCome, OffsetEnds
<1>4. /\ buf \in Seq(Char) /\ lines \in Seq(Line) /\ Separated \in Seq(Char)
      /\ Len(Separated) = Len(buf) /\ Len(buf) \in Nat
      /\ Offset(k) \in 0 .. Len(buf)
  BY SeparatedType, OffsetsGrow, LenProperties DEF ExplodeTypes
<1>5. \A p \in 1 .. Offset(k) : Separated[p] = buf[p]
  <2> SUFFICES ASSUME NEW p \in 1 .. Offset(k) PROVE Separated[p] = buf[p]
    OBVIOUS
  <2>1. p \in 1 .. Len(buf) /\ p <= Offset(k)
    BY <1>4
  <2> QED
    BY <1>2, <1>3, <2>1, SeparatedAt
<1>6. ShownIn(Separated, lines) = MeantTo(k) /\ EndBy(Separated, lines, Offset(k))
  <2> DEFINE f == Offset(k)
             c == Separated
  <2>1. f \in 0 .. Len(buf) /\ f <= Len(c) /\ \A p \in 1 .. f : c[p] = buf[p]
    BY <1>4, <1>5
  <2>2. EndBy(buf, lines, f) /\ c \in Seq(Char)
    BY <1>2, <1>4
  <2> HIDE DEF f, c
  <2>3. ShownIn(c, lines) = ShownIn(buf, lines) /\ EndBy(c, lines, f)
    BY <1>4, <2>1, <2>2, ShownStays
  <2> QED
    BY <1>2, <2>3 DEF f, c
<1>7. EndBy(Separated, lines, Offset(k) + 1)
  <2>1. \A i \in 1 .. Len(lines) : lines[i].text \in Nat
    <3>1. \A l \in Line : l.text \in Nat
      BY DEF Line
    <3> QED
      BY <1>4, <3>1, ElementOfSeq
  <2> HIDE DEF Separated
  <2> QED
    BY <1>4, <1>6, <2>1 DEF EndBy
<1>8. MeantTo(k) = MeantTo(k) \o Inked(SubSeq(Bytes0, Offset(k) + 2, Offset(k) + 1))
  <2>1. SubSeq(Bytes0, Offset(k) + 2, Offset(k) + 1) = <<>>
    BY <1>4, SubSeqEmpty
  <2>2. MeantTo(k) \o <<>> = MeantTo(k)
    BY MeantToFacts, ConcatEmptySeq
  <2> QED
    BY <2>1, <2>2, InkedFacts
<1>9. \A p \in Offset(k) + 2 .. Until(k + 1) - 1 : Separated[p] = Bytes0[p]
  BY <1>2, <1>3, LineSeparated
<1>10. wrapptr' = Offset(k) + 2 /\ wrapptr' - 1 = Offset(k) + 1 /\ (k + 1) - 1 = k
  BY <1>1, <1>2, <1>3, <1>4
<1> DEFINE m == k + 1
<1>11. DrawnUpTo(buf', lines', m, wrapptr', firstiteration')
  BY <1>1, <1>6, <1>7, <1>8, <1>9, <1>10 DEF DrawnUpTo
<1> HIDE DEF m
<1>12. Described(m)'
  BY <1>1, <1>11, DescribedNext
<1> QED
  BY <1>12 DEF m

\* What one turn takes from a description that fits: no more than white space
\* is lost between a line and the next one.
LEMMA TurnLosesNothing ==
    ASSUME ExplodeTypes, Usual, AllFit, NEW k \in 1 .. Count, Buffered(buf, k), Wrapping(k),
           WrapLine, DrawnUpTo(buf, lines, k, wrapptr, firstiteration)
    PROVE  /\ TurnEnd \in wrapptr .. Until(k)
           /\ \/ pc' = "line" /\ \A p \in TurnEnd .. Until(k) - 1 : Bytes0[p] = SPACE
              \/ /\ pc' = "wrap" /\ wrapptr' \in TurnEnd + 1 .. Until(k) - 1
                 /\ \A p \in TurnEnd .. wrapptr' - 1 : Bytes0[p] = SPACE
                 /\ Bytes0[wrapptr'] # SPACE /\ ~IsMarker(Source(k))
<1> DEFINE o == Offset(k - 1)
           u == Until(k)
           w == wrapptr
           c == TurnEnd
           z == Zero
           n == Turn.next
           src == Source(k)
           d == Description(src)
           wide == SCREENW - 4
<1>1. /\ z \in w .. u /\ buf[z] = NUL /\ c \in w .. z
      /\ Taken(buf, w, WrapLen, Turn, z)
      /\ \/ n = 0 /\ pc' = "line"
         \/ n \in c .. z - 1 /\ n # 0 /\ pc' = "wrap" /\ wrapptr' = n
  BY TurnFacts
<1>2. /\ w \in o + 2 .. u /\ buf[u] = NUL /\ (firstiteration <=> w = o + 2)
  BY DEF Wrapping
<1>3. /\ \A p \in w .. u - 1 : buf[p] = Bytes0[p]
      /\ ~firstiteration => Bytes0[w] # SPACE
  BY DEF DrawnUpTo
<1>4. /\ o \in Nat /\ u \in o + 2 .. Offset(k) /\ Offset(k) \in Nat
      /\ \A p \in o + 2 .. u - 1 : Bytes0[p] \notin {NUL, TAB, CR, LF}
  BY SourceAt, UsualSources, UntilFacts
<1>5. /\ Len(d) = u - o - 2
      /\ \A j \in 1 .. Len(d) : d[j] = Bytes0[o + 1 + j]
  BY UsualSources, DescriptionAt
<1>6. Fits(src)
  BY DEF AllFit
<1>7. /\ \A i \in 1 .. Len(d) - wide : \E j \in i .. i + wide : j > 1 /\ d[j] = SPACE
      /\ IsMarker(src) => Len(d) <= wide
  BY <1>6 DEF Fits, ShortWords
<1>8. wide \in Nat /\ WrapLen \in Nat /\ wide <= WrapLen
  BY WrapLenFacts, MenuExplodeAssumption
<1>9. /\ c = w + Len(Turn.line)
      /\ \/ n = 0 /\ \A p \in c .. z - 1 : buf[p] = SPACE
         \/ /\ n \in c .. z - 1 /\ w + WrapLen < z
            /\ \A p \in c .. n - 1 : buf[p] = SPACE
            /\ \/ c < n /\ buf[n] # SPACE
               \/ \A p \in w + 1 .. w + WrapLen : buf[p] # SPACE
  BY <1>1, Zenon DEF Taken, TurnEnd
<1> HIDE DEF o, u, w, c, z, n, src, d, wide
<1>10. z = u
  <2> SUFFICES ASSUME z # u PROVE FALSE
    OBVIOUS
  <2>1. z \in w .. u - 1 /\ z \in o + 2 .. u - 1
    BY <1>1, <1>2, <1>4
  <2> QED
    BY <1>1, <1>3, <1>4, <2>1
<1>11. CASE n = 0
  <2>1. \A p \in c .. z - 1 : buf[p] = SPACE
    BY <1>1, <1>2, <1>4, <1>9, <1>11
  <2>2. \A p \in c .. u - 1 : p \in w .. u - 1
    BY <1>1, <1>2, <1>4, <1>10
  <2>3. \A p \in c .. u - 1 : Bytes0[p] = SPACE
    BY <1>3, <1>10, <2>1, <2>2
  <2>4. pc' = "line"
    BY <1>1, <1>11
  <2> QED
    BY <1>1, <1>10, <2>3, <2>4 DEF c, u, w
<1>12. CASE n # 0
  <2>1. /\ n \in c .. u - 1 /\ w + WrapLen < u /\ pc' = "wrap" /\ wrapptr' = n
        /\ \A p \in c .. n - 1 : buf[p] = SPACE
        /\ \/ c < n /\ buf[n] # SPACE
           \/ \A p \in w + 1 .. w + WrapLen : buf[p] # SPACE
    BY <1>1, <1>9, <1>10, <1>12
  <2>2. \E p \in w + 1 .. w + WrapLen : buf[p] = SPACE
    <3> DEFINE i == w - o - 1
    <3>1. i \in 1 .. Len(d) - wide
      BY <1>2, <1>4, <1>5, <1>8, <2>1
    <3>2. PICK j \in i .. i + wide : j > 1 /\ d[j] = SPACE
      BY <1>7, <3>1
    <3> DEFINE p == o + 1 + j
    <3>3. p \in w .. w + wide /\ j \in 1 .. Len(d) /\ p \in w .. u - 1
      BY <1>2, <1>4, <1>5, <1>8, <2>1, <3>1, <3>2
    <3>4. Bytes0[p] = SPACE
      BY <1>5, <3>2, <3>3
    <3>5. buf[p] = SPACE
      BY <1>3, <3>3, <3>4
    <3>6. p # w
      <4> SUFFICES ASSUME p = w PROVE FALSE
        OBVIOUS
      <4>1. w # o + 2
        BY <1>4, <3>2, <3>3
      <4> HIDE DEF p
      <4> QED
        BY <1>2, <1>3, <3>4, <4>1
    <3>7. p \in w + 1 .. w + WrapLen
      BY <1>2, <1>4, <1>8, <3>3, <3>6
    <3> QED
      BY <3>5, <3>7
  <2>3. c < n /\ buf[n] # SPACE
    BY <2>1, <2>2
  <2>4. n \in c + 1 .. u - 1 /\ n \in w .. u - 1
    BY <1>1, <1>2, <1>4, <1>10, <2>1, <2>3
  <2>5. \A p \in c .. n - 1 : Bytes0[p] = SPACE
    <3>1. \A p \in c .. n - 1 : p \in w .. u - 1
      BY <1>1, <1>2, <1>4, <1>10, <2>1
    <3> QED
      BY <1>3, <2>1, <3>1
  <2>6. Bytes0[n] # SPACE
    BY <1>3, <2>3, <2>4
  <2>7. ~IsMarker(src)
    <3>1. ~(Len(d) <= wide)
      BY <1>2, <1>4, <1>5, <1>8, <2>1
    <3> QED
      BY <1>7, <3>1
  <2> QED
    BY <1>1, <1>10, <2>1, <2>4, <2>5, <2>6, <2>7 DEF c, u, w, src
<1> QED
  BY <1>11, <1>12

\* The line that a turn adds shows what it took.
LEMMA TurnShown ==
    ASSUME ExplodeTypes, ExplodeTypes', Usual, NEW k \in 1 .. Count, Buffered(buf, k),
           Wrapping(k), WrapLine, DrawnUpTo(buf, lines, k, wrapptr, firstiteration),
           TurnEnd \in wrapptr .. Until(k)
    PROVE  /\ lines' = lines \o <<PieceOf(~firstiteration)>>
           /\ PieceOf(~firstiteration) \in Line
           /\ ShownIn(buf', lines) = ShownIn(buf, lines)
           /\ ShownIn(buf', lines') =
                MeantTo(k - 1) \o Inked(SubSeq(Bytes0, Offset(k - 1) + 2, TurnEnd - 1))
           /\ EndBy(buf', lines', TurnEnd)
           /\ buf' = [buf EXCEPT ![TurnEnd] = NUL]
<1> DEFINE o == Offset(k - 1)
           u == Until(k)
           w == wrapptr
           c == TurnEnd
           b == buf'
           bytes == Bytes0
           piece == PieceOf(~firstiteration)
           ink(m, n) == Inked(SubSeq(Bytes0, m, n))
           earlier == MeantTo(k - 1)
<1>1. /\ c \in 1 .. Len(buf) /\ b = [buf EXCEPT ![c] = NUL]
      /\ lines' = Append(lines, piece)
  BY TurnFacts
<1>2. w \in o + 2 .. u
  BY DEF Wrapping
<1>3. /\ ShownIn(buf, lines) = earlier \o ink(o + 2, w - 1)
      /\ EndBy(buf, lines, w - 1)
      /\ \A p \in w .. u - 1 : buf[p] = Bytes0[p]
  BY DEF DrawnUpTo
<1>4. /\ o \in Nat /\ u \in o + 2 .. Offset(k) /\ Offset(k) \in Nat /\ Offset(k) <= Len(buf)
      /\ \A p \in o + 2 .. u - 1 : Bytes0[p] \notin {NUL, TAB, CR, LF}
  BY SourceAt, UsualSources, UntilFacts
<1>5. /\ buf \in Seq(Char) /\ b \in Seq(Char) /\ lines \in Seq(Line) /\ Len(buf) \in Nat
      /\ piece \in Line /\ piece.text = w
  BY WrapLineTypes, LenProperties DEF ExplodeTypes, PieceOf
<1>6. Bytes0 \in Seq(Char) /\ Len(Bytes0) = Len(buf)
  BY EndedFacts DEF ExplodeTypes, Bytes0
<1>7. c \in w .. u
  OBVIOUS
<1>8. earlier \in Seq(Char)
  <2>1. k - 1 \in 0 .. Count
    BY OffsetEnds
  <2> QED
    BY <2>1, MeantToFacts
<1>9. \A m, n : ink(m, n) = Inked(SubSeq(bytes, m, n))
  OBVIOUS
<1> HIDE DEF o, u, w, c, b, piece, bytes, ink, earlier
<1>10. Len(b) = Len(buf) /\ b[c] = NUL /\ \A p \in 1 .. Len(buf) : p # c => b[p] = buf[p]
  BY <1>1, <1>5
<1>11. ShownIn(b, lines) = ShownIn(buf, lines) /\ EndBy(b, lines, w - 1)
  <2> DEFINE f == w - 1
  <2>1. f \in 0 .. Len(buf) /\ f <= Len(b)
    BY <1>1, <1>2, <1>4, <1>5, <1>7, <1>10
  <2>2. \A p \in 1 .. f : p \in 1 .. Len(buf) /\ p # c
    BY <1>2, <1>4, <1>5, <1>7, <2>1
  <2>3. \A p \in 1 .. f : b[p] = buf[p]
    BY <1>10, <2>2
  <2>4. EndBy(buf, lines, f)
    BY <1>3
  <2> HIDE DEF f
  <2>5. ShownIn(b, lines) = ShownIn(buf, lines) /\ EndBy(b, lines, f)
    BY <1>5, <2>1, <2>3, <2>4, ShownStays
  <2> QED
    BY <2>5 DEF f
<1>12. StrIn(b, w) = SubSeq(Bytes0, w, c - 1)
  <2>1. /\ w \in 1 .. Len(b) /\ c \in w .. Len(b)
        /\ w \in 1 .. Len(bytes) + 1 /\ c - 1 \in w - 1 .. Len(bytes) /\ (c - 1) - w + 1 = c - w
        /\ \A j \in 1 .. c - w : w + j - 1 \in w .. c - 1
    <3>1. w \in Nat \ {0} /\ c \in w .. Len(buf) /\ Len(buf) \in Nat
      BY <1>1, <1>2, <1>4, <1>5, <1>7
    <3>2. Len(b) = Len(buf) /\ Len(bytes) = Len(buf)
      BY <1>6, <1>10 DEF bytes
    <3> QED
      BY <3>1, <3>2
  <2>2. \A p \in w .. c - 1 :
          p \in 1 .. Len(buf) /\ p # c /\ p \in w .. u - 1 /\ p \in o + 2 .. u - 1
    BY <1>1, <1>2, <1>4, <1>5, <1>7
  <2>3. \A p \in w .. c - 1 : b[p] = bytes[p] /\ b[p] # NUL
    BY <1>3, <1>4, <1>10, <2>2 DEF bytes
  <2>4. /\ StrIn(b, w) \in Seq(Char) /\ Len(StrIn(b, w)) = c - w
        /\ \A j \in 1 .. c - w : StrIn(b, w)[j] = b[w + j - 1]
    <3>1. b \in Seq(Char) /\ b[c] = NUL /\ \A p \in w .. c - 1 : b[p] # NUL
      BY <1>5, <1>10, <2>3
    <3> QED
      BY <2>1, <3>1, StrUntil
  <2> DEFINE e == c - 1
  <2>5. bytes \in Seq(Char) /\ e \in w - 1 .. Len(bytes) /\ e - w + 1 = c - w
    BY <1>6, <2>1 DEF bytes
  <2> HIDE DEF e
  <2>6. /\ SubSeq(bytes, w, e) \in Seq(Char) /\ Len(SubSeq(bytes, w, e)) = e - w + 1
        /\ \A j \in 1 .. e - w + 1 : SubSeq(bytes, w, e)[j] = bytes[w + j - 1]
    BY <2>1, <2>5, SubSeqFacts
  <2>7. \A j \in 1 .. c - w : StrIn(b, w)[j] = SubSeq(bytes, w, e)[j]
    BY <2>1, <2>3, <2>4, <2>5, <2>6
  <2>8. StrIn(b, w) = SubSeq(bytes, w, e)
    BY <2>4, <2>5, <2>6, <2>7, SeqEqual
  <2> QED
    BY <2>8 DEF bytes, e
<1>13. /\ ink(o + 2, c - 1) = ink(o + 2, w - 1) \o ink(w, c - 1)
       /\ ink(o + 2, w - 1) \in Seq(Char)
  <2> DEFINE m == o + 2
             n == c - 1
             j == w - 1
  <2>1. /\ m \in 1 .. Len(bytes) + 1 /\ n \in m - 1 .. Len(bytes) /\ j \in m - 1 .. n
        /\ bytes \in Seq(Char) /\ j + 1 = w
    BY <1>1, <1>2, <1>4, <1>5, <1>6, <1>7 DEF bytes
  <2> HIDE DEF m, n, j
  <2>2. /\ Inked(SubSeq(bytes, m, n)) = Inked(SubSeq(bytes, m, j)) \o Inked(SubSeq(bytes, j + 1, n))
        /\ Inked(SubSeq(bytes, m, j)) \in Seq(Char)
    BY <2>1, InkedSplit
  <2> QED
    BY <1>9, <2>1, <2>2 DEF m, n, j
<1>14. ink(w, c - 1) = Inked(StrIn(b, w)) /\ ink(w, c - 1) \in Seq(Char)
  <2>1. w \in Nat \ {0}
    BY <1>2, <1>4
  <2> QED
    BY <1>5, <1>12, <2>1, StrInType, InkedFacts DEF ink
<1>15. lines' = lines \o <<piece>>
  BY <1>1, <1>5, AppendIsConcat
<1>16. ShownIn(b, lines') = earlier \o ink(o + 2, c - 1)
  <2>1. ShownIn(b, lines') = ShownIn(b, lines) \o Inked(StrIn(b, w))
    BY <1>5, <1>15, ShownInFacts
  <2>2. ShownIn(b, lines') = (earlier \o ink(o + 2, w - 1)) \o ink(w, c - 1)
    BY <1>3, <1>11, <1>14, <2>1
  <2>3. (earlier \o ink(o + 2, w - 1)) \o ink(w, c - 1) =
          earlier \o (ink(o + 2, w - 1) \o ink(w, c - 1))
    BY <1>8, <1>13, <1>14, ConcatAssociative
  <2> QED
    BY <1>13, <2>2, <2>3
<1>17. EndBy(b, lines', c)
  <2> SUFFICES ASSUME NEW i \in 1 .. Len(lines')
               PROVE  \E n \in lines'[i].text .. c : b[n] = NUL
    BY DEF EndBy
  <2>1. /\ Len(lines) \in Nat /\ Len(lines') = Len(lines) + 1
        /\ lines'[Len(lines) + 1] = piece
        /\ \A j \in 1 .. Len(lines) : lines'[j] = lines[j]
    BY <1>5, <1>15, OneBehind
  <2>2. CASE i = Len(lines) + 1
    <3>1. lines'[i].text = w /\ c \in w .. c
      BY <1>2, <1>4, <1>5, <1>7, <2>1, <2>2
    <3> QED
      BY <1>10, <3>1
  <2>3. CASE i # Len(lines) + 1
    <3>1. i \in 1 .. Len(lines) /\ lines'[i] = lines[i]
      BY <2>1, <2>3
    <3>2. lines[i] \in Line /\ lines[i].text \in Nat
      <4>1. \A l \in Line : l.text \in Nat
        BY DEF Line
      <4> QED
        BY <1>5, <3>1, <4>1, ElementOfSeq
    <3>3. PICK n \in lines[i].text .. w - 1 : b[n] = NUL
      BY <1>11, <3>1 DEF EndBy
    <3>4. n \in lines[i].text .. c
      BY <1>2, <1>4, <1>7, <3>2
    <3> QED
      BY <3>1, <3>3, <3>4
  <2> QED
    BY <2>2, <2>3
<1> QED
  BY <1>1, <1>5, <1>11, <1>15, <1>16, <1>17 DEF b, c, o, piece, ink, earlier

LEMMA WrapLineDescribed ==
    ASSUME ExplodeTypes, ExplodeTypes', Usual, AllFit, NEW k \in 0 .. Count,
           Exploded(k), Described(k), WrapLine
    PROVE  Described(k)'
<1> DEFINE o == Offset(k - 1)
           u == Until(k)
           w == wrapptr
           c == TurnEnd
           piece == PieceOf(~firstiteration)
           bytes == Bytes0
           ink(n) == Inked(SubSeq(bytes, o + 2, n))
           earlier == MeantTo(k - 1)
<1>1. pc = "wrap" /\ Buffered(buf, k) /\ Wrapping(k) /\ k \in 1 .. Count
  BY DEF Exploded, WrapLine, Wrapping
<1>2. DrawnUpTo(buf, lines, k, wrapptr, firstiteration)
  BY <1>1 DEF Described
<1>3. /\ c \in w .. u
      /\ \/ pc' = "line" /\ \A p \in c .. u - 1 : bytes[p] = SPACE
         \/ /\ pc' = "wrap" /\ wrapptr' \in c + 1 .. u - 1
            /\ \A p \in c .. wrapptr' - 1 : bytes[p] = SPACE
            /\ bytes[wrapptr'] # SPACE /\ ~IsMarker(Source(k))
  BY <1>1, <1>2, TurnLosesNothing
<1>4. /\ lines' = lines \o <<piece>> /\ piece \in Line
      /\ ShownIn(buf', lines) = ShownIn(buf, lines)
      /\ ShownIn(buf', lines') = earlier \o ink(c - 1)
      /\ EndBy(buf', lines', c)
      /\ buf' = [buf EXCEPT ![c] = NUL]
  BY <1>1, <1>2, <1>3, TurnShown, Zenon
<1>5. /\ menu' = menu /\ firstiteration' = FALSE /\ truncated' = truncated
      /\ piece.type = entry.type /\ (piece.continued <=> ~firstiteration)
  BY DEF WrapLine, found, PieceOf
<1>6. /\ w \in o + 2 .. u /\ (firstiteration <=> w = o + 2)
      /\ entry.type = SourceType(Source(k))
  BY <1>1 DEF Wrapping, Entered
<1>7. /\ o \in Nat /\ u \in o + 2 .. Offset(k) /\ Offset(k) \in Nat /\ Offset(k) <= Len(buf)
  BY <1>1, SourceAt, UsualSources, UntilFacts
<1>8. /\ buf \in Seq(Char) /\ lines \in Seq(Line) /\ lines' \in Seq(Line) /\ Len(buf) \in Nat
      /\ bytes \in Seq(Char) /\ Len(bytes) = Len(buf)
  BY EndedFacts, LenProperties DEF ExplodeTypes, Bytes0
<1>9. /\ ShownIn(buf, lines) = earlier \o ink(w - 1)
      /\ \A p \in w .. u - 1 : buf[p] = bytes[p]
      /\ ~firstiteration => ~IsMarker(Source(k))
  BY <1>2 DEF DrawnUpTo
<1>10. earlier \in Seq(Char) /\ MeantTo(k) = earlier \o ink(u - 1)
  <2>1. k - 1 \in 0 .. Count - 1 /\ k - 1 \in 0 .. Count /\ (k - 1) + 1 = k
    BY <1>1, OffsetEnds
  <2>2. MeantTo(k) = earlier \o Inked(Description(Source(k))) /\ earlier \in Seq(Char)
    BY <2>1, MeantToFacts
  <2>3. Description(Source(k)) = SubSeq(bytes, o + 2, u - 1)
    BY <1>1, UsualSources, DescriptionAt
  <2> QED
    BY <2>2, <2>3
<1>11. \A l \in Line : l.text \in Nat
  BY DEF Line
<1>12. \A n : ink(n) = Inked(SubSeq(bytes, o + 2, n))
  OBVIOUS
<1>13. DrawnUpTo(buf', lines', k, wrapptr', FALSE) <=>
         /\ ShownIn(buf', lines') = earlier \o ink(wrapptr' - 1)
         /\ EndBy(buf', lines', wrapptr' - 1)
         /\ \A p \in wrapptr' .. u - 1 : buf'[p] = bytes[p]
         /\ bytes[wrapptr'] # SPACE /\ wrapptr' < u /\ ~IsMarker(Source(k))
  BY DEF DrawnUpTo
<1> HIDE DEF o, u, w, c, piece, bytes, ink, earlier
\* White space behind the cut adds nothing.
<1>14. ASSUME NEW n \in c - 1 .. u - 1, \A p \in c .. n : bytes[p] = SPACE
       PROVE  ink(n) = ink(c - 1)
  <2> DEFINE m == o + 2
             j == c - 1
  <2>1. /\ m \in 1 .. Len(bytes) + 1 /\ n \in m - 1 .. Len(bytes) /\ j \in m - 1 .. n
        /\ j + 1 = c
    BY <1>3, <1>6, <1>7, <1>8
  <2> HIDE DEF m, j
  <2>2. (\A p \in j + 1 .. n : bytes[p] = SPACE) =>
          Inked(SubSeq(bytes, m, n)) = Inked(SubSeq(bytes, m, j))
    BY <1>8, <2>1, InkedSplit
  <2>3. Inked(SubSeq(bytes, m, n)) = Inked(SubSeq(bytes, m, j))
    BY <1>14, <2>1, <2>2
  <2> QED
    BY <1>12, <2>3 DEF m, j
\* The texts of the lines end as well by any later position.
<1>15. ASSUME NEW n \in Int, c <= n PROVE EndBy(buf', lines', n)
  <2>1. \A i \in 1 .. Len(lines') : lines'[i].text \in Nat
    BY <1>8, <1>11, ElementOfSeq
  <2>2. c \in Int
    BY <1>3, <1>6, <1>7
  <2> QED
    BY <1>4, <1>15, <2>1, <2>2 DEF EndBy
<1>16. CASE pc' = "line"
  <2>1. \A p \in c .. u - 1 : bytes[p] = SPACE
    BY <1>3, <1>16
  <2>2. ink(u - 1) = ink(c - 1)
    <3>1. u - 1 \in c - 1 .. u - 1
      BY <1>3, <1>6, <1>7
    <3> QED
      BY <1>14, <2>1, <3>1
  <2>3. ShownIn(buf', lines') = MeantTo(k)
    BY <1>4, <1>10, <2>2
  <2>4. EndBy(buf', lines', Offset(k))
    <3>1. Offset(k) \in Int /\ c <= Offset(k)
      BY <1>3, <1>6, <1>7
    <3> QED
      BY <1>15, <3>1
  <2>5. LastIs(buf', lines', k)
    <3>1. /\ Len(lines) \in Nat /\ Len(lines') = Len(lines) + 1 /\ lines'[Len(lines')] = piece
      BY <1>4, <1>8, OneBehind
    <3>2. lines' # <<>>
      BY <3>1, EmptySeq
    <3>3. piece.type = SourceType(Source(k))
      BY <1>5, <1>6
    <3>4. ASSUME IsMarker(Source(k))
          PROVE  ~piece.continued /\ ShownIn(buf', Front(lines')) = earlier
      <4>1. firstiteration /\ ~piece.continued /\ w = o + 2
        BY <1>5, <1>6, <1>9, <3>4
      <4>2. Front(lines') = lines
        BY <1>4, <1>8, FrontOfOne
      <4>3. ink(w - 1) = <<>>
        <5>1. w - 1 \in Int /\ o + 2 \in Int /\ w - 1 < o + 2
          BY <1>7, <4>1
        <5>2. SubSeq(bytes, o + 2, w - 1) = <<>>
          BY <5>1, SubSeqEmpty
        <5> QED
          BY <1>12, <5>2, InkedFacts
      <4>4. ShownIn(buf', lines) = earlier \o <<>>
        BY <1>4, <1>9, <4>3
      <4> QED
        BY <1>10, <4>1, <4>2, <4>4, ConcatEmptySeq
    <3>5. k # 0
      BY <1>1, OffsetEnds
    <3> QED
      BY <3>1, <3>2, <3>3, <3>4, <3>5 DEF LastIs, earlier
  <2>6. Drawn(buf', lines', k)
    BY <2>3, <2>5 DEF Drawn
  <2> QED
    BY <1>5, <1>16, <2>4, <2>6, DescribedNext
<1>17. CASE pc' = "wrap"
  <2>1. /\ wrapptr' \in c + 1 .. u - 1 /\ \A p \in c .. wrapptr' - 1 : bytes[p] = SPACE
        /\ bytes[wrapptr'] # SPACE /\ ~IsMarker(Source(k))
    BY <1>3, <1>17
  <2> DEFINE n == wrapptr' - 1
  <2>2. /\ n \in c - 1 .. u - 1 /\ n \in Int /\ c <= n /\ wrapptr' < u /\ wrapptr' = n + 1
    <3>1. c \in Int /\ u \in Int
      BY <1>3, <1>6, <1>7
    <3>2. ASSUME NEW v \in c + 1 .. u - 1
          PROVE  v - 1 \in c - 1 .. u - 1 /\ v - 1 \in Int /\ c <= v - 1 /\ v < u /\ v = (v - 1) + 1
      BY <3>1
    <3> QED
      BY <2>1, <3>2
  <2>3. ink(n) = ink(c - 1)
    BY <1>14, <2>1, <2>2
  <2>4. EndBy(buf', lines', n)
    BY <1>15, <2>2
  <2>5. \A p \in wrapptr' .. u - 1 : buf'[p] = bytes[p]
    <3>1. \A p \in wrapptr' .. u - 1 : p \in w .. u - 1 /\ p # c /\ p \in 1 .. Len(buf)
      BY <1>3, <1>6, <1>7, <1>8, <2>2
    <3>2. \A p \in 1 .. Len(buf) : p # c => buf'[p] = buf[p]
      BY <1>4, <1>8
    <3> QED
      BY <1>9, <3>1, <3>2
  <2>6. DrawnUpTo(buf', lines', k, wrapptr', FALSE)
    BY <1>4, <1>13, <2>1, <2>2, <2>3, <2>4, <2>5
  <2> QED
    BY <1>5, <1>17, <2>6, DescribedNext
<1> QED
  BY <1>3, <1>16, <1>17

LEMMA TrimsDescribed ==
    ASSUME ExplodeTypes, Usual, NEW k \in 0 .. Count, Exploded(k), Described(k), Trims
    PROVE  Described(k)'
<1>1. /\ UNCHANGED <<menu, buf, cursor, entry, wrapptr, firstiteration, found>>
      /\ pc' = "trim"
  BY TrimsFacts
<1>2. /\ menu' = menu /\ buf' = buf /\ truncated' = truncated
      /\ lines \in Seq(Line) /\ buf \in Seq(Char)
  BY <1>1 DEF found, ExplodeTypes
<1>3. ASSUME ~truncated PROVE ShownIn(buf, lines') = Meant
  <2>1. CASE TrimDot
    <3>1. /\ pc = "dot"
          /\ lines' = IF lines # <<>> /\ LastLine.type = "dot" /\ ~LastLine.continued
                      THEN Front(lines) ELSE lines
      BY <2>1 DEF TrimDot
    <3>2. ShownIn(buf, lines) = MeantTo(k) /\ LastIs(buf, lines, k)
      BY <1>3, <3>1 DEF Described, Drawn
    <3>3. k = Count /\ Count \in Nat
      BY <1>3, <3>1, OffsetEnds DEF Exploded
    <3>4. Meant = IF Count > 0 /\ IsMarker(Source(Count)) THEN MeantTo(Count - 1)
                  ELSE MeantTo(Count)
      BY MeantToFacts
    <3>5. CASE k = 0
      <4>1. lines' = lines
        BY <3>1, <3>2, <3>5 DEF LastIs
      <4> QED
        BY <3>2, <3>3, <3>4, <3>5, <4>1
    <3>6. CASE k # 0
      <4>1. /\ lines # <<>> /\ LastLine.type = SourceType(Source(k))
            /\ IsMarker(Source(k)) =>
                 ~LastLine.continued /\ ShownIn(buf, Front(lines)) = MeantTo(k - 1)
        BY <3>2, <3>6 DEF LastIs, LastLine
      <4>2. IsMarker(Source(k)) <=> LastLine.type = "dot"
        BY <4>1 DEF IsMarker
      <4>3. k > 0
        BY <3>3, <3>6
      <4>4. CASE IsMarker(Source(k))
        <5>1. lines' = Front(lines)
          BY <3>1, <4>1, <4>2, <4>4
        <5> QED
          BY <3>3, <3>4, <4>1, <4>3, <4>4, <5>1
      <4>5. CASE ~IsMarker(Source(k))
        <5>1. lines' = lines
          BY <3>1, <4>2, <4>5
        <5> QED
          BY <3>2, <3>3, <3>4, <4>5, <5>1
      <4> QED
        BY <4>4, <4>5
    <3> QED
      BY <3>5, <3>6
  <2>2. CASE TrimEmpty
    <3>1. pc = "trim" /\ EndsEmpty /\ lines' = Front(lines)
      BY <2>2 DEF TrimEmpty
    <3>2. ShownIn(buf, lines) = Meant
      BY <1>3, <3>1 DEF Described
    <3> DEFINE l == LastLine
               rest == Front(lines)
    <3>3. lines # <<>> /\ Str(l.text) = <<>>
      BY <3>1 DEF EndsEmpty
    <3>4. rest \in Seq(Line) /\ l \in Line /\ lines = rest \o <<l>>
      BY <1>2, <3>3, TrimmedFacts DEF LastLine
    <3> HIDE DEF l, rest
    <3>5. Inked(StrIn(buf, l.text)) = <<>>
      BY <3>3, StrInBuffer, InkedFacts
    <3>6. ShownIn(buf, rest) \in Seq(Char)
      BY <1>2, <3>4, ShownInFacts
    <3>7. ShownIn(buf, rest \o <<l>>) = ShownIn(buf, rest) \o Inked(StrIn(buf, l.text))
      BY <1>2, <3>4, ShownInFacts
    <3>8. ShownIn(buf, rest \o <<l>>) = ShownIn(buf, rest)
      BY <3>5, <3>6, <3>7, ConcatEmptySeq
    <3> QED
      BY <3>1, <3>2, <3>4, <3>8 DEF rest
  <2> QED
    BY <2>1, <2>2 DEF Trims
<1> QED
  BY <1>1, <1>2, <1>3, DescribedNext

LEMMA PassesDescribed ==
    ASSUME ExplodeTypes, Usual, NEW k \in 0 .. Count, Described(k), Passes
    PROVE  Described(k)'
<1>1. /\ menu' = menu /\ buf' = buf /\ lines' = lines /\ pc' \in {"dot", "overrun", "done"}
  BY PassesFacts
<1>2. CASE TooManyLines
  <2>1. truncated' = TRUE /\ pc' = "dot"
    BY <1>2 DEF TooManyLines
  <2> QED
    BY <1>1, <2>1, DescribedNext
<1>3. CASE EndOfMenu
  <2>1. pc = "line" /\ pc' = "dot"
    BY <1>3 DEF EndOfMenu
  <2>2. Drawn(buf, lines, k)
    BY <2>1 DEF Described
  <2> QED
    BY <1>1, <2>1, <2>2, DescribedNext
<1>4. CASE Overrun
  <2>1. pc' = "overrun"
    BY <1>4 DEF Overrun
  <2> QED
    BY <1>1, <2>1, DescribedNext
<1>5. CASE TrimDone
  <2>1. pc = "trim" /\ pc' = "done" /\ truncated' = truncated
    BY <1>5 DEF TrimDone, found
  <2>2. ~truncated => ShownIn(buf, lines) = Meant
    BY <2>1 DEF Described
  <2> QED
    BY <1>1, <2>1, <2>2, DescribedNext
<1> QED
  BY <1>2, <1>3, <1>4, <1>5 DEF Passes

\* The invariant with which it is inductive.
AllDescribed == Usual /\ AllFit => \E k \in 0 .. Count : Exploded(k) /\ Described(k)

LEMMA InitAllDescribed == ExplodeInit => AllDescribed
<1> SUFFICES ASSUME ExplodeInit, Usual PROVE \E k \in 0 .. Count : Exploded(k) /\ Described(k)
  BY DEF AllDescribed
<1>1. 0 \in 0 .. Count
  BY InitExplodeTypes, OffsetEnds
<1>2. Exploded(0) /\ Described(0)
  BY InitExploded, InitDescribed
<1> QED
  BY <1>1, <1>2

LEMMA NextAllDescribed ==
    ExplodeTypes /\ ExplodeTypes' /\ AllDescribed /\ [ExplodeNext]_explodevars => AllDescribed'
<1> SUFFICES ASSUME ExplodeTypes, ExplodeTypes', AllDescribed, [ExplodeNext]_explodevars,
                    Usual', AllFit'
             PROVE  (\E k \in 0 .. Count : Exploded(k) /\ Described(k))'
  BY DEF AllDescribed
<1>1. menu' = menu
  <2>1. CASE ExplodeLine
    BY <2>1 DEF ExplodeLine
  <2>2. CASE WrapLine
    BY <2>2 DEF WrapLine
  <2>3. CASE Trims
    BY <2>3, TrimsFacts
  <2>4. CASE Passes
    BY <2>4, PassesFacts
  <2>5. CASE UNCHANGED explodevars
    BY <2>5 DEF explodevars
  <2> QED
    BY <2>1, <2>2, <2>3, <2>4, <2>5, ExplodeNextSplit
<1>2. Usual /\ AllFit /\ Count' = Count
  <2>1. Count' = Count /\ (Usual' <=> Usual) /\ \A i : (Source(i))' = Source(i)
    BY <1>1, MenuStays
  <2>2. AllFit' <=> AllFit
    BY <2>1 DEF AllFit
  <2> QED
    BY <2>1, <2>2
<1>3. PICK k \in 0 .. Count : Exploded(k) /\ Described(k)
  BY <1>2 DEF AllDescribed
<1>4. CASE ExplodeLine
  <2>1. k + 1 \in 0 .. Count /\ Exploded(k + 1)'
    BY <1>2, <1>3, <1>4, ExplodeLineExploded
  <2>2. Described(k + 1)'
    BY <1>2, <1>3, <1>4, ExplodeLineDescribed
  <2> QED
    BY <1>2, <2>1, <2>2
<1>5. CASE WrapLine
  BY <1>2, <1>3, <1>5, WrapLineExploded, WrapLineDescribed
<1>6. CASE Trims
  BY <1>2, <1>3, <1>6, TrimsExploded, TrimsDescribed
<1>7. CASE Passes
  BY <1>2, <1>3, <1>7, PassesExploded, PassesDescribed
<1>8. CASE UNCHANGED explodevars
  <2>1. /\ buf' = buf /\ cursor' = cursor /\ pc' = pc /\ lines' = lines /\ entry' = entry
        /\ wrapptr' = wrapptr /\ firstiteration' = firstiteration /\ truncated' = truncated
        /\ Links' = Links
    BY <1>8 DEF explodevars, found, Links
  <2>2. Exploded(k)'
    BY <1>1, <1>3, <2>1, ExplodedNext DEF Exploded, Wrapping
  <2>3. Described(k)'
    BY <1>1, <1>3, <2>1, DescribedNext DEF Described
  <2> QED
    BY <1>2, <2>2, <2>3
<1> QED
  BY <1>4, <1>5, <1>6, <1>7, <1>8, ExplodeNextSplit

\* menu_explode() shows every visible character of the descriptions, in order,
\* where they can be wrapped at spaces, but for those of the end marker.
THEOREM ShowsDescriptions == ExplodeSpec => []DescriptionsShown
<1>1. ExplodeInit => ExplodeTypes /\ AllDescribed
  BY InitExplodeTypes, InitAllDescribed
<1>2. ExplodeTypes /\ AllDescribed /\ [ExplodeNext]_explodevars => ExplodeTypes' /\ AllDescribed'
  BY NextExplodeTypes, NextAllDescribed
<1>3. ExplodeTypes /\ AllDescribed => DescriptionsShown
  <2> SUFFICES ASSUME ExplodeTypes, AllDescribed, Complete, Usual,
                      \A i \in 1 .. Len(menu.sources) : Fits(menu.sources[i])
               PROVE  Shown = Meant
    BY DEF DescriptionsShown
  <2>1. AllFit
    BY DEF AllFit, Count, Source
  <2>2. PICK k \in 0 .. Count : Described(k)
    BY <2>1 DEF AllDescribed
  <2>3. ShownIn(buf, lines) = Meant
    BY <2>2 DEF Described, Complete
  <2> QED
    BY <2>3, ShownIsShownIn
<1> QED
  BY <1>1, <1>2, <1>3, PTL DEF ExplodeSpec
=============================================================================
