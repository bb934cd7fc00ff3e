------------------------- MODULE EmbeddedPagesProofs -------------------------
(***************************************************************************)
(* What is packed into the program is what is unpacked from it, the start  *)
(* page is put together of its three parts, and no byte behind the two     *)
(* that main() looks at is written to: for every dictionary, text,         *)
(* bookmarks file and size of the buffer.                                  *)
(***************************************************************************)
EXTENDS EmbeddedPages, SequenceTheorems, Induction, TLAPS

Chunk == {c \in Seq(STRING) : Len(c) \in {1, GramLen}}
Numbers(text) == 1 .. Len(text) + GramLen

-----------------------------------------------------------------------------
(* idocgen.c: the chunks of a text are the text.                           *)

\* The equation that the local function of processfile() satisfies.
Rest(text, rest) ==
    [i \in Numbers(text) |->
        IF i > Len(text) THEN <<>>
        ELSE IF InDictionary(text, i) THEN <<Gram(text, i)>> \o rest[i + GramLen]
        ELSE <<<<text[i]>>>> \o rest[i + 1]]

LEMMA ChunkFacts ==
    ASSUME NEW text \in Seq(STRING), NEW i \in 1 .. Len(text)
    PROVE  /\ <<text[i]>> \in Chunk
           /\ i + 1 \in Numbers(text) /\ i + 1 \in Nat
           /\ InDictionary(text, i) =>
                /\ Gram(text, i) \in Chunk
                /\ i + GramLen \in Numbers(text) /\ i + GramLen - 1 <= Len(text)
<1>1. Len(text) \in Nat /\ i \in Nat /\ GramLen \in Nat \ {0, 1}
  BY LenProperties, EmbeddedAssumption
<1>2. text[i] \in STRING /\ <<text[i]>> \in Seq(STRING) /\ Len(<<text[i]>>) = 1
  BY ElementOfSeq
<1>3. ASSUME InDictionary(text, i)
      PROVE  /\ Gram(text, i) \in Chunk
             /\ i + GramLen \in Numbers(text) /\ i + GramLen - 1 <= Len(text)
  <2>1. i + GramLen - 1 <= Len(text) /\ i + GramLen - 1 \in Int
    BY <1>1, <1>3 DEF InDictionary
  <2>2. \A j \in i .. i + GramLen - 1 : text[j] \in STRING
    <3>1. \A j \in i .. i + GramLen - 1 : j \in 1 .. Len(text)
      BY <1>1, <2>1
    <3> QED
      BY <3>1, ElementOfSeq
  <2>3. /\ Gram(text, i) \in Seq(STRING)
        /\ Len(Gram(text, i)) = IF i <= i + GramLen - 1 THEN (i + GramLen - 1) - i + 1 ELSE 0
    BY <1>1, <2>1, <2>2, SubSeqProperties DEF Gram
  <2>4. Len(Gram(text, i)) = GramLen
    BY <1>1, <2>3
  <2> QED
    BY <1>1, <2>1, <2>3, <2>4 DEF Chunk, Numbers
<1> QED
  BY <1>1, <1>2, <1>3 DEF Chunk, Numbers

LEMMA RestExists ==
    ASSUME NEW text \in Seq(STRING)
    PROVE  \E rest : rest = Rest(text, rest)
<1> DEFINE len == Len(text)
           N == len + GramLen
           S == Seq(Chunk)
           last == {i \in 1 .. N : i > len}
           First(i) == IF InDictionary(text, i) THEN Gram(text, i) ELSE <<text[i]>>
           b == [i \in 1 .. N |-> <<>>]
           d == [i \in 1 .. N |-> IF i \in last THEN i
                                  ELSE IF InDictionary(text, i) THEN i + GramLen
                                  ELSE i + 1]
           h == [p \in (1 .. N) \X S |->
                   IF p[1] \in last THEN p[2] ELSE <<First(p[1])>> \o p[2]]
<1>1. len \in Nat /\ N \in Nat /\ GramLen \in Nat \ {0, 1}
  BY LenProperties, EmbeddedAssumption
<1>2. \A i \in 1 .. N : i \notin last => i \in 1 .. len
  BY <1>1
<1>3. ASSUME NEW i \in 1 .. len
      PROVE  /\ First(i) \in Chunk /\ i \in 1 .. N /\ i \notin last /\ i + 1 \in 1 .. N
             /\ i < i + 1 /\ i < i + GramLen
             /\ InDictionary(text, i) => i + GramLen \in 1 .. N
  BY <1>1, ChunkFacts DEF Numbers
<1> HIDE DEF First, last, N, len
<1>4. b \in [1 .. N -> S]
  BY EmptySeq
<1>5. d \in [1 .. N -> 1 .. N]
  BY <1>2, <1>3
<1>6. \A i \in 1 .. N : i \notin last => i < d[i]
  BY <1>2, <1>3
<1>7. h \in [(1 .. N) \X S -> S]
  <2> SUFFICES ASSUME NEW i \in 1 .. N, NEW s \in S, i \notin last
               PROVE  <<First(i)>> \o s \in S
    OBVIOUS
  <2>1. <<First(i)>> \in S
    BY <1>2, <1>3
  <2> QED
    BY <2>1, ConcatProperties
<1>8. PICK f \in UpwardRecursions(S, N, last, b, d, h) : TRUE
  <2> HIDE DEF b, d, h, S
  <2> QED
    BY <1>1, <1>4, <1>5, <1>6, <1>7, RecursionUpward
<1>9. /\ f \in [1 .. N -> S]
      /\ \A i \in 1 .. N : f[i] = IF i \in last THEN b[i] ELSE h[<<i, f[d[i]]>>]
  <2> HIDE DEF b, d, h, S
  <2> QED
    BY <1>8 DEF UpwardRecursions
<1>10. ASSUME NEW i \in 1 .. N
       PROVE  f[i] = IF i > len THEN <<>>
                     ELSE IF InDictionary(text, i) THEN <<Gram(text, i)>> \o f[i + GramLen]
                     ELSE <<<<text[i]>>>> \o f[i + 1]
  <2>1. CASE i \in last
    BY <1>9, <2>1 DEF last
  <2>2. CASE i \notin last
    <3>1. i \in 1 .. len /\ ~(i > len)
      BY <1>2, <2>2 DEF last
    <3>2. d[i] \in 1 .. N /\ f[d[i]] \in S
      BY <1>5, <1>9
    <3>3. f[i] = <<First(i)>> \o f[d[i]]
      BY <1>9, <2>2, <3>2
    <3> QED
      BY <2>2, <3>1, <3>3 DEF First
  <2> QED
    BY <2>1, <2>2
<1>11. f = Rest(text, f)
  <2>1. f = [i \in 1 .. N |-> f[i]]
    BY <1>9
  <2> QED
    BY <1>10, <2>1 DEF Rest, Numbers, N, len
<1> QED
  BY <1>11

\* Packing loses nothing.
LEMMA PackedIsText ==
    ASSUME NEW text \in Seq(STRING)
    PROVE  /\ processfile(text) \in Seq(Chunk)
           /\ FlattenSeq(processfile(text)) = text
<1> DEFINE rest == CHOOSE r : r = Rest(text, r)
           len == Len(text)
           N == len + GramLen
           Good == {i \in 1 .. N : /\ rest[i] \in Seq(Chunk)
                                   /\ FlattenSeq(rest[i]) = SubSeq(text, i, len)}
<1>1. processfile(text) = rest[1]
  BY DEF processfile, Rest, Numbers
<1>2. rest = Rest(text, rest)
  BY RestExists
<1>3. len \in Nat /\ N \in Nat /\ GramLen \in Nat \ {0, 1} /\ 1 \in 1 .. N
  BY LenProperties, EmbeddedAssumption
<1> HIDE DEF rest
<1>4. ASSUME NEW i \in 1 .. N, \A k \in i + 1 .. N : k \in Good
      PROVE  i \in Good
  <2>1. CASE i > len
    <3>1. rest[i] = <<>>
      BY <1>2, <2>1 DEF Rest, Numbers
    <3>2. SubSeq(text, i, len) = <<>>
      BY <1>3, <2>1, SubSeqEmpty
    <3>3. <<>> \in Seq(Chunk) /\ FlattenSeq(<<>>) = <<>>
      BY EmptySeq DEF FlattenSeq
    <3> QED
      BY <3>1, <3>2, <3>3
  <2>2. ASSUME i \in 1 .. len, NEW chunk \in Chunk, NEW k \in i + 1 .. N,
               rest[i] = <<chunk>> \o rest[k], k - 1 <= len,
               chunk = SubSeq(text, i, k - 1)
        PROVE  i \in Good
    <3>1. rest[k] \in Seq(Chunk) /\ FlattenSeq(rest[k]) = SubSeq(text, k, len)
      BY <1>4, <2>2
    <3>2. <<chunk>> \in Seq(Chunk) /\ chunk \in Seq(STRING)
      BY DEF Chunk
    <3>3. rest[i] \in Seq(Chunk)
      BY <2>2, <3>1, <3>2, ConcatProperties
    <3>4. <<chunk>> \in Seq(Seq(STRING)) /\ rest[k] \in Seq(Seq(STRING))
      <4>1. Chunk \subseteq Seq(STRING)
        BY DEF Chunk
      <4> QED
        BY <3>1, <3>2, <4>1, SeqMonotonic
    <3>5. FlattenSeq(rest[i]) = chunk \o SubSeq(text, k, len)
      <4>1. FlattenSeq(<<chunk>> \o rest[k]) = FlattenSeq(<<chunk>>) \o FlattenSeq(rest[k])
        BY <3>4, FlattenConcat
      <4>2. FlattenSeq(<<chunk>>) = chunk
        BY <3>2, FlattenOne
      <4> QED
        BY <2>2, <3>1, <4>1, <4>2
    <3>6. SubSeq(text, i, k - 1) \o SubSeq(text, k, len) = SubSeq(text, i, len)
      <4>1. /\ i \in 1 .. len + 1 /\ k - 1 \in i - 1 .. len /\ len \in k - 1 .. len
            /\ (k - 1) + 1 = k
        BY <1>3, <2>2
      <4>2. SubSeq(text, i, k - 1) \o SubSeq(text, (k - 1) + 1, len) = SubSeq(text, i, len)
        BY <4>1, ConcatAdjacentSubSeq
      <4> QED
        BY <4>1, <4>2
    <3> QED
      BY <2>2, <3>3, <3>5, <3>6
  <2>3. CASE ~(i > len) /\ InDictionary(text, i)
    <3>1. i \in 1 .. len
      BY <1>3, <2>3
    <3>2. Gram(text, i) \in Chunk /\ i + GramLen \in Numbers(text) /\ i + GramLen - 1 <= len
      BY <2>3, <3>1, ChunkFacts
    <3>3. i + GramLen \in i + 1 .. N
      BY <1>3, <3>2 DEF Numbers
    <3>4. rest[i] = <<Gram(text, i)>> \o rest[i + GramLen]
      BY <1>2, <2>3 DEF Rest, Numbers
    <3>5. Gram(text, i) = SubSeq(text, i, (i + GramLen) - 1) /\ (i + GramLen) - 1 <= len
      <4>1. i + GramLen - 1 = (i + GramLen) - 1
        BY <1>3, <3>1
      <4> QED
        BY <3>2, <4>1 DEF Gram
    <3> HIDE DEF Good, N, len
    <3> DEFINE k == i + GramLen
               chunk == Gram(text, i)
    <3>6. /\ chunk \in Chunk /\ k \in i + 1 .. N /\ rest[i] = <<chunk>> \o rest[k]
          /\ k - 1 <= len /\ chunk = SubSeq(text, i, k - 1)
      BY <3>2, <3>3, <3>4, <3>5
    <3> HIDE DEF k, chunk
    <3> QED
      BY <2>2, <3>1, <3>6
  <2>4. CASE ~(i > len) /\ ~InDictionary(text, i)
    <3>1. i \in 1 .. len
      BY <1>3, <2>4
    <3>2. <<text[i]>> \in Chunk /\ i + 1 \in Numbers(text)
      BY <3>1, ChunkFacts
    <3>3. i + 1 \in i + 1 .. N /\ (i + 1) - 1 <= len /\ (i + 1) - 1 = i
      BY <1>3, <3>1, <3>2 DEF Numbers
    <3>4. rest[i] = <<<<text[i]>>>> \o rest[i + 1]
      BY <1>2, <2>4 DEF Rest, Numbers
    <3>5. SubSeq(text, i, (i + 1) - 1) = <<text[i]>>
      <4>1. i \in i .. len /\ i - 1 \in Int
        BY <1>3, <3>1
      <4>2. SubSeq(text, i, i) = <<text[i]>> \o SubSeq(text, i + 1, i)
        BY <3>1, <4>1, SubSeqRecursiveFirst
      <4>3. SubSeq(text, i + 1, i) = <<>>
        BY <1>3, <3>1, SubSeqEmpty
      <4>4. <<text[i]>> \in Seq(STRING)
        BY <3>2 DEF Chunk
      <4> QED
        BY <3>3, <4>2, <4>3, <4>4, ConcatEmptySeq
    <3> HIDE DEF Good, N, len
    <3> QED
      BY <2>2, <3>1, <3>2, <3>3, <3>4, <3>5
  <2> QED
    BY <2>1, <2>3, <2>4
<1> HIDE DEF Good
<1>5. 1 \in Good
  BY <1>3, <1>4, DownwardInduction
<1>6. SubSeq(text, 1, len) = text
  BY SubSeqFull
<1> QED
  BY <1>1, <1>5, <1>6 DEF Good

-----------------------------------------------------------------------------
(* The bookmarks that are shown.                                           *)

Char == STRING \cup {"lf"}
LineEnd == [line \in Seq(STRING) |-> Append(line, "lf")]
Short(k) == \A j \in 1 .. k : Len(bookmarks[j]) < LineRoom
Listed(k) == NotAmong(SubSeq(bookmarks, 1, k), {<<>>})

LEMMA TextsAreChars ==
    /\ \A text \in Seq(STRING) : text \in Seq(Char)
    /\ Texts \subseteq Seq(STRING) /\ Closings \subseteq Seq(STRING)
    /\ NoBookmarks \in Seq(STRING) /\ Files \subseteq Seq(Seq(STRING))
<1>1. STRING \subseteq Char
  BY DEF Char
<1> QED
  BY <1>1, SeqMonotonic, EmbeddedAssumption

LEMMA LineEndFacts ==
    /\ LineEnd \in [Seq(STRING) -> Seq(Char)]
    /\ \A line \in Seq(STRING) : /\ LineEnd[line] = line \o <<"lf">>
                                /\ Len(LineEnd[line]) = Len(line) + 1
<1>1. ASSUME NEW line \in Seq(STRING)
      PROVE  /\ Append(line, "lf") \in Seq(Char)
             /\ Append(line, "lf") = line \o <<"lf">>
             /\ Len(Append(line, "lf")) = Len(line) + 1
  <2>1. line \in Seq(Char) /\ "lf" \in Char
    BY TextsAreChars DEF Char
  <2> QED
    BY <2>1, AppendProperties, AppendIsConcat
<1> QED
  BY <1>1 DEF LineEnd

LEMMA ListIsFlatMap ==
    ASSUME NEW s \in Seq(Seq(STRING))
    PROVE  /\ ListOf(s) = IF s = <<>> THEN NoBookmarks ELSE FlatMap(s, LineEnd)
           /\ ListOf(s) \in Seq(Char) /\ FlatMap(s, LineEnd) \in Seq(Char)
<1>1. DOMAIN s = 1 .. Len(s) /\ \A n \in 1 .. Len(s) : s[n] \in Seq(STRING)
  BY LenProperties, ElementOfSeq
<1>2. [i \in DOMAIN s |-> Append(s[i], "lf")] = [i \in 1 .. Len(s) |-> LineEnd[s[i]]]
  BY <1>1 DEF LineEnd
<1>3. ListOf(s) = IF s = <<>> THEN NoBookmarks ELSE FlatMap(s, LineEnd)
  BY <1>2 DEF ListOf, FlatMap
<1>4. FlatMap(s, LineEnd) \in Seq(Char)
  BY LineEndFacts, FlatMapType
<1> QED
  BY <1>3, <1>4, TextsAreChars

LEMMA ListedFacts ==
    ASSUME bookmarks \in Seq(Seq(STRING)), NEW k \in 0 .. Len(bookmarks)
    PROVE  /\ SubSeq(bookmarks, 1, k) \in Seq(Seq(STRING))
           /\ Listed(k) \in Seq(Seq(STRING))
<1>1. \A j \in 1 .. k : bookmarks[j] \in Seq(STRING)
  <2>1. \A j \in 1 .. k : j \in 1 .. Len(bookmarks)
    BY LenProperties
  <2> QED
    BY <2>1, ElementOfSeq
<1>2. SubSeq(bookmarks, 1, k) \in Seq(Seq(STRING))
  BY <1>1, SubSeqProperties
<1> QED
  BY <1>2, NotAmongFacts DEF Listed

LEMMA ShownIsListed ==
    ASSUME bookmarks \in Seq(Seq(STRING))
    PROVE  \E m \in 0 .. Len(bookmarks) :
             /\ Shown = Listed(m) /\ Short(m)
             /\ m < Len(bookmarks) => Len(bookmarks[m + 1]) >= LineRoom
<1> DEFINE len == Len(bookmarks)
           Long == {j \in 1 .. len : Len(bookmarks[j]) >= LineRoom}
<1>0. len \in Nat /\ LineRoom \in Nat /\ \A j \in 1 .. len : Len(bookmarks[j]) \in Nat
  <2>1. \A j \in 1 .. len : bookmarks[j] \in Seq(STRING)
    BY ElementOfSeq
  <2> QED
    BY <2>1, LenProperties, EmbeddedAssumption
<1>1. SelectInSeq(bookmarks, LAMBDA line : Len(line) >= LineRoom)
        = IF Long # {} THEN Min(Long) ELSE 0
  BY DEF SelectInSeq
<1>2. CASE Long = {}
  <2>1. Shown = NotAmong(bookmarks, {<<>>})
    BY <1>1, <1>2 DEF Shown
  <2>2. SubSeq(bookmarks, 1, len) = bookmarks
    BY SubSeqFull
  <2>3. Short(len)
    BY <1>0, <1>2 DEF Short
  <2>4. len \in 0 .. len /\ ~(len < len)
    BY <1>0
  <2> QED
    BY <2>1, <2>2, <2>3, <2>4 DEF Listed
<1>3. CASE Long # {}
  <2>1. PICK m \in Long : \A j \in Long : m <= j
    <3>1. Long \subseteq Nat
      OBVIOUS
    <3> HIDE DEF Long
    <3> QED
      BY <1>3, <3>1, LeastNumber
  <2>2. Min(Long) \in Long /\ \A j \in Long : Min(Long) <= j
    BY <2>1 DEF Min
  <2> DEFINE long == Min(Long)
  <2>3. long \in 1 .. len /\ Len(bookmarks[long]) >= LineRoom
    BY <2>2
  <2>4. Shown = NotAmong(SubSeq(bookmarks, 1, long - 1), {<<>>})
    <3>1. ~(long = 0)
      BY <1>0, <2>3
    <3>2. SelectInSeq(bookmarks, LAMBDA line : Len(line) >= LineRoom) = long
      BY <1>1, <1>3
    <3> HIDE DEF long
    <3> QED
      BY <3>1, <3>2 DEF Shown
  <2>5. ASSUME NEW j \in 1 .. long - 1 PROVE Len(bookmarks[j]) < LineRoom
    <3>1. j \in 1 .. len /\ ~(long <= j)
      BY <1>0, <2>3
    <3>2. j \notin Long
      BY <2>2, <3>1
    <3> QED
      BY <1>0, <3>1, <3>2
  <2> HIDE DEF long
  <2>6. long - 1 \in 0 .. len /\ (long - 1) + 1 = long
    BY <1>0, <2>3
  <2> QED
    BY <2>3, <2>4, <2>5, <2>6 DEF Short, Listed
<1> QED
  BY <1>2, <1>3

\* What has been listed at any time is a beginning of what is shown.
LEMMA ListedIsShown ==
    ASSUME bookmarks \in Seq(Seq(STRING)), NEW k \in 0 .. Len(bookmarks), Short(k)
    PROVE  /\ Shown \in Seq(Seq(STRING))
           /\ \E t \in Seq(Seq(STRING)) : Shown = Listed(k) \o t
           /\ k = Len(bookmarks) \/ ~(Len(bookmarks[k + 1]) < LineRoom)
                => Listed(k) = Shown
<1>1. PICK m \in 0 .. Len(bookmarks) :
        /\ Shown = Listed(m) /\ Short(m)
        /\ m < Len(bookmarks) => Len(bookmarks[m + 1]) >= LineRoom
  BY ShownIsListed
<1>0. /\ Len(bookmarks) \in Nat /\ LineRoom \in Nat /\ k \in Nat /\ m \in Nat
      /\ \A j \in 1 .. Len(bookmarks) : Len(bookmarks[j]) \in Nat
  <2>1. \A j \in 1 .. Len(bookmarks) : bookmarks[j] \in Seq(STRING)
    BY ElementOfSeq
  <2> QED
    BY <2>1, LenProperties, EmbeddedAssumption
<1>2. Shown \in Seq(Seq(STRING)) /\ Listed(k) \in Seq(Seq(STRING))
  BY <1>1, ListedFacts
<1>3. k <= m
  <2> SUFFICES ASSUME m < k PROVE FALSE
    BY <1>0
  <2>1. m + 1 \in 1 .. k /\ m < Len(bookmarks) /\ m + 1 \in 1 .. Len(bookmarks)
    BY <1>0
  <2>2. Len(bookmarks[m + 1]) >= LineRoom /\ Len(bookmarks[m + 1]) < LineRoom
    BY <1>1, <2>1 DEF Short
  <2> QED
    BY <1>0, <2>1, <2>2
<1>4. \E t \in Seq(Seq(STRING)) : Shown = Listed(k) \o t
  <2> DEFINE more == SubSeq(bookmarks, k + 1, m)
  <2>1. SubSeq(bookmarks, 1, k) \o more = SubSeq(bookmarks, 1, m)
    <3>1. /\ 1 \in 1 .. Len(bookmarks) + 1
          /\ k \in 1 - 1 .. Len(bookmarks) /\ m \in k .. Len(bookmarks)
      BY <1>0, <1>3
    <3> QED
      BY <3>1, ConcatAdjacentSubSeq
  <2>2. more \in Seq(Seq(STRING))
    <3>1. \A j \in k + 1 .. m : j \in 1 .. Len(bookmarks)
      BY <1>0
    <3>2. \A j \in k + 1 .. m : bookmarks[j] \in Seq(STRING)
      BY <3>1, ElementOfSeq
    <3>3. k + 1 \in Int /\ m \in Int
      BY <1>0
    <3> QED
      BY <3>2, <3>3, SubSeqProperties
  <2> HIDE DEF more
  <2>3. SubSeq(bookmarks, 1, k) \in Seq(Seq(STRING))
    BY ListedFacts
  <2>4. /\ NotAmong(SubSeq(bookmarks, 1, k) \o more, {<<>>})
             = Listed(k) \o NotAmong(more, {<<>>})
        /\ NotAmong(more, {<<>>}) \in Seq(Seq(STRING))
    <3>1. /\ \A u \in Seq(Seq(STRING)) : NotAmong(u, {<<>>}) \in Seq(Seq(STRING))
          /\ \A u, v \in Seq(Seq(STRING)) :
               NotAmong(u \o v, {<<>>}) = NotAmong(u, {<<>>}) \o NotAmong(v, {<<>>})
      BY NotAmongFacts
    <3> QED
      BY <2>2, <2>3, <3>1, Zenon DEF Listed
  <2> DEFINE t == NotAmong(more, {<<>>})
  <2>5. Shown = NotAmong(SubSeq(bookmarks, 1, m), {<<>>})
    BY <1>1 DEF Listed
  <2>6. Shown = Listed(k) \o t /\ t \in Seq(Seq(STRING))
    BY <2>1, <2>4, <2>5
  <2> HIDE DEF t
  <2> QED
    BY <2>6
<1>5. ASSUME k = Len(bookmarks) \/ ~(Len(bookmarks[k + 1]) < LineRoom)
      PROVE  Listed(k) = Shown
  <2>1. k = m
    <3> SUFFICES ASSUME k < m PROVE FALSE
      BY <1>0, <1>3
    <3>1. k + 1 \in 1 .. m /\ k # Len(bookmarks)
      BY <1>0
    <3> QED
      BY <1>1, <1>5, <3>1 DEF Short
  <2> QED
    BY <1>1, <2>1
<1> QED
  BY <1>2, <1>4, <1>5

-----------------------------------------------------------------------------
(* idoc_unpack(): what one turn of its loop, or its end, comes to.         *)

Types ==
    /\ welcome \in Texts /\ closing \in Closings
    /\ bookmarks \in Files /\ buffer_max \in Rooms
    /\ packed \in Seq(Chunk) /\ page \in Seq(Char)
    /\ res \in Nat /\ favcount \in Nat /\ touched \in Nat

Remaining == FlattenSeq(packed)

\* u goes into the buffer and v remains.
Goes(u, v) ==
    /\ packed' \in Seq(Chunk) /\ FlattenSeq(packed') = v
    /\ part' = part /\ res' = res
    /\ y + Len(u) + 1 < bufsz
    /\ touched' \in {touched, Len(page')}

\* v is left out.
Stops(u, v) ==
    /\ packed' = <<>>
    /\ part' = IF part = "welcome" THEN "bookmarks" ELSE "done"
    /\ res' = Len(page')
    /\ Len(u) <= 1
    /\ v = <<>> \/ y + Len(u) + Len(v) + 1 >= bufsz
    /\ touched' \in {touched, Len(page') + 1}

Unpacks(u, v) ==
    /\ u \in Seq(Char) /\ v \in Seq(Char) /\ u \o v = Remaining
    /\ page' = page \o u
    /\ UNCHANGED <<case, lines, favcount>>
    /\ Goes(u, v) \/ Stops(u, v)

LEMMA PackedFacts ==
    ASSUME packed \in Seq(Chunk)
    PROVE  /\ Remaining \in Seq(Char)
           /\ packed = <<>> => Remaining = <<>>
           /\ packed # <<>> =>
                /\ Head(packed) \in Seq(Char) /\ Tail(packed) \in Seq(Chunk)
                /\ FlattenSeq(Tail(packed)) \in Seq(Char)
                /\ Head(packed) \o FlattenSeq(Tail(packed)) = Remaining
<1>1. Chunk \subseteq Seq(Char)
  BY TextsAreChars DEF Chunk
<1>2. \A s \in Seq(Chunk) : s \in Seq(Seq(Char))
  BY <1>1, SeqMonotonic
<1>3. \A s \in Seq(Chunk) : FlattenSeq(s) \in Seq(Char)
  BY <1>2, FlattenInSeq
<1>4. packed = <<>> => Remaining = <<>>
  BY EmptySeq DEF Remaining, FlattenSeq
<1>5. Remaining \in Seq(Char)
  BY <1>3 DEF Remaining
<1>6. CASE packed # <<>>
  <2>1. Head(packed) \in Chunk /\ Tail(packed) \in Seq(Chunk)
    BY <1>6, HeadTailProperties
  <2>2. <<Head(packed)>> \in Seq(Seq(Char)) /\ Head(packed) \in Seq(Char)
    BY <1>1, <2>1
  <2>3. packed = <<Head(packed)>> \o Tail(packed)
    <3>1. Len(packed) \in Nat \ {0} /\ Head(packed) = packed[1]
      BY <1>6, EmptySeq
    <3>2. 1 \in 1 .. Len(packed) /\ Len(packed) \in 1 .. Len(packed) /\ 1 + 1 = 2
      BY <3>1
    <3>3. SubSeq(packed, 1, Len(packed)) = <<packed[1]>> \o SubSeq(packed, 1 + 1, Len(packed))
      BY <3>2, SubSeqRecursiveFirst
    <3>4. SubSeq(packed, 1, Len(packed)) = packed
      BY SubSeqFull
    <3>5. Tail(packed) = SubSeq(packed, 2, Len(packed))
      BY <1>6, TailIsSubSeq
    <3> QED
      BY <3>1, <3>2, <3>3, <3>4, <3>5
  <2>4. FlattenSeq(<<Head(packed)>> \o Tail(packed))
          = FlattenSeq(<<Head(packed)>>) \o FlattenSeq(Tail(packed))
    <3>1. Tail(packed) \in Seq(Seq(Char))
      BY <1>2, <2>1
    <3> QED
      BY <2>2, <3>1, FlattenConcat
  <2>5. FlattenSeq(<<Head(packed)>>) = Head(packed)
    BY <2>2, FlattenOne
  <2>6. Head(packed) \o FlattenSeq(Tail(packed)) = Remaining
    BY <2>3, <2>4, <2>5 DEF Remaining
  <2> QED
    BY <1>3, <1>5, <1>6, <2>1, <2>2, <2>6
<1> QED
  BY <1>4, <1>5, <1>6

LEMMA UnpackStep ==
    ASSUME Types, UnpackChar \/ UnpackGram \/ AllUnpacked
    PROVE  Unpacking /\ \E u, v \in Seq(Char) : Unpacks(u, v)
<1> DEFINE head == Head(packed)
           tail == FlattenSeq(Tail(packed))
<1>1. /\ packed \in Seq(Chunk) /\ page \in Seq(Char) /\ res \in Nat /\ touched \in Nat
      /\ <<>> \in Seq(Char) /\ Len(<<>>) = 0
      /\ buffer_max \in Nat /\ SIZE_MAX \in Nat /\ GramLen \in Nat
  BY EmptySeq, EmbeddedAssumption DEF Types
<1>2. bufsz \in Int
  BY <1>1 DEF bufsz
<1>3. Len(page) \in Nat /\ y \in Int
  BY <1>1, LenProperties DEF y
<1>4. Remaining \in Seq(Char) /\ (packed = <<>> => Remaining = <<>>)
  BY <1>1, PackedFacts
<1>5. ASSUME packed # <<>>
      PROVE  /\ head \in Seq(Char) /\ Tail(packed) \in Seq(Chunk) /\ tail \in Seq(Char)
             /\ head \o tail = Remaining /\ Len(head) \in Nat /\ Len(tail) \in Nat
             /\ Len(Remaining) = Len(head) + Len(tail)
  <2>1. /\ head \in Seq(Char) /\ Tail(packed) \in Seq(Chunk) /\ tail \in Seq(Char)
        /\ head \o tail = Remaining
    BY <1>1, <1>5, PackedFacts
  <2> HIDE DEF head, tail
  <2> QED
    BY <2>1, ConcatProperties, LenProperties
<1>6. <<>> \o Remaining = Remaining /\ page \o <<>> = page
  BY <1>1, <1>4, ConcatEmptySeq
<1> HIDE DEF head, tail
<1>7. CASE UnpackChar
  <2>1. packed # <<>> /\ Unpacking /\ Len(head) = 1
    BY <1>7 DEF UnpackChar, head
  <2>2. CASE y + 2 >= bufsz
    <3>1. UnpackEnds(page \o head)
      BY <1>7, <2>2 DEF UnpackChar, head
    <3>2. y + Len(head) + Len(tail) + 1 >= bufsz
      BY <1>2, <1>3, <1>5, <2>1, <2>2
    <3>3. touched' \in {touched, Len(page') + 1}
      BY <3>1 DEF UnpackEnds, Touch
    <3>4. Stops(head, tail)
      BY <2>1, <3>1, <3>2, <3>3 DEF Stops, UnpackEnds
    <3>5. Unpacks(head, tail)
      BY <1>5, <2>1, <3>1, <3>4 DEF Unpacks, UnpackEnds
    <3> QED
      BY <1>5, <2>1, <3>5
  <2>3. CASE ~(y + 2 >= bufsz)
    <3>1. UnpackNext(page \o head)
      BY <1>7, <2>3 DEF UnpackChar, head
    <3>2. y + Len(head) + 1 < bufsz
      BY <1>2, <1>3, <2>1, <2>3
    <3>3. touched' \in {touched, Len(page')}
      BY <3>1 DEF UnpackNext, Touch
    <3>4. Goes(head, tail)
      BY <1>5, <2>1, <3>1, <3>2, <3>3 DEF Goes, UnpackNext, tail
    <3>5. Unpacks(head, tail)
      BY <1>5, <2>1, <3>1, <3>4 DEF Unpacks, UnpackNext
    <3> QED
      BY <1>5, <2>1, <3>5
  <2> QED
    BY <2>2, <2>3
<1>8. CASE UnpackGram
  <2>1. packed # <<>> /\ Unpacking /\ Len(head) = GramLen
    BY <1>8 DEF UnpackGram, head
  <2>2. CASE y + GramLen + 1 >= bufsz
    <3>1. UnpackEnds(page)
      BY <1>8, <2>2 DEF UnpackGram
    <3>2. y + Len(<<>>) + Len(Remaining) + 1 >= bufsz
      BY <1>1, <1>2, <1>3, <1>5, <2>1, <2>2
    <3>3. touched' \in {touched, Len(page') + 1}
      BY <3>1 DEF UnpackEnds, Touch
    <3>4. Stops(<<>>, Remaining)
      BY <1>1, <3>1, <3>2, <3>3 DEF Stops, UnpackEnds
    <3>5. Unpacks(<<>>, Remaining)
      BY <1>1, <1>4, <1>6, <3>1, <3>4 DEF Unpacks, UnpackEnds
    <3> QED
      BY <1>1, <1>4, <2>1, <3>5
  <2>3. CASE ~(y + GramLen + 1 >= bufsz)
    <3>1. UnpackNext(page \o head)
      BY <1>8, <2>3 DEF UnpackGram, head
    <3>2. y + Len(head) + 1 < bufsz
      BY <1>1, <1>2, <1>3, <2>1, <2>3
    <3>3. touched' \in {touched, Len(page')}
      BY <3>1 DEF UnpackNext, Touch
    <3>4. Goes(head, tail)
      BY <1>5, <2>1, <3>1, <3>2, <3>3 DEF Goes, UnpackNext, tail
    <3>5. Unpacks(head, tail)
      BY <1>5, <2>1, <3>1, <3>4 DEF Unpacks, UnpackNext
    <3> QED
      BY <1>5, <2>1, <3>5
  <2> QED
    BY <2>2, <2>3
<1>9. CASE AllUnpacked
  <2>1. packed = <<>> /\ Unpacking /\ UnpackEnds(page)
    BY <1>9 DEF AllUnpacked
  <2>2. touched' \in {touched, Len(page') + 1}
    BY <2>1 DEF UnpackEnds, Touch
  <2>3. Stops(<<>>, Remaining)
    BY <1>1, <1>4, <2>1, <2>2 DEF Stops, UnpackEnds
  <2>4. Unpacks(<<>>, Remaining)
    BY <1>1, <1>4, <1>6, <2>1, <2>3 DEF Unpacks, UnpackEnds
  <2> QED
    BY <1>1, <1>4, <2>1, <2>4
<1> QED
  BY <1>7, <1>8, <1>9

-----------------------------------------------------------------------------
(* The inductive invariant: what the page is in each part of the work.     *)

Large == Len(Whole) + LineRoom + 1 < buffer_max
Roomy == Len(welcome) + Len(NoBookmarks) + 2 <= buffer_max

AtWelcome ==
    page \o Remaining = welcome /\ lines = bookmarks /\ res = 0 /\ favcount = 0

\* i characters of welcome.txt and the first k lines have been looked at.
AtBookmarks(i, k) ==
    /\ i \in 0 .. Len(welcome) /\ k \in 0 .. Len(bookmarks)
    /\ lines = SubSeq(bookmarks, k + 1, Len(bookmarks))
    /\ Short(k)
    /\ favcount = Len(Listed(k))
    /\ page = SubSeq(welcome, 1, i) \o FlatMap(Listed(k), LineEnd)
    /\ res = Len(page)
    /\ Large => i = Len(welcome)

\* What stands before welcome2.txt.
Opening(i, n) == SubSeq(welcome, 1, i) \o ListOf(SubSeq(Shown, 1, n))

AtClosing(i, n, t) ==
    /\ i \in 0 .. Len(welcome) /\ n \in 0 .. Len(Shown) /\ t \in Seq(Char)
    /\ page = Opening(i, n) \o t
    /\ res = Len(Opening(i, n))
    /\ t \o Remaining = closing
    /\ Large => i = Len(welcome) /\ n = Len(Shown)

Assembled == (Large => page = Whole) /\ Beginning

Parts ==
    /\ part = "welcome" => AtWelcome
    /\ part = "bookmarks" => \E i, k \in Nat : AtBookmarks(i, k)
    /\ part = "closing" => \E i, n \in Nat, t \in Seq(Char) : AtClosing(i, n, t)
    /\ part = "done" => Assembled

\* The buffer is never left while there is something to come.
Held ==
    Roomy =>
        /\ touched <= buffer_max + 2
        /\ part # "done" => res <= buffer_max
        /\ Unpacking => y = 0 \/ y + 1 < bufsz

Inv == Types /\ Parts /\ Held /\ part \in {"welcome", "bookmarks", "closing", "done"}

LEMMA Prefix ==
    ASSUME NEW S, NEW s \in Seq(S), NEW t \in Seq(S)
    PROVE  /\ Len(s) \in 0 .. Len(s \o t) /\ SubSeq(s \o t, 1, Len(s)) = s
           /\ Len(s \o t) = Len(s) + Len(t)
<1>1. Len(s) \in Nat /\ Len(t) \in Nat /\ Len(s \o t) = Len(s) + Len(t)
  BY LenProperties, ConcatProperties
<1>2. CASE Len(s) = 0
  <2>1. s = <<>>
    BY <1>2, EmptySeq
  <2>2. SubSeq(s \o t, 1, 0) = <<>>
    BY SubSeqEmpty
  <2> QED
    BY <1>1, <1>2, <2>1, <2>2
<1>3. CASE Len(s) # 0
  <2>1. 1 \in 1 .. Len(s) /\ Len(s) \in 1 .. Len(s)
    BY <1>1, <1>3
  <2>2. SubSeq(s \o t, 1, Len(s)) = SubSeq(s, 1, Len(s))
    BY <2>1, SubSeqOfConcat1
  <2>3. SubSeq(s, 1, Len(s)) = s
    BY SubSeqFull
  <2> QED
    BY <1>1, <2>2, <2>3
<1> QED
  BY <1>2, <1>3

LEMMA TypedTexts ==
    ASSUME Types
    PROVE  /\ welcome \in Seq(STRING) /\ closing \in Seq(STRING)
           /\ welcome \in Seq(Char) /\ closing \in Seq(Char)
           /\ bookmarks \in Seq(Seq(STRING))
           /\ Len(welcome) \in Nat /\ Len(closing) \in Nat /\ Len(bookmarks) \in Nat
           /\ Len(page) \in Nat /\ Len(NoBookmarks) \in Nat
           /\ LineRoom \in Nat \ {0} /\ GramLen \in Nat
           /\ buffer_max \in Nat /\ buffer_max <= SIZE_MAX /\ SIZE_MAX \in Nat
<1>1. /\ welcome \in Seq(STRING) /\ closing \in Seq(STRING)
      /\ welcome \in Seq(Char) /\ closing \in Seq(Char)
      /\ bookmarks \in Seq(Seq(STRING)) /\ NoBookmarks \in Seq(STRING)
      /\ page \in Seq(Char)
  BY TextsAreChars DEF Types
<1>2. /\ Len(welcome) \in Nat /\ Len(closing) \in Nat /\ Len(bookmarks) \in Nat
      /\ Len(page) \in Nat /\ Len(NoBookmarks) \in Nat
  BY <1>1, LenProperties
<1>3. LineRoom \in Nat \ {0} /\ GramLen \in Nat /\ buffer_max \in 0 .. SIZE_MAX /\ SIZE_MAX \in Nat
  BY EmbeddedAssumption DEF Types
<1> QED
  BY <1>1, <1>2, <1>3

LEMMA RoomLeft ==
    ASSUME Types, res <= buffer_max
    PROVE  bufsz = buffer_max - res
<1>1. /\ buffer_max \in Nat /\ res \in Nat /\ SIZE_MAX \in Nat /\ buffer_max <= SIZE_MAX
  BY TypedTexts DEF Types
<1>2. buffer_max - res \in 0 .. SIZE_MAX
  BY <1>1
<1>3. \A n \in 0 .. SIZE_MAX : n % (SIZE_MAX + 1) = n
  BY <1>1
<1> QED
  BY <1>2, <1>3 DEF bufsz

LEMMA WholeFacts ==
    ASSUME Types
    PROVE  /\ Shown \in Seq(Seq(STRING)) /\ ListOf(Shown) \in Seq(Char)
           /\ Len(Shown) \in Nat /\ Len(ListOf(Shown)) \in Nat
           /\ Whole \in Seq(Char)
           /\ Len(Whole) = Len(welcome) + Len(ListOf(Shown)) + Len(closing)
<1>1. Shown \in Seq(Seq(STRING))
  BY TypedTexts, ShownIsListed, ListedFacts
<1>2. ListOf(Shown) \in Seq(Char)
  BY <1>1, ListIsFlatMap
<1>3. Len(Shown) \in Nat /\ Len(ListOf(Shown)) \in Nat
  BY <1>1, <1>2, LenProperties
<1>4. welcome \in Seq(Char) /\ closing \in Seq(Char) /\ Len(welcome) \in Nat /\ Len(closing) \in Nat
  BY TypedTexts
<1>5. /\ welcome \o ListOf(Shown) \in Seq(Char)
      /\ Len(welcome \o ListOf(Shown)) = Len(welcome) + Len(ListOf(Shown))
  BY <1>2, <1>4, ConcatProperties
<1>6. /\ (welcome \o ListOf(Shown)) \o closing \in Seq(Char)
      /\ Len((welcome \o ListOf(Shown)) \o closing)
           = Len(welcome \o ListOf(Shown)) + Len(closing)
  BY <1>4, <1>5, ConcatProperties
<1> QED
  BY <1>1, <1>2, <1>3, <1>5, <1>6 DEF Whole

LEMMA InitInv == Init => Inv
<1> SUFFICES ASSUME Init PROVE Inv
  OBVIOUS
<1>1. /\ welcome \in Texts /\ closing \in Closings /\ bookmarks \in Files
      /\ buffer_max \in Rooms /\ part = "welcome" /\ packed = processfile(welcome)
      /\ lines = bookmarks /\ page = <<>> /\ res = 0 /\ favcount = 0 /\ touched = 0
  BY DEF Init
<1>2. welcome \in Seq(STRING) /\ welcome \in Seq(Char)
  BY <1>1, TextsAreChars
<1>3. packed \in Seq(Chunk) /\ Remaining = welcome
  BY <1>1, <1>2, PackedIsText DEF Remaining
<1>4. Types
  BY <1>1, <1>3, EmptySeq DEF Types
<1>5. <<>> \o welcome = welcome
  BY <1>2, ConcatEmptySeq
<1>6. Parts
  BY <1>1, <1>3, <1>5 DEF Parts, AtWelcome
<1>7. y = 0 /\ buffer_max \in Nat
  BY <1>1, <1>4, EmptySeq, TypedTexts DEF y
<1>8. Held
  BY <1>1, <1>7 DEF Held
<1> QED
  BY <1>1, <1>4, <1>6, <1>8 DEF Inv

LEMMA CaseKept ==
    ASSUME UNCHANGED case
    PROVE  /\ Shown' = Shown /\ Whole' = Whole /\ Roomy' = Roomy /\ Large' = Large
           /\ \A i, n : Opening(i, n)' = Opening(i, n)
           /\ \A k : Listed(k)' = Listed(k) /\ Short(k)' = Short(k)
<1>1. /\ welcome' = welcome /\ closing' = closing /\ bookmarks' = bookmarks
      /\ buffer_max' = buffer_max
  BY DEF case
<1>2. Shown' = Shown
  BY <1>1 DEF Shown, SelectInSeq
<1>3. Whole' = Whole
  BY <1>1, <1>2 DEF Whole
<1>4. Roomy' = Roomy /\ Large' = Large
  BY <1>1, <1>3 DEF Roomy, Large
<1>5. \A i, n : Opening(i, n)' = Opening(i, n)
  BY <1>1, <1>2 DEF Opening
<1>6. \A k : Listed(k)' = Listed(k) /\ Short(k)' = Short(k)
  BY <1>1 DEF Listed, Short
<1> QED
  BY <1>2, <1>3, <1>4, <1>5, <1>6

LEMMA UnpackTypes ==
    ASSUME Types, NEW u \in Seq(Char), NEW v \in Seq(Char), Unpacks(u, v)
    PROVE  Types'
<1>1. /\ page' = page \o u /\ UNCHANGED <<case, lines, favcount>>
      /\ Goes(u, v) \/ Stops(u, v)
  BY DEF Unpacks
<1>2. page' \in Seq(Char) /\ Len(page') \in Nat
  BY <1>1, ConcatProperties, LenProperties DEF Types
<1>3. packed' \in Seq(Chunk)
  BY <1>1, EmptySeq DEF Goes, Stops
<1>4. res' \in Nat /\ touched' \in Nat
  BY <1>1, <1>2 DEF Goes, Stops, Types
<1> QED
  BY <1>1, <1>2, <1>3, <1>4 DEF Types, case

\* The buffer is not left while a text is unpacked.
LEMMA UnpackHeld ==
    ASSUME Inv, Unpacking, NEW u \in Seq(Char), NEW v \in Seq(Char), Unpacks(u, v)
    PROVE  Held'
<1> SUFFICES ASSUME Roomy
             PROVE  /\ touched' <= buffer_max + 2
                    /\ part' # "done" => res' <= buffer_max
                    /\ Unpacking' => y' = 0 \/ y' + 1 < bufsz'
  <2>1. UNCHANGED case
    BY DEF Unpacks
  <2> QED
    BY <2>1, CaseKept DEF Held, case
<1>1. /\ Types /\ touched <= buffer_max + 2 /\ res <= buffer_max
      /\ y = 0 \/ y + 1 < bufsz
  BY DEF Inv, Held, Unpacking
<1>2. bufsz = buffer_max - res
  BY <1>1, RoomLeft
<1>3. /\ buffer_max \in Nat /\ res \in Nat /\ touched \in Nat /\ Len(page) \in Nat
      /\ Len(u) \in Nat /\ Len(v) \in Nat
      /\ Len(welcome) \in Nat /\ Len(NoBookmarks) \in Nat
      /\ Len(welcome) + Len(NoBookmarks) + 2 <= buffer_max
  BY <1>1, TypedTexts, LenProperties DEF Types, Roomy
<1>4. Len(page') = Len(page) + Len(u)
  BY <1>1, ConcatProperties DEF Unpacks, Types
<1>5. y = Len(page) - res /\ y' = Len(page') - res'
  BY DEF y
<1>6. buffer_max' = buffer_max
  BY DEF Unpacks, case
<1>7. CASE Goes(u, v)
  <2>1. res' = res /\ y + Len(u) + 1 < bufsz /\ touched' \in {touched, Len(page')}
    BY <1>7 DEF Goes
  <2>2. bufsz' = bufsz
    BY <1>6, <2>1 DEF bufsz
  <2>3. y' + 1 < bufsz'
    BY <1>2, <1>3, <1>4, <1>5, <2>1, <2>2
  <2>4. Len(page') <= buffer_max
    BY <1>2, <1>3, <1>4, <1>5, <2>1
  <2> QED
    BY <1>1, <1>3, <1>4, <2>1, <2>3, <2>4
<1>8. CASE Stops(u, v)
  <2>1. /\ res' = Len(page') /\ Len(u) <= 1 /\ touched' \in {touched, Len(page') + 1}
        /\ part' = IF part = "welcome" THEN "bookmarks" ELSE "done"
    BY <1>8 DEF Stops
  <2>2. Len(page') <= buffer_max + 1
    BY <1>1, <1>2, <1>3, <1>4, <1>5, <2>1
  <2>3. part' # "done" => res' <= buffer_max
    <3> SUFFICES ASSUME part = "welcome" PROVE res' <= buffer_max
      BY <2>1
    <3>1. res = 0
      BY DEF Inv, Parts, AtWelcome
    <3> QED
      BY <1>1, <1>2, <1>3, <1>4, <1>5, <2>1, <3>1
  <2>4. ~Unpacking'
    BY <2>1 DEF Unpacking
  <2> QED
    BY <1>1, <1>3, <1>4, <2>1, <2>2, <2>3, <2>4
<1> QED
  BY <1>7, <1>8 DEF Unpacks

LEMMA WelcomeUnpacked ==
    ASSUME Inv, part = "welcome",
           NEW u \in Seq(Char), NEW v \in Seq(Char), Unpacks(u, v)
    PROVE  Parts'
<1>1. /\ Types /\ page \o Remaining = welcome /\ lines = bookmarks /\ res = 0 /\ favcount = 0
  BY DEF Inv, Parts, AtWelcome
<1>2. /\ u \o v = Remaining /\ page' = page \o u
      /\ UNCHANGED case /\ welcome' = welcome /\ bookmarks' = bookmarks
      /\ lines' = lines /\ favcount' = favcount
  BY DEF Unpacks, case
<1>3. page' \o v = welcome
  <2>1. page \in Seq(Char)
    BY <1>1 DEF Types
  <2>2. (page \o u) \o v = page \o (u \o v)
    BY <2>1, ConcatAssociative
  <2> QED
    BY <1>1, <1>2, <2>2
<1>4. /\ page' \in Seq(Char) /\ Len(page') \in Nat /\ Len(v) \in Nat
      /\ Len(welcome) = Len(page') + Len(v) /\ Len(page') \in 0 .. Len(welcome)
      /\ page' = SubSeq(welcome, 1, Len(page'))
  <2>1. page' \in Seq(Char) /\ Len(page') \in Nat /\ Len(v) \in Nat
    BY <1>1, <1>2, ConcatProperties, LenProperties DEF Types
  <2> QED
    BY <1>3, <2>1, Prefix
<1>5. CASE Goes(u, v)
  <2>1. part' = "welcome" /\ FlattenSeq(packed') = v /\ res' = 0
    BY <1>1, <1>5 DEF Goes
  <2>2. AtWelcome'
    BY <1>1, <1>2, <1>3, <2>1 DEF AtWelcome, Remaining
  <2> QED
    BY <2>1, <2>2 DEF Parts
<1>6. CASE Stops(u, v)
  <2>1. /\ part' = "bookmarks" /\ res' = Len(page')
        /\ v = <<>> \/ y + Len(u) + Len(v) + 1 >= bufsz
    BY <1>6 DEF Stops
  <2>2. /\ bookmarks \in Seq(Seq(STRING)) /\ Len(bookmarks) \in Nat /\ buffer_max \in Nat
        /\ Len(page) \in Nat /\ LineRoom \in Nat
    BY <1>1, TypedTexts
  <2>3. lines' = SubSeq(bookmarks', 0 + 1, Len(bookmarks'))
    BY <1>1, <1>2, <2>2, SubSeqFull
  <2>4. Listed(0) = <<>> /\ Short(0) /\ FlatMap(Listed(0), LineEnd) = <<>>
    <3>1. SubSeq(bookmarks, 1, 0) = <<>>
      BY SubSeqEmpty
    <3>2. Listed(0) = <<>>
      BY <3>1, NotAmongFacts DEF Listed
    <3>3. Short(0)
      BY DEF Short
    <3>4. FlatMap(<<>>, LineEnd) = <<>>
      BY LineEndFacts, FlatMapEmpty
    <3> QED
      BY <3>2, <3>3, <3>4
  <2>5. Large => v = <<>>
    <3> SUFFICES ASSUME Large, y + Len(u) + Len(v) + 1 >= bufsz PROVE FALSE
      BY <2>1
    <3>1. bufsz = buffer_max
      BY <1>1, <2>2, RoomLeft
    <3>2. /\ Len(Whole) = Len(welcome) + Len(ListOf(Shown)) + Len(closing)
          /\ Len(ListOf(Shown)) \in Nat /\ Len(closing) \in Nat
      BY <1>1, WholeFacts, TypedTexts
    <3>3. Len(page') = Len(page) + Len(u) /\ y = Len(page) /\ Len(u) \in Nat
      BY <1>1, <1>2, <2>2, ConcatProperties, LenProperties DEF y, Types
    <3>4. Len(Whole) + LineRoom + 1 < buffer_max
      BY DEF Large
    <3> QED
      BY <1>4, <2>2, <3>1, <3>2, <3>3, <3>4
  <2>6. Large => Len(page') = Len(welcome)
    BY <1>4, <2>5, EmptySeq
  <2>7. page' = SubSeq(welcome', 1, Len(page')) \o FlatMap(Listed(0)', LineEnd)
    <3>1. page' \o <<>> = page'
      BY <1>4, ConcatEmptySeq
    <3> QED
      BY <1>2, <1>4, <2>4, <3>1, CaseKept
  <2>8. AtBookmarks(Len(page), 0)'
    <3>1. favcount' = Len(Listed(0)') /\ Short(0)' /\ (Large' => Len(page') = Len(welcome'))
      BY <1>1, <1>2, <2>4, <2>6, CaseKept, EmptySeq
    <3>2. 0 \in 0 .. Len(bookmarks') /\ Len(page') \in 0 .. Len(welcome')
      BY <1>2, <1>4, <2>2
    <3> QED
      BY <2>1, <2>3, <2>7, <3>1, <3>2 DEF AtBookmarks
  <2> QED
    BY <1>4, <2>1, <2>8 DEF Parts
<1> QED
  BY <1>5, <1>6 DEF Unpacks

LEMMA OpeningFacts ==
    ASSUME Types, NEW i \in 0 .. Len(welcome), NEW n \in 0 .. Len(Shown)
    PROVE  /\ SubSeq(welcome, 1, i) \in Seq(Char) /\ Len(SubSeq(welcome, 1, i)) = i
           /\ SubSeq(Shown, 1, n) \in Seq(Seq(STRING))
           /\ ListOf(SubSeq(Shown, 1, n)) \in Seq(Char)
           /\ Opening(i, n) \in Seq(Char) /\ Len(Opening(i, n)) \in Nat
           /\ i = Len(welcome) /\ n = Len(Shown) => Opening(i, n) = welcome \o ListOf(Shown)
<1>1. welcome \in Seq(Char) /\ Shown \in Seq(Seq(STRING))
      /\ Len(welcome) \in Nat /\ Len(Shown) \in Nat
  BY TypedTexts, WholeFacts
<1>2. /\ \A j \in 1 .. i : j \in 1 .. Len(welcome)
      /\ \A j \in 1 .. n : j \in 1 .. Len(Shown)
  BY <1>1
<1>3. SubSeq(welcome, 1, i) \in Seq(Char) /\ Len(SubSeq(welcome, 1, i)) = i
  <2>1. \A j \in 1 .. i : welcome[j] \in Char
    BY <1>1, <1>2, ElementOfSeq
  <2>2. /\ SubSeq(welcome, 1, i) \in Seq(Char)
        /\ Len(SubSeq(welcome, 1, i)) = IF 1 <= i THEN i - 1 + 1 ELSE 0
    BY <2>1, SubSeqProperties
  <2> QED
    BY <1>1, <2>2
<1>4. SubSeq(Shown, 1, n) \in Seq(Seq(STRING))
  <2>1. \A j \in 1 .. n : Shown[j] \in Seq(STRING)
    BY <1>1, <1>2, ElementOfSeq
  <2> QED
    BY <2>1, SubSeqProperties
<1>5. ListOf(SubSeq(Shown, 1, n)) \in Seq(Char)
  BY <1>4, ListIsFlatMap
<1>6. Opening(i, n) \in Seq(Char) /\ Len(Opening(i, n)) \in Nat
  BY <1>3, <1>5, ConcatProperties, LenProperties DEF Opening
<1>7. i = Len(welcome) /\ n = Len(Shown) => Opening(i, n) = welcome \o ListOf(Shown)
  BY <1>1, SubSeqFull DEF Opening
<1> QED
  BY <1>3, <1>4, <1>5, <1>6, <1>7

LEMMA ClosingUnpacked ==
    ASSUME Inv, part = "closing",
           NEW u \in Seq(Char), NEW v \in Seq(Char), Unpacks(u, v)
    PROVE  Parts'
<1>1. PICK i \in Nat, n \in Nat, t \in Seq(Char) : AtClosing(i, n, t)
  BY DEF Inv, Parts
<1>2. /\ Types /\ page \in Seq(Char) /\ res \in Nat
  BY DEF Inv, Types
<1>3. /\ i \in 0 .. Len(welcome) /\ n \in 0 .. Len(Shown) /\ t \in Seq(Char)
      /\ page = Opening(i, n) \o t /\ res = Len(Opening(i, n))
      /\ t \o Remaining = closing
      /\ Large => i = Len(welcome) /\ n = Len(Shown)
  BY <1>1 DEF AtClosing
<1>4. /\ u \o v = Remaining /\ page' = page \o u /\ UNCHANGED case
      /\ welcome' = welcome /\ closing' = closing
  BY DEF Unpacks, case
<1>5. /\ Opening(i, n) \in Seq(Char) /\ Len(Opening(i, n)) \in Nat
      /\ SubSeq(welcome, 1, i) \in Seq(Char) /\ ListOf(SubSeq(Shown, 1, n)) \in Seq(Char)
      /\ i = Len(welcome) /\ n = Len(Shown) => Opening(i, n) = welcome \o ListOf(Shown)
  BY <1>2, <1>3, OpeningFacts
<1> DEFINE tt == t \o u
<1>6. /\ tt \in Seq(Char) /\ page' = Opening(i, n) \o tt
      /\ tt \o v = closing
  <2>1. tt \in Seq(Char)
    BY <1>3, ConcatProperties
  <2>2. /\ (Opening(i, n) \o t) \o u = Opening(i, n) \o (t \o u)
        /\ (t \o u) \o v = t \o (u \o v)
    <3>1. \A a, b, c \in Seq(Char) : (a \o b) \o c = a \o (b \o c)
      BY ConcatAssociative
    <3>2. Opening(i, n) \in Seq(Char)
      BY <1>5
    <3>3. (Opening(i, n) \o t) \o u = Opening(i, n) \o (t \o u)
      BY <3>1, <3>2, Zenon
    <3> QED
      BY <3>1, <3>3, Zenon
  <2> QED
    BY <1>3, <1>4, <2>1, <2>2
<1>7. Len(tt) = Len(t) + Len(u) /\ Len(t) \in Nat /\ Len(u) \in Nat /\ Len(v) \in Nat
  BY <1>3, ConcatProperties, LenProperties
<1> HIDE DEF tt
<1>8. /\ Len(closing) = Len(tt) + Len(v) /\ Len(tt) \in 0 .. Len(closing)
      /\ tt = SubSeq(closing, 1, Len(tt))
  BY <1>6, Prefix
<1>9. CASE Goes(u, v)
  <2>1. part' = "closing" /\ FlattenSeq(packed') = v /\ res' = res
    BY <1>9 DEF Goes
  <2>2. AtClosing(i, n, tt)'
    <3>1. Opening(i, n)' = Opening(i, n) /\ Shown' = Shown /\ Large' = Large
      BY <1>4, CaseKept
    <3> QED
      BY <1>3, <1>4, <1>6, <2>1, <3>1 DEF AtClosing, Remaining
  <2> QED
    BY <1>1, <1>6, <2>1, <2>2 DEF Parts
<1>10. CASE Stops(u, v)
  <2>1. part' = "done" /\ (v = <<>> \/ y + Len(u) + Len(v) + 1 >= bufsz)
    BY <1>10 DEF Stops
  <2>2. Large => v = <<>>
    <3> SUFFICES ASSUME Large, y + Len(u) + Len(v) + 1 >= bufsz PROVE FALSE
      BY <2>1
    <3>1. /\ Len(Whole) = Len(welcome) + Len(ListOf(Shown)) + Len(closing)
          /\ Len(ListOf(Shown)) \in Nat /\ Len(closing) \in Nat /\ Len(welcome) \in Nat
          /\ LineRoom \in Nat /\ buffer_max \in Nat
      BY <1>2, WholeFacts, TypedTexts
    <3>2. res = Len(welcome) + Len(ListOf(Shown))
      <4>1. welcome \in Seq(Char) /\ ListOf(Shown) \in Seq(Char)
        BY <1>2, TypedTexts, WholeFacts
      <4> QED
        BY <1>3, <1>5, <4>1, ConcatProperties
    <3>3. Len(Whole) + LineRoom + 1 < buffer_max
      BY DEF Large
    <3>4. bufsz = buffer_max - res
      BY <1>2, <3>1, <3>2, <3>3, RoomLeft
    <3>5. y = Len(t)
      <4>1. Len(page) = res + Len(t)
        BY <1>3, <1>5, ConcatProperties
      <4> QED
        BY <1>2, <1>7, <4>1 DEF y
    <3> QED
      BY <1>7, <1>8, <3>1, <3>2, <3>3, <3>4, <3>5
  <2>3. Large => page' = Whole
    <3> SUFFICES ASSUME Large PROVE page' = Whole
      OBVIOUS
    <3>1. v = <<>> /\ tt \o <<>> = tt
      BY <1>6, <2>2, ConcatEmptySeq
    <3>2. tt = closing /\ page' = (welcome \o ListOf(Shown)) \o closing
      BY <1>3, <1>5, <1>6, <3>1
    <3> QED
      BY <3>2 DEF Whole
  <2>4. Assembled'
    <3>1. Shown' = Shown /\ Large' = Large /\ Whole' = Whole
      BY <1>4, CaseKept
    <3>2. page' = SubSeq(welcome, 1, i) \o ListOf(SubSeq(Shown, 1, n))
                    \o SubSeq(closing, 1, Len(tt))
      BY <1>6, <1>8 DEF Opening
    <3>3. Beginning'
      <4>1. ListOf(SubSeq(Shown, 1, n))' = ListOf(SubSeq(Shown, 1, n))
        BY <3>1 DEF ListOf
      <4>2. /\ n \in 0 .. Len(Shown') /\ i \in 0 .. Len(welcome')
            /\ Len(tt) \in 0 .. Len(closing')
            /\ page' = SubSeq(welcome', 1, i) \o ListOf(SubSeq(Shown, 1, n))'
                         \o SubSeq(closing', 1, Len(tt))
        BY <1>3, <1>4, <1>8, <3>1, <3>2, <4>1
      <4> QED
        BY <4>2 DEF Beginning
    <3> QED
      BY <2>3, <3>1, <3>3 DEF Assembled
  <2> QED
    BY <2>1, <2>4 DEF Parts
<1> QED
  BY <1>9, <1>10 DEF Unpacks

-----------------------------------------------------------------------------
(* The bookmarks are read.                                                 *)

LEMMA AtBookmarksFacts ==
    ASSUME Types, NEW i \in Nat, NEW k \in Nat, AtBookmarks(i, k)
    PROVE  /\ Listed(k) \in Seq(Seq(STRING))
           /\ SubSeq(welcome, 1, i) \in Seq(Char) /\ Len(SubSeq(welcome, 1, i)) = i
           /\ FlatMap(Listed(k), LineEnd) \in Seq(Char)
           /\ Len(FlatMap(Listed(k), LineEnd)) \in Nat
           /\ Len(FlatMap(Listed(k), LineEnd)) <= Len(ListOf(Shown))
           /\ Len(page) = i + Len(FlatMap(Listed(k), LineEnd))
           /\ Listed(k) = <<>> => page = SubSeq(welcome, 1, i) /\ Len(page) = i
           /\ Large => Room
<1>1. /\ i \in 0 .. Len(welcome) /\ k \in 0 .. Len(bookmarks) /\ Short(k)
      /\ page = SubSeq(welcome, 1, i) \o FlatMap(Listed(k), LineEnd)
      /\ res = Len(page) /\ (Large => i = Len(welcome))
  BY DEF AtBookmarks
<1>2. bookmarks \in Seq(Seq(STRING)) /\ Len(welcome) \in Nat /\ page \in Seq(Char)
  BY TypedTexts DEF Types
<1>3. Listed(k) \in Seq(Seq(STRING))
  BY <1>1, <1>2, ListedFacts
<1>4. SubSeq(welcome, 1, i) \in Seq(Char) /\ Len(SubSeq(welcome, 1, i)) = i
  <2>1. 0 \in 0 .. Len(Shown)
    BY WholeFacts
  <2> QED
    BY <1>1, <2>1, OpeningFacts
<1>5. FlatMap(Listed(k), LineEnd) \in Seq(Char) /\ Len(FlatMap(Listed(k), LineEnd)) \in Nat
  BY <1>3, ListIsFlatMap, LenProperties
<1>6. Len(FlatMap(Listed(k), LineEnd)) <= Len(ListOf(Shown))
  <2>1. PICK t \in Seq(Seq(STRING)) : Shown = Listed(k) \o t
    BY <1>1, <1>2, ListedIsShown
  <2>2. CASE Shown = <<>>
    <3>1. Listed(k) = <<>>
      <4>1. Len(Listed(k) \o t) = Len(Listed(k)) + Len(t)
        BY <1>3, ConcatProperties
      <4>2. Len(Listed(k)) \in Nat /\ Len(t) \in Nat /\ Len(Shown) = 0
        BY <1>3, <2>2, LenProperties, EmptySeq
      <4>3. Len(Listed(k)) = 0
        BY <2>1, <4>1, <4>2
      <4> QED
        BY <1>3, <4>3, EmptySeq
    <3>2. FlatMap(Listed(k), LineEnd) = <<>>
      BY <3>1, LineEndFacts, FlatMapEmpty
    <3>3. Len(ListOf(Shown)) \in Nat
      BY WholeFacts
    <3> QED
      BY <3>2, <3>3, EmptySeq
  <2>3. CASE Shown # <<>>
    <3>1. ListOf(Shown) = FlatMap(Shown, LineEnd)
      BY <2>3, WholeFacts, ListIsFlatMap
    <3>2. FlatMap(Listed(k) \o t, LineEnd) = FlatMap(Listed(k), LineEnd) \o FlatMap(t, LineEnd)
      BY <1>3, LineEndFacts, FlatMapConcat
    <3>3. FlatMap(t, LineEnd) \in Seq(Char) /\ Len(FlatMap(t, LineEnd)) \in Nat
      BY ListIsFlatMap, LenProperties
    <3>4. Len(FlatMap(Listed(k), LineEnd) \o FlatMap(t, LineEnd))
            = Len(FlatMap(Listed(k), LineEnd)) + Len(FlatMap(t, LineEnd))
      BY <1>5, <3>3, ConcatProperties
    <3> QED
      BY <1>5, <2>1, <3>1, <3>2, <3>3, <3>4
  <2> QED
    BY <2>2, <2>3
<1>7. Len(page) = i + Len(FlatMap(Listed(k), LineEnd))
  BY <1>1, <1>4, <1>5, ConcatProperties
<1>8. Listed(k) = <<>> => page = SubSeq(welcome, 1, i) /\ Len(page) = i
  <2> SUFFICES ASSUME Listed(k) = <<>> PROVE page = SubSeq(welcome, 1, i)
    BY <1>4
  <2>1. FlatMap(<<>>, LineEnd) = <<>>
    BY LineEndFacts, FlatMapEmpty
  <2>2. SubSeq(welcome, 1, i) \o <<>> = SubSeq(welcome, 1, i)
    BY <1>4, ConcatEmptySeq
  <2> QED
    BY <1>1, <2>1, <2>2
<1>9. Large => Room
  <2> SUFFICES ASSUME Large PROVE res + LineRoom <= buffer_max
    BY DEF Room
  <2>1. /\ Len(Whole) = Len(welcome) + Len(ListOf(Shown)) + Len(closing)
        /\ Len(ListOf(Shown)) \in Nat /\ Len(closing) \in Nat /\ buffer_max \in Nat
        /\ LineRoom \in Nat
    BY WholeFacts, TypedTexts
  <2>2. Len(Whole) + LineRoom + 1 < buffer_max
    BY DEF Large
  <2> QED
    BY <1>1, <1>2, <1>5, <1>6, <1>7, <2>1, <2>2
<1> QED
  BY <1>3, <1>4, <1>5, <1>6, <1>7, <1>8, <1>9

\* The line that is read: the next one of the file.
LEMMA NextLine ==
    ASSUME Types, NEW i \in Nat, NEW k \in Nat, AtBookmarks(i, k), lines # <<>>
    PROVE  /\ k + 1 \in 1 .. Len(bookmarks)
           /\ Head(lines) = bookmarks[k + 1] /\ Head(lines) \in Seq(STRING)
           /\ Tail(lines) = SubSeq(bookmarks, (k + 1) + 1, Len(bookmarks))
           /\ Listed(k + 1) = IF Head(lines) = <<>> THEN Listed(k)
                              ELSE Listed(k) \o <<Head(lines)>>
<1>1. /\ k \in 0 .. Len(bookmarks) /\ lines = SubSeq(bookmarks, k + 1, Len(bookmarks))
      /\ bookmarks \in Seq(Seq(STRING)) /\ Len(bookmarks) \in Nat
  BY TypedTexts DEF AtBookmarks
<1>2. k + 1 \in 1 .. Len(bookmarks)
  <2> SUFFICES ASSUME k = Len(bookmarks) PROVE FALSE
    BY <1>1
  <2>1. SubSeq(bookmarks, k + 1, Len(bookmarks)) = <<>>
    BY <1>1, SubSeqEmpty
  <2> QED
    BY <1>1, <2>1
<1>3. /\ Len(bookmarks) \in k + 1 .. Len(bookmarks)
      /\ k \in 0 .. Len(bookmarks) /\ (k + 1) - 1 = k
  BY <1>1, <1>2
<1>4. /\ Head(lines) = bookmarks[k + 1]
      /\ Tail(lines) = SubSeq(bookmarks, (k + 1) + 1, Len(bookmarks))
  BY <1>1, <1>2, <1>3, HeadTailOfSubSeq
<1>5. bookmarks[k + 1] \in Seq(STRING)
  BY <1>1, <1>2, ElementOfSeq
<1>6. SubSeq(bookmarks, 1, k + 1) = SubSeq(bookmarks, 1, k) \o <<bookmarks[k + 1]>>
  <2>1. 1 \in 1 .. Len(bookmarks) /\ k + 1 \in 1 .. Len(bookmarks)
    BY <1>1, <1>2
  <2>2. SubSeq(bookmarks, 1, k + 1) = SubSeq(bookmarks, 1, (k + 1) - 1) \o <<bookmarks[k + 1]>>
    BY <1>1, <2>1, SubSeqRecursiveSecond
  <2> QED
    BY <1>3, <2>2
<1>7. Listed(k + 1) = IF bookmarks[k + 1] = <<>> THEN Listed(k)
                      ELSE Listed(k) \o <<bookmarks[k + 1]>>
  <2>1. /\ SubSeq(bookmarks, 1, k) \in Seq(Seq(STRING)) /\ Listed(k) \in Seq(Seq(STRING))
        /\ <<bookmarks[k + 1]>> \in Seq(Seq(STRING))
    BY <1>1, <1>5, ListedFacts
  <2>2. /\ \A e \in Seq(STRING) :
              NotAmong(<<e>>, {<<>>}) = IF e \in {<<>>} THEN <<>> ELSE <<e>>
        /\ \A u, v \in Seq(Seq(STRING)) :
              NotAmong(u \o v, {<<>>}) = NotAmong(u, {<<>>}) \o NotAmong(v, {<<>>})
    BY NotAmongFacts
  <2>3. Listed(k + 1) = Listed(k) \o NotAmong(<<bookmarks[k + 1]>>, {<<>>})
    BY <1>6, <2>1, <2>2, Zenon DEF Listed
  <2>4. Listed(k) \o <<>> = Listed(k)
    BY <2>1, ConcatEmptySeq
  <2> QED
    BY <1>5, <2>2, <2>3, <2>4
<1> QED
  BY <1>2, <1>4, <1>5, <1>7

LEMMA ReadLineTypes ==
    ASSUME Inv, ReadLine
    PROVE  /\ Types'
           /\ Head(lines) \in Seq(STRING) /\ Len(Head(lines)) < LineRoom
           /\ Len(page') <= res + Len(Head(lines)) + 1
           /\ res' = Len(page') /\ part' = "bookmarks" /\ part = "bookmarks"
           /\ touched' \in {touched, res + Len(Head(lines)) + 1}
           /\ res + LineRoom <= buffer_max /\ res = Len(page)
<1>1. /\ part = "bookmarks" /\ Room /\ lines # <<>> /\ Len(Head(lines)) < LineRoom
      /\ page' = IF Head(lines) = <<>> THEN page ELSE page \o Head(lines) \o <<"lf">>
      /\ favcount' = IF Head(lines) = <<>> THEN favcount ELSE favcount + 1
      /\ res' = Len(page') /\ UNCHANGED <<case, part, packed>>
  BY DEF ReadLine, More
<1>2. PICK i \in Nat, k \in Nat : AtBookmarks(i, k)
  BY <1>1 DEF Inv, Parts
<1>3. Types
  BY DEF Inv
<1>4. Head(lines) \in Seq(STRING) /\ Head(lines) \in Seq(Char) /\ Len(Head(lines)) \in Nat
  BY <1>1, <1>2, <1>3, NextLine, TextsAreChars, LenProperties
<1>5. page \in Seq(Char) /\ <<"lf">> \in Seq(Char) /\ Len(<<"lf">>) = 1 /\ Len(page) \in Nat
      /\ res = Len(page)
  <2>1. "lf" \in Char
    BY DEF Char
  <2> QED
    BY <1>2, <1>3, <2>1, LenProperties DEF Types, AtBookmarks
<1>6. /\ page \o Head(lines) \o <<"lf">> \in Seq(Char)
      /\ Len(page \o Head(lines) \o <<"lf">>) = Len(page) + Len(Head(lines)) + 1
  <2>1. /\ page \o Head(lines) \in Seq(Char)
        /\ Len(page \o Head(lines)) = Len(page) + Len(Head(lines))
    BY <1>4, <1>5, ConcatProperties
  <2>2. /\ (page \o Head(lines)) \o <<"lf">> \in Seq(Char)
        /\ Len((page \o Head(lines)) \o <<"lf">>) = Len(page \o Head(lines)) + Len(<<"lf">>)
    BY <1>5, <2>1, ConcatProperties
  <2> QED
    BY <1>4, <1>5, <2>1, <2>2
<1>7. page' \in Seq(Char) /\ Len(page') <= res + Len(Head(lines)) + 1 /\ Len(page') \in Nat
  BY <1>1, <1>4, <1>5, <1>6, LenProperties
<1>8. touched' \in {touched, res + Len(Head(lines)) + 1}
  BY DEF ReadLine, Touch
<1>9. touched' \in Nat /\ favcount' \in Nat
  BY <1>1, <1>3, <1>4, <1>5, <1>8 DEF Types
<1>10. Types'
  BY <1>1, <1>3, <1>7, <1>9 DEF Types, case
<1> QED
  BY <1>1, <1>4, <1>5, <1>7, <1>8, <1>10 DEF Room

LEMMA ReadLineInv ==
    ASSUME Inv, ReadLine
    PROVE  Parts' /\ Held'
<1>1. /\ Types' /\ Head(lines) \in Seq(STRING) /\ Len(Head(lines)) < LineRoom
      /\ Len(page') <= res + Len(Head(lines)) + 1
      /\ res' = Len(page') /\ part' = "bookmarks" /\ part = "bookmarks"
      /\ touched' \in {touched, res + Len(Head(lines)) + 1}
      /\ res + LineRoom <= buffer_max /\ res = Len(page)
  BY ReadLineTypes
<1>2. /\ lines # <<>> /\ lines' = Tail(lines) /\ UNCHANGED case
      /\ page' = IF Head(lines) = <<>> THEN page ELSE page \o Head(lines) \o <<"lf">>
      /\ favcount' = IF Head(lines) = <<>> THEN favcount ELSE favcount + 1
  BY DEF ReadLine, More
<1>3. Types
  BY DEF Inv
<1>4. PICK i \in Nat, k \in Nat : AtBookmarks(i, k)
  BY <1>1 DEF Inv, Parts
<1>5. /\ i \in 0 .. Len(welcome) /\ k \in 0 .. Len(bookmarks) /\ Short(k)
      /\ favcount = Len(Listed(k))
      /\ page = SubSeq(welcome, 1, i) \o FlatMap(Listed(k), LineEnd)
      /\ Large => i = Len(welcome)
  BY <1>4 DEF AtBookmarks
<1>6. /\ k + 1 \in 1 .. Len(bookmarks)
      /\ Head(lines) = bookmarks[k + 1]
      /\ Tail(lines) = SubSeq(bookmarks, (k + 1) + 1, Len(bookmarks))
      /\ Listed(k + 1) = IF Head(lines) = <<>> THEN Listed(k)
                         ELSE Listed(k) \o <<Head(lines)>>
  BY <1>2, <1>3, <1>4, NextLine
<1>7. /\ Listed(k) \in Seq(Seq(STRING)) /\ SubSeq(welcome, 1, i) \in Seq(Char)
      /\ FlatMap(Listed(k), LineEnd) \in Seq(Char)
  BY <1>3, <1>4, AtBookmarksFacts
<1>8. Short(k + 1)
  <2> SUFFICES ASSUME NEW j \in 1 .. k + 1 PROVE Len(bookmarks[j]) < LineRoom
    BY DEF Short
  <2>1. j \in 1 .. k \/ j = k + 1
    OBVIOUS
  <2> QED
    BY <1>1, <1>5, <1>6, <2>1 DEF Short
<1>9. /\ favcount' = Len(Listed(k + 1))
      /\ page' = SubSeq(welcome, 1, i) \o FlatMap(Listed(k + 1), LineEnd)
  <2>1. CASE Head(lines) = <<>>
    BY <1>2, <1>5, <1>6, <2>1
  <2>2. CASE Head(lines) # <<>>
    <3> DEFINE line == Head(lines)
               lf == <<"lf">>
    <3>1. /\ Listed(k + 1) = Listed(k) \o <<line>>
          /\ <<line>> \in Seq(Seq(STRING)) /\ Len(<<line>>) = 1
      <4>1. Listed(k + 1) = Listed(k) \o <<line>> /\ line \in Seq(STRING)
        BY <1>1, <1>6, <2>2
      <4> HIDE DEF line
      <4> QED
        BY <4>1
    <3>2. Len(Listed(k + 1)) = Len(Listed(k)) + 1
      BY <1>7, <3>1, ConcatProperties
    <3>3. FlatMap(Listed(k + 1), LineEnd) = FlatMap(Listed(k), LineEnd) \o LineEnd[line]
      <4> HIDE DEF line
      <4>1. line \in Seq(STRING)
        BY <1>1 DEF line
      <4>2. FlatMap(<<line>>, LineEnd) = LineEnd[line]
        BY <4>1, LineEndFacts, FlatMapOne
      <4>3. FlatMap(Listed(k) \o <<line>>, LineEnd)
              = FlatMap(Listed(k), LineEnd) \o FlatMap(<<line>>, LineEnd)
        BY <1>7, <3>1, LineEndFacts, FlatMapConcat
      <4> QED
        BY <3>1, <4>2, <4>3
    <3>4. LineEnd[line] = line \o lf
      BY <1>1, LineEndFacts
    <3>5. line \in Seq(Char) /\ lf \in Seq(Char)
      <4>1. "lf" \in Char /\ line \in Seq(Char)
        BY <1>1, TextsAreChars DEF Char
      <4> HIDE DEF line
      <4> QED
        BY <4>1
    <3>6. page' = (page \o line) \o lf
      BY <1>2, <2>2
    <3> HIDE DEF line, lf
    <3>7. \A a, b, c \in Seq(Char) : (a \o b) \o c = a \o (b \o c)
      BY ConcatAssociative
    <3>8. page' = page \o LineEnd[line]
      <4>1. page \in Seq(Char)
        BY <1>3 DEF Types
      <4>2. line \in Seq(Char)
        BY <3>5
      <4>3. lf \in Seq(Char)
        BY <3>5
      <4>4. (page \o line) \o lf = page \o (line \o lf)
        BY <3>7, <4>1, <4>2, <4>3, Zenon
      <4> QED
        BY <3>4, <3>6, <4>4, Zenon
    <3>9. page' = SubSeq(welcome, 1, i) \o (FlatMap(Listed(k), LineEnd) \o LineEnd[line])
      <4>1. LineEnd[line] \in Seq(Char)
        BY <1>1, LineEndFacts DEF line
      <4>2. SubSeq(welcome, 1, i) \in Seq(Char)
        BY <1>7
      <4>3. FlatMap(Listed(k), LineEnd) \in Seq(Char)
        BY <1>7
      <4>4. (SubSeq(welcome, 1, i) \o FlatMap(Listed(k), LineEnd)) \o LineEnd[line]
              = SubSeq(welcome, 1, i) \o (FlatMap(Listed(k), LineEnd) \o LineEnd[line])
        BY <3>7, <4>1, <4>2, <4>3, Zenon
      <4>5. page = SubSeq(welcome, 1, i) \o FlatMap(Listed(k), LineEnd)
        BY <1>5
      <4> QED
        BY <3>8, <4>4, <4>5, Zenon
    <3> QED
      BY <1>2, <1>5, <2>2, <3>2, <3>3, <3>9
  <2> QED
    BY <2>1, <2>2
<1>10. AtBookmarks(i, k + 1)'
  <2>1. /\ Listed(k + 1)' = Listed(k + 1) /\ Short(k + 1)' = Short(k + 1) /\ Large' = Large
        /\ welcome' = welcome /\ bookmarks' = bookmarks
    BY <1>2, CaseKept DEF case
  <2>2. k + 1 \in 0 .. Len(bookmarks)
    BY <1>6
  <2> QED
    BY <1>1, <1>2, <1>5, <1>6, <1>8, <1>9, <2>1, <2>2 DEF AtBookmarks
<1>11. Parts'
  <2>1. k + 1 \in Nat
    OBVIOUS
  <2> QED
    BY <1>1, <1>10, <2>1 DEF Parts
<1>12. Held'
  <2>1. buffer_max' = buffer_max /\ Roomy' = Roomy /\ ~Unpacking'
    BY <1>1, <1>2, CaseKept DEF case, Unpacking
  <2>2. Roomy => touched <= buffer_max + 2
    BY DEF Inv, Held
  <2>3. /\ res \in Nat /\ Len(Head(lines)) \in Nat /\ LineRoom \in Nat /\ buffer_max \in Nat
        /\ touched \in Nat /\ Len(page') \in Nat
    BY <1>1, <1>3, TypedTexts, LenProperties DEF Types
  <2>4. Roomy => touched' <= buffer_max + 2 /\ res' <= buffer_max
    BY <1>1, <2>2, <2>3
  <2> QED
    BY <2>1, <2>4 DEF Held
<1> QED
  BY <1>11, <1>12

\* The list is complete, or the line that says there is nothing in it.
LEMMA BookmarksEndInv ==
    ASSUME Inv, BookmarksEnd
    PROVE  Types' /\ Parts' /\ Held'
<1>1. /\ part = "bookmarks" /\ (~Room \/ ~More)
      /\ page' = IF favcount = 0 THEN page \o NoBookmarks ELSE page
      /\ res' = Len(page') /\ part' = "closing" /\ packed' = processfile(closing)
      /\ UNCHANGED <<case, lines, favcount>>
  BY DEF BookmarksEnd
<1>2. PICK i \in Nat, k \in Nat : AtBookmarks(i, k)
  BY <1>1 DEF Inv, Parts
<1>3. Types
  BY DEF Inv
<1>4. /\ i \in 0 .. Len(welcome) /\ k \in 0 .. Len(bookmarks) /\ Short(k)
      /\ lines = SubSeq(bookmarks, k + 1, Len(bookmarks))
      /\ favcount = Len(Listed(k))
      /\ page = SubSeq(welcome, 1, i) \o FlatMap(Listed(k), LineEnd)
      /\ res = Len(page) /\ (Large => i = Len(welcome))
  BY <1>2 DEF AtBookmarks
<1>5. /\ Listed(k) \in Seq(Seq(STRING)) /\ FlatMap(Listed(k), LineEnd) \in Seq(Char)
      /\ SubSeq(welcome, 1, i) \in Seq(Char)
      /\ Listed(k) = <<>> => page = SubSeq(welcome, 1, i) /\ Len(page) = i
      /\ Large => Room
  BY <1>2, <1>3, AtBookmarksFacts
<1>6. /\ welcome \in Seq(STRING) /\ closing \in Seq(STRING) /\ closing \in Seq(Char)
      /\ bookmarks \in Seq(Seq(STRING)) /\ Len(bookmarks) \in Nat /\ page \in Seq(Char)
      /\ Len(page) \in Nat /\ NoBookmarks \in Seq(Char) /\ Len(NoBookmarks) \in Nat
      /\ Len(welcome) \in Nat /\ buffer_max \in Nat /\ LineRoom \in Nat
  BY <1>3, TypedTexts, TextsAreChars DEF Types
<1>7. PICK n \in Nat : n = Len(Listed(k))
  BY <1>5, LenProperties
<1>8. /\ n \in 0 .. Len(Shown) /\ SubSeq(Shown, 1, n) = Listed(k)
      /\ k = Len(bookmarks) \/ ~(Len(bookmarks[k + 1]) < LineRoom) => n = Len(Shown)
  <2>1. /\ \E t \in Seq(Seq(STRING)) : Shown = Listed(k) \o t
        /\ k = Len(bookmarks) \/ ~(Len(bookmarks[k + 1]) < LineRoom) => Listed(k) = Shown
    BY <1>4, <1>6, ListedIsShown
  <2>2. PICK t \in Seq(Seq(STRING)) : Shown = Listed(k) \o t
    BY <2>1
  <2>3. n \in 0 .. Len(Listed(k) \o t) /\ SubSeq(Listed(k) \o t, 1, n) = Listed(k)
    BY <1>5, <1>7, Prefix
  <2> QED
    BY <1>7, <2>1, <2>2, <2>3
<1>9. favcount = 0 <=> Listed(k) = <<>>
  BY <1>4, <1>5, EmptySeq
<1>10. page' = Opening(i, n)
  <2>1. ListOf(SubSeq(Shown, 1, n))
          = IF Listed(k) = <<>> THEN NoBookmarks ELSE FlatMap(Listed(k), LineEnd)
    BY <1>5, <1>8, ListIsFlatMap
  <2>2. CASE Listed(k) = <<>>
    BY <1>1, <1>5, <1>9, <2>1, <2>2 DEF Opening
  <2>3. CASE Listed(k) # <<>>
    BY <1>1, <1>4, <1>9, <2>1, <2>3 DEF Opening
  <2> QED
    BY <2>2, <2>3
<1>11. page' \in Seq(Char) /\ Len(page') \in Nat
       /\ (favcount = 0 => Len(page') = i + Len(NoBookmarks))
       /\ (favcount # 0 => Len(page') = Len(page))
  <2>1. page \o NoBookmarks \in Seq(Char)
        /\ Len(page \o NoBookmarks) = Len(page) + Len(NoBookmarks)
    BY <1>6, ConcatProperties
  <2>2. CASE favcount = 0
    <3>1. page' = page \o NoBookmarks /\ Len(page) = i
      BY <1>1, <1>5, <1>9, <2>2
    <3> QED
      BY <1>6, <2>1, <2>2, <3>1
  <2>3. CASE favcount # 0
    BY <1>1, <1>6, <2>3
  <2> QED
    BY <2>2, <2>3
<1>12. /\ packed' \in Seq(Chunk) /\ Remaining' = closing
  BY <1>1, <1>6, PackedIsText DEF Remaining
<1>13. touched' \in {touched, Len(page') + 1, res + LineRoom, 0}
       /\ (touched' # touched => touched' = IF favcount = 0 THEN Len(page') + 1
                                             ELSE IF Room THEN res + LineRoom ELSE 0)
  BY <1>1 DEF BookmarksEnd, Touch
<1>14. Types'
  <2>1. touched' \in Nat /\ res' \in Nat
    BY <1>1, <1>3, <1>4, <1>6, <1>11, <1>13 DEF Types
  <2> QED
    BY <1>1, <1>3, <1>11, <1>12, <2>1 DEF Types, case
<1>15. Large => n = Len(Shown)
  <2> SUFFICES ASSUME Large PROVE n = Len(Shown)
    OBVIOUS
  <2>1. ~More
    BY <1>1, <1>5
  <2>2. CASE lines = <<>>
    <3>1. k = Len(bookmarks)
      <4> SUFFICES ASSUME k < Len(bookmarks) PROVE FALSE
        BY <1>4, <1>6
      <4>1. k + 1 \in 1 .. Len(bookmarks) /\ Len(bookmarks) \in k + 1 .. Len(bookmarks)
        BY <1>4, <1>6
      <4>2. lines = <<bookmarks[k + 1]>> \o SubSeq(bookmarks, (k + 1) + 1, Len(bookmarks))
        BY <1>4, <1>6, <4>1, SubSeqRecursiveFirst
      <4>3. Len(lines) = IF k + 1 <= Len(bookmarks) THEN Len(bookmarks) - (k + 1) + 1 ELSE 0
        <5>1. \A j \in k + 1 .. Len(bookmarks) : j \in 1 .. Len(bookmarks)
          BY <4>1
        <5>2. \A j \in k + 1 .. Len(bookmarks) : bookmarks[j] \in Seq(STRING)
          BY <1>6, <5>1, ElementOfSeq
        <5>3. k + 1 \in Int /\ Len(bookmarks) \in Int
          BY <1>6
        <5> QED
          BY <1>4, <5>2, <5>3, SubSeqProperties
      <4>4. Len(lines) = 0
        BY <2>2, EmptySeq
      <4> QED
        BY <1>6, <4>1, <4>3, <4>4
    <3> QED
      BY <1>8, <3>1
  <2>3. CASE lines # <<>>
    <3>1. Head(lines) = bookmarks[k + 1] /\ ~(Len(Head(lines)) < LineRoom)
      BY <1>2, <1>3, <2>1, <2>3, NextLine DEF More
    <3> QED
      BY <1>8, <3>1
  <2> QED
    BY <2>2, <2>3
<1>16. AtClosing(i, n, <<>>)'
  <2>1. /\ Opening(i, n)' = Opening(i, n) /\ Shown' = Shown /\ Large' = Large
        /\ welcome' = welcome /\ closing' = closing
    BY <1>1, CaseKept DEF case
  <2>2. /\ page' \o <<>> = page' /\ <<>> \o closing = closing /\ <<>> \in Seq(Char)
    BY <1>6, <1>11, ConcatEmptySeq, EmptySeq
  <2> QED
    BY <1>1, <1>4, <1>8, <1>10, <1>12, <1>15, <2>1, <2>2 DEF AtClosing
<1>17. Parts'
  <2>1. <<>> \in Seq(Char)
    BY EmptySeq
  <2> QED
    BY <1>1, <1>16, <2>1 DEF Parts
<1>18. Held'
  <2>1. buffer_max' = buffer_max /\ Roomy' = Roomy
    BY <1>1, CaseKept DEF case
  <2>2. y' = 0
    BY <1>1, <1>11 DEF y
  <2> SUFFICES ASSUME Roomy PROVE touched' <= buffer_max + 2 /\ res' <= buffer_max
    BY <1>1, <2>1, <2>2 DEF Held
  <2>3. touched <= buffer_max + 2 /\ res <= buffer_max /\ touched \in Nat /\ res \in Nat
    BY <1>1, <1>3 DEF Inv, Held, Types
  <2>4. Len(welcome) + Len(NoBookmarks) + 2 <= buffer_max
    BY DEF Roomy
  <2>5. i <= Len(welcome)
    BY <1>4, <1>6
  <2>6. CASE favcount = 0
    BY <1>1, <1>6, <1>11, <1>13, <2>3, <2>4, <2>5, <2>6
  <2>7. CASE favcount # 0
    BY <1>1, <1>4, <1>6, <1>11, <1>13, <2>3, <2>7 DEF Room
  <2> QED
    BY <2>6, <2>7
<1> QED
  BY <1>14, <1>17, <1>18

LEMMA NextInv == Inv /\ [Next]_vars => Inv'
<1> SUFFICES ASSUME Inv, [Next]_vars PROVE Inv'
  OBVIOUS
<1>1. CASE UnpackChar \/ UnpackGram \/ AllUnpacked
  <2>1. PICK u \in Seq(Char), v \in Seq(Char) : Unpacking /\ Unpacks(u, v)
    BY <1>1, UnpackStep DEF Inv
  <2>2. Types' /\ Held'
    BY <2>1, UnpackTypes, UnpackHeld DEF Inv
  <2>3. Parts'
    BY <2>1, WelcomeUnpacked, ClosingUnpacked DEF Unpacking
  <2>4. part' \in {"welcome", "bookmarks", "closing", "done"}
    BY <2>1 DEF Unpacks, Goes, Stops, Inv
  <2> QED
    BY <2>2, <2>3, <2>4 DEF Inv
<1>2. CASE ReadLine
  BY <1>2, ReadLineTypes, ReadLineInv DEF Inv
<1>3. CASE BookmarksEnd
  <2>1. part' = "closing"
    BY <1>3 DEF BookmarksEnd
  <2> QED
    BY <1>3, <2>1, BookmarksEndInv DEF Inv
<1>4. CASE UNCHANGED vars
  <2>1. /\ UNCHANGED case /\ part' = part /\ packed' = packed /\ lines' = lines
        /\ page' = page /\ res' = res /\ favcount' = favcount /\ touched' = touched
        /\ welcome' = welcome /\ closing' = closing /\ bookmarks' = bookmarks
        /\ buffer_max' = buffer_max
    BY <1>4 DEF vars, case
  <2>2. Types'
    BY <2>1 DEF Inv, Types
  <2>3. Held'
    <3>1. y' = y /\ bufsz' = bufsz /\ Unpacking' = Unpacking /\ Roomy' = Roomy
      BY <2>1, CaseKept DEF y, bufsz, Unpacking
    <3> QED
      BY <2>1, <3>1 DEF Inv, Held
  <2>4. Parts'
    <3>1. /\ Shown' = Shown /\ Large' = Large /\ Whole' = Whole /\ Remaining' = Remaining
          /\ \A i, n : Opening(i, n)' = Opening(i, n)
          /\ \A k : Listed(k)' = Listed(k) /\ Short(k)' = Short(k)
      BY <2>1, CaseKept DEF Remaining
    <3>2. AtWelcome' = AtWelcome
      BY <2>1, <3>1 DEF AtWelcome
    <3>3. \A i, k \in Nat : AtBookmarks(i, k) => AtBookmarks(i, k)'
      BY <2>1, <3>1 DEF AtBookmarks
    <3>4. \A i, n \in Nat, t \in Seq(Char) : AtClosing(i, n, t) => AtClosing(i, n, t)'
      BY <2>1, <3>1 DEF AtClosing
    <3>5. Assembled' = Assembled
      BY <2>1, <3>1 DEF Assembled, Beginning, ListOf
    <3> QED
      BY <2>1, <3>2, <3>3, <3>4, <3>5 DEF Inv, Parts
  <2> QED
    BY <2>1, <2>2, <2>3, <2>4 DEF Inv
<1> QED
  BY <1>1, <1>2, <1>3, <1>4 DEF Next

-----------------------------------------------------------------------------
\* startpg.c:37-69 puts the page together of its three parts in their order,
\* whatever is packed and bookmarked, and loses nothing when the buffer has room.
THEOREM PageAssembled == Spec => []PageIsAssembled
<1>1. Inv => PageIsAssembled
  BY DEF Inv, Parts, Assembled, Large, PageIsAssembled
<1> QED
  BY <1>1, InitInv, NextInv, PTL DEF Spec

\* No byte behind the two after the buffer is written to while the page is made.
THEOREM InBuffer == Spec => []StaysInBuffer
<1>1. Inv => StaysInBuffer
  BY DEF Inv, Held, Roomy, StaysInBuffer
<1> QED
  BY <1>1, InitInv, NextInv, PTL DEF Spec
=============================================================================
