--------------------------- MODULE BookmarksProofs ---------------------------
(***************************************************************************)
(* The bookmarks file in whatever order places are added and deleted: no   *)
(* place is listed twice, what was saved leads back, and a deletion hits   *)
(* the line that was selected.  On the disk, delbookmark() removes its     *)
(* line and nothing else, and wherever it stops at most one other line is  *)
(* damaged: for every file, every line of it and every size of the chunks  *)
(* that are moved.                                                         *)
(***************************************************************************)
EXTENDS Bookmarks, BookmarkDelete, SequenceTheorems, Induction, TLAPS

-----------------------------------------------------------------------------
(* The lines there can be.                                                 *)

LinesOf(lines) == {lines[i] : i \in DOMAIN lines}
AnyLine == (UNION {LinesOf(lines) : lines \in Files \cup {Defaults}})
            \cup {LineOf(loc) : loc \in Locations}

PlaceOf(line) == LeadsTo(Entry(line))
Distinct(lines) ==
    \A i, j \in Legible(lines) :
        Plain(lines[i]) /\ Plain(lines[j])
           /\ Similar(PlaceOf(lines[i]), PlaceOf(lines[j]))
          => i = j

\* A line that is not printed from a query names its place.
Names(line) ==
    Plain(line) => Has(line, 1) /\ Has(line, 2) /\ Port(line) # 0

LEMMA NumberReadsBack ==
    ASSUME NEW p \in Ports
    PROVE  Number(ToString(p)) = p /\ p # 0 /\ p \in Int
BY BookmarksAssumption DEF BookmarksAssumption, Number, Ports

\* The columns that are printed.
LEMMA PrintedColumns ==
    ASSUME NEW loc \in Locations
    PROVE  /\ Len(loc.selector) \in Nat /\ Len(loc.selector) >= 1
           /\ Len(LineOf(loc).columns) = 2 * Len(loc.selector) + 1
           /\ Len(loc.selector) = 1 =>
                /\ LineOf(loc).columns[1] = loc.selector[1]
                /\ LineOf(loc).columns[2] = loc.host
                /\ LineOf(loc).columns[3] = ToString(loc.port)
           /\ Len(loc.selector) > 1 =>
                \E i \in 1 .. Len(loc.selector) :
                    LineOf(loc).columns[3] = loc.selector[i]
<1> DEFINE T == STRING \cup {ToString(p) : p \in Ports}
           sel == loc.selector
           end == <<loc.host, ToString(loc.port)>>
           both == Tail(sel) \o sel
<1>1. /\ sel \in Seq(STRING) /\ sel # <<>> /\ loc.host \in T
      /\ ToString(loc.port) \in T
  BY BookmarksAssumption DEF BookmarksAssumption, IsLocation
<1>2. sel \in Seq(T) /\ end \in Seq(T) /\ Len(end) = 2
      /\ end[1] = loc.host /\ end[2] = ToString(loc.port)
  <2>1. STRING \subseteq T
    OBVIOUS
  <2>2. sel \in Seq(T)
    BY <1>1, <2>1, SeqMonotonic
  <2> HIDE DEF T
  <2> QED
    BY <1>1, <2>2
<1>3. LineOf(loc).columns = both \o end
  BY DEF LineOf
<1> HIDE DEF T, end
<1>4. /\ Len(sel) \in Nat /\ Len(sel) >= 1
      /\ Tail(sel) \in Seq(T) /\ Len(Tail(sel)) = Len(sel) - 1
      /\ \A i \in 1 .. Len(sel) - 1 : Tail(sel)[i] = sel[i + 1]
  <2>1. Len(sel) \in Nat \ {0}
    BY <1>1, <1>2, EmptySeq
  <2> QED
    BY <1>1, <1>2, <2>1, HeadTailProperties
<1>5. PICK n \in Nat : n = Len(sel) /\ n >= 1
  BY <1>4
<1>6. /\ both \in Seq(T) /\ Len(both) = (n - 1) + n
      /\ \A i \in 1 .. (n - 1) + n :
           both[i] = IF i <= n - 1 THEN Tail(sel)[i] ELSE sel[i - (n - 1)]
  BY <1>2, <1>4, <1>5, ConcatProperties
<1> HIDE DEF both, sel
<1>7. /\ Len(both \o end) = ((n - 1) + n) + 2
      /\ \A i \in 1 .. ((n - 1) + n) + 2 :
           (both \o end)[i] = IF i <= (n - 1) + n THEN both[i]
                              ELSE end[i - ((n - 1) + n)]
  <2>1. /\ Len(both \o end) = Len(both) + Len(end)
        /\ \A i \in 1 .. Len(both) + Len(end) :
             (both \o end)[i] = IF i <= Len(both) THEN both[i]
                                ELSE end[i - Len(both)]
    BY <1>2, <1>6, ConcatProperties
  <2> QED
    BY <1>2, <1>6, <2>1, Zenon
<1>8. Len(LineOf(loc).columns) = 2 * n + 1
  BY <1>3, <1>5, <1>7
<1>9. ASSUME n = 1
      PROVE  /\ LineOf(loc).columns[1] = sel[1]
             /\ LineOf(loc).columns[2] = loc.host
             /\ LineOf(loc).columns[3] = ToString(loc.port)
  <2>1. both[1] = sel[1]
    BY <1>6, <1>9
  <2>2. /\ (both \o end)[1] = both[1] /\ (both \o end)[2] = end[1]
        /\ (both \o end)[3] = end[2]
    BY <1>7, <1>9
  <2> QED
    BY <1>2, <1>3, <2>1, <2>2
<1>10. ASSUME n > 1
       PROVE  \E i \in 1 .. n : LineOf(loc).columns[3] = sel[i]
  <2>1. (both \o end)[3] = both[3]
    BY <1>5, <1>7, <1>10
  <2>2. CASE 3 <= n - 1
    <3>1. both[3] = Tail(sel)[3]
      BY <1>5, <1>6, <2>2
    <3>2. 3 \in 1 .. n - 1 /\ 4 \in 1 .. n /\ 3 + 1 = 4
      BY <1>5, <2>2
    <3>3. Tail(sel)[3] = sel[3 + 1]
      BY <1>4, <1>5, <3>2 DEF sel
    <3> QED
      BY <1>3, <2>1, <3>1, <3>2, <3>3
  <2>3. CASE ~(3 <= n - 1)
    <3>1. PICK i \in 1 .. n : i = 3 - (n - 1)
      BY <1>5, <1>10, <2>3
    <3>2. both[3] = sel[i]
      BY <1>5, <1>6, <1>10, <2>3, <3>1
    <3> QED
      BY <1>3, <2>1, <3>2
  <2> QED
    BY <2>2, <2>3
<1> QED
  BY <1>5, <1>8, <1>9, <1>10 DEF sel

\* What is printed for a place that can be expressed is that place.
LEMMA PrintedPlace ==
    ASSUME NEW loc \in Locations, Len(loc.selector) = 1
    PROVE  /\ Port(LineOf(loc)) = loc.port /\ loc.port # 0
           /\ Has(LineOf(loc), 1) /\ Has(LineOf(loc), 2)
           /\ Host(LineOf(loc)) = loc.host
           /\ <<Selector(LineOf(loc))>> = loc.selector
           /\ LineOf(loc).type = loc.type
<1>1. /\ Len(LineOf(loc).columns) = 3
      /\ LineOf(loc).columns[1] = loc.selector[1]
      /\ LineOf(loc).columns[2] = loc.host
      /\ LineOf(loc).columns[3] = ToString(loc.port)
  <2>1. 2 * 1 + 1 = 3
    OBVIOUS
  <2> QED
    BY <2>1, PrintedColumns, Zenon
<1>2. loc.port \in Ports /\ loc.selector \in Seq(STRING)
  BY BookmarksAssumption DEF BookmarksAssumption, IsLocation
<1>3. <<loc.selector[1]>> = loc.selector
  <2>1. loc.selector[1] \in STRING
    BY <1>2, ElementOfSeq
  <2>2. <<loc.selector[1]>> \in Seq(STRING) /\ Len(<<loc.selector[1]>>) = 1
        /\ <<loc.selector[1]>>[1] = loc.selector[1]
    BY <2>1
  <2>3. \A i \in 1 .. 1 : <<loc.selector[1]>>[i] = loc.selector[i]
    BY <2>2
  <2> QED
    BY <1>2, <2>2, <2>3, SeqEqual
<1>4. Has(LineOf(loc), 1) /\ Has(LineOf(loc), 2) /\ Has(LineOf(loc), 3)
  BY <1>1 DEF Has
<1>5. Port(LineOf(loc)) = loc.port /\ loc.port # 0
  BY <1>1, <1>2, <1>4, NumberReadsBack DEF Port
<1>6. LineOf(loc).type = loc.type
  BY DEF LineOf
<1> QED
  BY <1>1, <1>3, <1>4, <1>5, <1>6 DEF Host, Selector

\* What is printed for a query is not read back as a place.
LEMMA PrintedQuery ==
    ASSUME NEW loc \in Locations, Len(loc.selector) # 1
    PROVE  ~Plain(LineOf(loc)) /\ Port(LineOf(loc)) = 0
<1>0. Len(loc.selector) \in Nat /\ Len(loc.selector) >= 1
  BY PrintedColumns
<1>1. PICK n \in Nat : n = Len(loc.selector) /\ n > 1
  <2>1. PICK n \in Nat : n = Len(loc.selector)
    BY <1>0, Zenon
  <2>2. n # 1 /\ n >= 1
    BY <1>0, <2>1, Zenon
  <2>3. n > 1
    BY <2>2
  <2> QED
    BY <2>1, <2>3, Zenon
<1>2. Len(LineOf(loc).columns) = 2 * n + 1
  BY <1>1, PrintedColumns
<1>3. Len(LineOf(loc).columns) > 3
  BY <1>1, <1>2
<1>4. Has(LineOf(loc), 3) /\ ~Plain(LineOf(loc))
  BY <1>2, <1>3, <1>1 DEF Has, Plain
<1>5. PICK i \in 1 .. Len(loc.selector) :
        LineOf(loc).columns[3] = loc.selector[i]
  BY <1>1, PrintedColumns
<1>6. Number(LineOf(loc).columns[3]) = 0
  BY <1>1, <1>5, QueriesAssumption DEF QueriesAssumption
<1> QED
  BY <1>4, <1>6 DEF Port

LEMMA LinesName ==
    ASSUME NEW line \in AnyLine
    PROVE  Names(line)
<1>1. CASE \E loc \in Locations : line = LineOf(loc)
  <2>1. PICK loc \in Locations : line = LineOf(loc)
    BY <1>1
  <2>2. CASE Len(loc.selector) = 1
    BY <2>1, <2>2, PrintedPlace DEF Names
  <2>3. CASE Len(loc.selector) # 1
    <3>0. Len(loc.selector) \in Nat /\ Len(loc.selector) >= 1
      BY PrintedColumns
    <3>1. PICK n \in Nat : n = Len(loc.selector) /\ n > 1
      <4>1. PICK n \in Nat : n = Len(loc.selector)
        BY <3>0, Zenon
      <4>2. n # 1 /\ n >= 1
        BY <2>3, <3>0, <4>1, Zenon
      <4>3. n > 1
        BY <4>2
      <4> QED
        BY <4>1, <4>3, Zenon
    <3>2. Len(line.columns) = 2 * n + 1
      BY <2>1, <3>1, PrintedColumns
    <3>3. Len(line.columns) > 3 /\ Len(line.columns) \in Nat
      BY <3>1, <3>2
    <3> QED
      BY <3>3 DEF Names, Plain
  <2> QED
    BY <2>2, <2>3
<1>2. CASE \E lines \in Files \cup {Defaults} : line \in LinesOf(lines)
  <2>1. PICK lines \in Files \cup {Defaults} : line \in LinesOf(lines)
    BY <1>2
  <2>2. IsFile(lines)
    BY BookmarksAssumption DEF BookmarksAssumption
  <2>3. DOMAIN lines = 1 .. Len(lines)
    BY <2>2, LenProperties DEF IsFile
  <2>4. IsLine(line)
    BY <2>1, <2>2, <2>3 DEF IsFile, LinesOf
  <2> QED
    BY <2>4 DEF IsLine, Names, Plain, Has
<1> QED
  BY <1>1, <1>2 DEF AnyLine

LEMMA FilesFacts ==
    ASSUME NEW lines \in Files \cup {Defaults}
    PROVE  lines \in Seq(AnyLine) /\ Distinct(lines)
<1>1. IsFile(lines)
  BY BookmarksAssumption DEF BookmarksAssumption
<1>2. lines \in Seq(LinesOf(lines))
  BY <1>1 DEF IsFile, LinesOf
<1>3. LinesOf(lines) \subseteq AnyLine
  BY DEF AnyLine
<1> QED
  BY <1>1, <1>2, <1>3, SeqMonotonic DEF IsFile, Distinct, PlaceOf

\* What the page shows of a line that names its place.
LEMMA EntryFacts ==
    ASSUME NEW line, Names(line), Plain(line)
    PROVE  /\ Entry(line) = [type |-> line.type, selector |-> Selector(line),
                             host |-> Host(line), port |-> Port(line)]
           /\ PlaceOf(line).port = Port(line) /\ PlaceOf(line).host = Host(line)
           /\ PlaceOf(line).selector = <<Selector(line)>>
<1>1. Has(line, 1) /\ Has(line, 2) /\ Port(line) # 0
  BY DEF Names
<1>2. Entry(line) = [type |-> line.type, selector |-> Selector(line),
                     host |-> Host(line), port |-> Port(line)]
  BY <1>1 DEF Entry
<1> QED
  BY <1>2 DEF PlaceOf, LeadsTo

-----------------------------------------------------------------------------
(* AnyLine go from the file and are added to it.                             *)

LEMMA RemoveAtFacts ==
    ASSUME NEW S, NEW s \in Seq(S), NEW k \in 1 .. Len(s)
    PROVE  /\ RemoveAt(s, k) \in Seq(S)
           /\ Len(RemoveAt(s, k)) = Len(s) - 1
           /\ \A i \in 1 .. Len(s) - 1 :
                RemoveAt(s, k)[i] = s[IF i < k THEN i ELSE i + 1]
<1>1. PICK n \in Nat : n = Len(s) /\ k \in 1 .. n /\ k \in Int
  BY LenProperties
<1> DEFINE left == SubSeq(s, 1, k - 1)
           right == SubSeq(s, k + 1, n)
<1>2. \A i \in 1 .. n : s[i] \in S
  BY <1>1, ElementOfSeq
<1>3. /\ left \in Seq(S) /\ Len(left) = k - 1
      /\ \A i \in 1 .. k - 1 : left[i] = s[i]
  <2>1. 1 \in Int /\ k - 1 \in Int /\ \A i \in 1 .. k - 1 : i \in 1 .. n
    BY <1>1
  <2>2. /\ left \in Seq(S) /\ Len(left) = IF 1 <= k - 1 THEN (k - 1) - 1 + 1 ELSE 0
        /\ \A i \in 1 .. (k - 1) - 1 + 1 : left[i] = s[1 + i - 1]
    BY <1>2, <2>1, SubSeqProperties
  <2>3. /\ (IF 1 <= k - 1 THEN (k - 1) - 1 + 1 ELSE 0) = k - 1
        /\ (k - 1) - 1 + 1 = k - 1
        /\ \A i \in 1 .. k - 1 : 1 + i - 1 = i
    BY <1>1
  <2> HIDE DEF left
  <2> QED
    BY <2>2, <2>3
<1>4. /\ right \in Seq(S) /\ Len(right) = n - k
      /\ \A i \in 1 .. n - k : right[i] = s[k + i]
  <2>1. k + 1 \in Int /\ n \in Int /\ \A i \in k + 1 .. n : i \in 1 .. n
    BY <1>1
  <2>2. /\ right \in Seq(S)
        /\ Len(right) = IF k + 1 <= n THEN n - (k + 1) + 1 ELSE 0
        /\ \A i \in 1 .. n - (k + 1) + 1 : right[i] = s[(k + 1) + i - 1]
    BY <1>2, <2>1, SubSeqProperties
  <2>3. /\ (IF k + 1 <= n THEN n - (k + 1) + 1 ELSE 0) = n - k
        /\ n - (k + 1) + 1 = n - k
        /\ \A i \in 1 .. n - k : (k + 1) + i - 1 = k + i
    BY <1>1
  <2> HIDE DEF right
  <2> QED
    BY <2>2, <2>3
<1>5. RemoveAt(s, k) = left \o right
  BY <1>1 DEF RemoveAt
<1> HIDE DEF left, right
<1>6. /\ left \o right \in Seq(S) /\ Len(left \o right) = (k - 1) + (n - k)
      /\ \A i \in 1 .. (k - 1) + (n - k) :
           (left \o right)[i] = IF i <= k - 1 THEN left[i] ELSE right[i - (k - 1)]
  <2>1. /\ left \o right \in Seq(S) /\ Len(left \o right) = Len(left) + Len(right)
        /\ \A i \in 1 .. Len(left) + Len(right) :
             (left \o right)[i] = IF i <= Len(left) THEN left[i]
                                 ELSE right[i - Len(left)]
    BY <1>3, <1>4, ConcatProperties
  <2> QED
    BY <1>3, <1>4, <2>1, Zenon
<1>7. (k - 1) + (n - k) = n - 1
  BY <1>1
<1>8. ASSUME NEW i \in 1 .. n - 1
      PROVE  (left \o right)[i] = s[IF i < k THEN i ELSE i + 1]
  <2>1. CASE i < k
    <3>1. i \in 1 .. k - 1 /\ i <= k - 1
      BY <1>1, <2>1
    <3>2. (left \o right)[i] = left[i]
      BY <1>6, <1>7, <3>1
    <3> QED
      BY <1>3, <2>1, <3>1, <3>2
  <2>2. CASE ~(i < k)
    <3>1. PICK j \in 1 .. n - k : j = i - (k - 1)
      BY <1>1, <2>2
    <3>2. ~(i <= k - 1) /\ k + j = i + 1
      BY <1>1, <2>2, <3>1
    <3>3. (left \o right)[i] = right[j]
      BY <1>6, <1>7, <3>1, <3>2
    <3> QED
      BY <1>4, <2>2, <3>2, <3>3
  <2> QED
    BY <2>1, <2>2
<1> QED
  BY <1>1, <1>5, <1>6, <1>7, <1>8

\* The lines that are read are lines of the file.
LEMMA LegibleFacts ==
    ASSUME NEW lines \in Seq(AnyLine), NEW i \in Legible(lines)
    PROVE  /\ i \in 1 .. Len(lines) /\ i \in Nat
           /\ \A j \in 1 .. i : ~TooLong(lines[j])
<1>1. Len(lines) \in Nat
  BY LenProperties
<1> QED
  BY <1>1 DEF Legible

LEMMA DistinctWithoutOne ==
    ASSUME NEW lines \in Seq(AnyLine), Distinct(lines), NEW k \in Legible(lines)
    PROVE  Distinct(RemoveAt(lines, k))
<1> DEFINE rest == RemoveAt(lines, k)
<1>0. k \in 1 .. Len(lines) /\ \A l \in 1 .. k : ~TooLong(lines[l])
  BY LegibleFacts
<1>1. /\ Len(rest) = Len(lines) - 1 /\ Len(lines) \in Nat
      /\ \A i \in 1 .. Len(lines) - 1 :
           rest[i] = lines[IF i < k THEN i ELSE i + 1]
  BY <1>0, RemoveAtFacts, LenProperties
<1> HIDE DEF rest
<1> SUFFICES ASSUME NEW i \in Legible(rest), NEW j \in Legible(rest),
                    Plain(rest[i]), Plain(rest[j]),
                    Similar(PlaceOf(rest[i]), PlaceOf(rest[j]))
             PROVE  i = j
  BY DEF Distinct, rest
<1>2. PICK n \in Nat : n = Len(lines)
  BY LenProperties
<1>3. i \in 1 .. n - 1 /\ j \in 1 .. n - 1 /\ k \in 1 .. n
  BY <1>0, <1>1, <1>2 DEF Legible
<1>4. PICK u \in 1 .. n : u = IF i < k THEN i ELSE i + 1
  BY <1>3
<1>5. PICK v \in 1 .. n : v = IF j < k THEN j ELSE j + 1
  BY <1>3
<1>6. rest[i] = lines[u] /\ rest[j] = lines[v]
  BY <1>1, <1>2, <1>3, <1>4, <1>5, Zenon
<1>7. ASSUME NEW p \in Legible(rest), p \in 1 .. n - 1,
             NEW q \in 1 .. n, q = IF p < k THEN p ELSE p + 1
      PROVE  q \in Legible(lines)
  <2>1. ASSUME NEW l \in 1 .. q PROVE ~TooLong(lines[l])
    <3>1. CASE l <= k
      <4>1. l \in 1 .. k
        BY <3>1
      <4> QED
        BY <1>0, <4>1
    <3>2. CASE l > k
      <4>1. PICK m \in 1 .. p : m = l - 1 /\ ~(m < k) /\ l = m + 1 /\ m \in 1 .. n - 1
        BY <1>3, <1>7, <3>2
      <4>2. rest[m] = lines[l]
        BY <1>1, <1>2, <4>1, Zenon
      <4>3. ~TooLong(rest[m])
        BY <4>1 DEF Legible
      <4> QED
        BY <4>2, <4>3
    <3> QED
      BY <1>3, <3>1, <3>2
  <2> QED
    BY <1>2, <1>7, <2>1 DEF Legible
<1>8. u = v
  BY <1>3, <1>4, <1>5, <1>6, <1>7 DEF Distinct
<1> QED
  BY <1>3, <1>4, <1>5, <1>8

LEMMA DistinctWithOneMore ==
    ASSUME NEW loc \in Locations, file \in Seq(AnyLine), Distinct(file),
           ~AlreadyThere(loc)
    PROVE  Distinct(Append(file, LineOf(loc)))
<1> DEFINE line == LineOf(loc)
           more == Append(file, line)
<1>1. line \in AnyLine
  BY DEF AnyLine
<1>2. /\ Len(file) \in Nat /\ Len(more) = Len(file) + 1
      /\ \A i \in 1 .. Len(file) : more[i] = file[i]
      /\ more[Len(file) + 1] = line
  BY <1>1, AppendProperties, LenProperties
<1>3. ASSUME NEW i \in Legible(file), Plain(file[i]), Plain(line)
      PROVE  ~Similar(PlaceOf(file[i]), PlaceOf(line))
             /\ ~Similar(PlaceOf(line), PlaceOf(file[i]))
  <2>1. Len(loc.selector) = 1
    <3>1. PICK n \in Nat : n = Len(loc.selector) /\ n >= 1
      BY PrintedColumns
    <3>2. Len(line.columns) = 2 * n + 1
      BY <3>1, PrintedColumns
    <3>3. 2 * n + 1 <= 3
      BY <1>3, <3>2, Zenon DEF Plain
    <3>4. \A m \in Nat : m >= 1 /\ 2 * m + 1 <= 3 => m = 1
      OBVIOUS
    <3>5. n = 1
      BY <3>1, <3>3, <3>4, Zenon
    <3> QED
      BY <3>1, <3>5
  <2>2. /\ Port(line) = loc.port /\ Host(line) = loc.host
        /\ <<Selector(line)>> = loc.selector
    BY <2>1, PrintedPlace
  <2>3. Names(line) /\ Names(file[i])
    <3>1. file[i] \in AnyLine
      BY LegibleFacts, ElementOfSeq
    <3> QED
      BY <1>1, <3>1, LinesName
  <2>4. ~Same(file[i], loc) /\ Has(file[i], 2)
    BY <1>3, <2>3 DEF AlreadyThere, Names
  <2> HIDE DEF line
  <2>5. /\ PlaceOf(line).port = loc.port /\ PlaceOf(line).host = loc.host
        /\ PlaceOf(line).selector = loc.selector
    BY <1>3, <2>2, <2>3, EntryFacts
  <2>6. /\ PlaceOf(file[i]).port = Port(file[i])
        /\ PlaceOf(file[i]).host = Host(file[i])
        /\ PlaceOf(file[i]).selector = <<Selector(file[i])>>
    BY <1>3, <2>3, EntryFacts
  <2> QED
    BY <2>4, <2>5, <2>6 DEF Similar, Same
<1> HIDE DEF line, more
<1> SUFFICES ASSUME NEW i \in Legible(more), NEW j \in Legible(more),
                    Plain(more[i]), Plain(more[j]),
                    Similar(PlaceOf(more[i]), PlaceOf(more[j]))
             PROVE  i = j
  BY DEF Distinct, line, more
<1>4. ASSUME NEW l \in Legible(more)
      PROVE  (l \in Legible(file) /\ l \in 1 .. Len(file)) \/ l = Len(file) + 1
  <2>1. l \in 1 .. Len(file) + 1 /\ \A m \in 1 .. l : ~TooLong(more[m])
    BY <1>2 DEF Legible
  <2>2. CASE l \in 1 .. Len(file)
    <3>1. \A m \in 1 .. l : m \in 1 .. Len(file)
      BY <1>2, <2>2
    <3> QED
      BY <1>2, <2>1, <2>2, <3>1 DEF Legible
  <2> QED
    BY <1>2, <2>1, <2>2
<1>5. CASE i \in Legible(file) /\ j \in Legible(file)
  <2>1. more[i] = file[i] /\ more[j] = file[j]
    BY <1>2, <1>5 DEF Legible
  <2> QED
    BY <1>5, <2>1 DEF Distinct
<1>6. CASE i \in Legible(file) /\ j = Len(file) + 1
  <2>1. more[i] = file[i] /\ more[j] = line
    BY <1>2, <1>6 DEF Legible
  <2> QED
    BY <1>3, <1>6, <2>1
<1>7. CASE i = Len(file) + 1 /\ j \in Legible(file)
  <2>1. more[j] = file[j] /\ more[i] = line
    BY <1>2, <1>7 DEF Legible
  <2> QED
    BY <1>3, <1>7, <2>1
<1> QED
  BY <1>4, <1>5, <1>6, <1>7

\* What counts as bookmarked is a line of that place.
LEMMA SameIsSimilar ==
    ASSUME NEW line, NEW loc \in Locations, Same(line, loc), Len(line.columns) \in Nat
    PROVE  Similar(PlaceOf(line), loc)
<1>1. Port(line) = loc.port /\ loc.port # 0
  BY NumberReadsBack, BookmarksAssumption DEF BookmarksAssumption, IsLocation, Same, Ports
<1>2. Has(line, 2) /\ Has(line, 1)
  BY DEF Same, Has
<1>3. PlaceOf(line) = [proto |-> "gopher", type |-> line.type, host |-> Host(line),
                       port |-> loc.port, selector |-> <<Selector(line)>>]
  BY <1>1, <1>2 DEF PlaceOf, LeadsTo, Entry
<1> QED
  BY <1>3 DEF Similar, Same

\* delbookmark() takes out a line that agrees with the entry, if there is one.
LEMMA WithoutFacts ==
    ASSUME NEW lines \in Seq(AnyLine), NEW entry
    PROVE  \/ /\ Without(lines, entry) = lines
              /\ \A i \in Legible(lines) : ~Agrees(lines[i], entry)
           \/ \E k \in Legible(lines) :
                /\ Agrees(lines[k], entry)
                /\ Without(lines, entry) = RemoveAt(lines, k)
<1> DEFINE hits == {i \in Legible(lines) : Agrees(lines[i], entry)}
<1>1. Without(lines, entry) = IF hits = {} THEN lines ELSE RemoveAt(lines, Min(hits))
  BY DEF Without
<1>2. CASE hits = {}
  BY <1>1, <1>2
<1>3. CASE hits # {}
  <2>1. hits \subseteq Nat
    BY LegibleFacts
  <2>2. \E m \in hits : \A n \in hits : m <= n
    BY <1>3, <2>1, LeastNumber
  <2>3. Min(hits) \in hits
    BY <2>2 DEF Min
  <2> QED
    BY <1>1, <1>3, <2>3
<1> QED
  BY <1>2, <1>3

-----------------------------------------------------------------------------
(* The invariant: the file has known lines, and before there is one nothing *)
(* was answered.                                                           *)

Inv ==
    /\ file \in Seq(AnyLine)
    /\ Distinct(file)
    /\ answer # "none" \/ page # NotShown => exists
    /\ SavedLeadsBack

LEMMA InitInv == Init => Inv
<1> SUFFICES ASSUME Init PROVE Inv
  OBVIOUS
<1>1. answer = "none" /\ page = NotShown
  BY DEF Init
<1>2. CASE file = <<>>
  <2>1. file \in Seq(AnyLine) /\ Len(file) = 0
    BY <1>2
  <2>2. 1 .. Len(file) = {}
    BY <2>1
  <2> QED
    BY <1>1, <2>1, <2>2 DEF Inv, Distinct, SavedLeadsBack, Legible
<1>3. CASE file \in Files
  BY <1>1, <1>3, FilesFacts DEF Inv, SavedLeadsBack
<1> QED
  BY <1>2, <1>3 DEF Init

LEMMA AddKeeps ==
    ASSUME Inv, NEW loc \in Locations, AddBookmark(loc)
    PROVE  Inv'
<1>1. exists' /\ file \in Seq(AnyLine) /\ Distinct(file) /\ asked' = loc
  BY DEF Inv, AddBookmark
<1>2. CASE AlreadyThere(loc)
  <2>1. file' = file /\ answer' = "already"
    BY <1>2 DEF AddBookmark
  <2>2. PICK i \in Legible(file) : Same(file[i], loc)
    BY <1>2 DEF AlreadyThere
  <2>3. Similar(PlaceOf(file[i]), loc)
    BY <1>1, <2>2, SameIsSimilar, LegibleFacts
  <2>4. SavedLeadsBack'
    <3>1. Places' = Places /\ Legible(file)' = Legible(file)
      BY <2>1 DEF Places, Legible
    <3>2. Places[i] = PlaceOf(file[i])
      BY <1>1, <2>2, LegibleFacts DEF Places, PlaceOf
    <3> QED
      BY <1>1, <2>1, <2>2, <2>3, <3>1, <3>2 DEF SavedLeadsBack
  <2>5. Distinct(file)'
    BY <1>1, <2>1 DEF Distinct, Legible
  <2> QED
    BY <1>1, <2>1, <2>4, <2>5 DEF Inv
<1>3. CASE ~AlreadyThere(loc)
  <2>1. file' = Append(file, LineOf(loc)) /\ LineOf(loc) \in AnyLine
    BY <1>3 DEF AddBookmark, AnyLine
  <2>2. /\ Len(file) \in Nat /\ file' \in Seq(AnyLine)
        /\ Len(file') = Len(file) + 1 /\ file'[Len(file) + 1] = LineOf(loc)
    BY <1>1, <2>1, AppendProperties, LenProperties
  <2>3. Distinct(file')
    BY <1>1, <1>3, <2>1, DistinctWithOneMore
  <2>4. ASSUME Expressible(loc)
        PROVE  PlaceOf(LineOf(loc)) = loc
    <3>1. Len(loc.selector) = 1 /\ loc.proto = "gopher"
      BY <2>4 DEF Expressible
    <3>2. /\ Port(LineOf(loc)) = loc.port /\ loc.port # 0
          /\ Has(LineOf(loc), 1) /\ Has(LineOf(loc), 2)
          /\ Host(LineOf(loc)) = loc.host
          /\ <<Selector(LineOf(loc))>> = loc.selector
          /\ LineOf(loc).type = loc.type
      BY <3>1, PrintedPlace
    <3>3. PlaceOf(LineOf(loc)) = [proto |-> "gopher", type |-> loc.type,
            host |-> loc.host, port |-> loc.port, selector |-> loc.selector]
      BY <3>2 DEF PlaceOf, LeadsTo, Entry
    <3>4. IsLocation(loc)
      BY BookmarksAssumption DEF BookmarksAssumption
    <3> QED
      BY <3>1, <3>3, <3>4 DEF IsLocation
  <2>5. SavedLeadsBack'
    <3>1. Len(file) + 1 \in 1 .. Len(file')
      BY <2>2
    <3>2. Places'[Len(file) + 1] = PlaceOf(LineOf(loc))
      BY <2>2, <3>1 DEF Places, PlaceOf
    <3>3. ASSUME Expressible(loc), \A i \in 1 .. Len(file') - 1 : ~TooLong(file'[i])
          PROVE  Len(file) + 1 \in Legible(file)'
      <4>1. ~TooLong(file'[Len(file) + 1])
        BY <2>2, <3>3, LinesAssumption DEF LinesAssumption, Expressible
      <4>2. \A i \in 1 .. Len(file) + 1 : i \in 1 .. Len(file') - 1 \/ i = Len(file) + 1
        BY <2>2
      <4>3. \A i \in 1 .. Len(file) + 1 : ~TooLong(file'[i])
        BY <3>3, <4>1, <4>2
      <4> QED
        BY <3>1, <4>3 DEF Legible
    <3>4. answer' = "saved"
      BY <1>3 DEF AddBookmark
    <3> QED
      BY <1>1, <2>4, <3>2, <3>3, <3>4 DEF SavedLeadsBack
  <2>6. Distinct(file)'
    BY <2>3 DEF Distinct, Legible
  <2> QED
    BY <1>1, <2>2, <2>5, <2>6 DEF Inv
<1> QED
  BY <1>2, <1>3

LEMMA DeleteKeeps ==
    ASSUME Inv, NEW i \in 1 .. Len(page), DeleteBookmark(i)
    PROVE  Inv'
<1>1. /\ file' = Without(file, page[i]) /\ answer' = "deleted"
      /\ file \in Seq(AnyLine) /\ Distinct(file) /\ exists'
  BY DEF Inv, DeleteBookmark
<1>2. file' \in Seq(AnyLine) /\ Distinct(file')
  <2>1. CASE Without(file, page[i]) = file
    BY <1>1, <2>1
  <2>2. CASE \E k \in Legible(file) : Without(file, page[i]) = RemoveAt(file, k)
    BY <1>1, <2>2, RemoveAtFacts, DistinctWithoutOne, LegibleFacts
  <2> QED
    BY <1>1, <2>1, <2>2, WithoutFacts
<1> QED
  BY <1>1, <1>2 DEF Inv, SavedLeadsBack, Distinct, Legible

LEMMA NextInv == Inv /\ [Next]_vars => Inv'
<1> SUFFICES ASSUME Inv, [Next]_vars PROVE Inv'
  OBVIOUS
<1>1. CASE bookmarkfile_createifnone
  <2>1. /\ file' = Defaults /\ answer = "none" /\ answer' = answer /\ exists'
    BY <1>1 DEF bookmarkfile_createifnone, Inv
  <2>2. file' \in Seq(AnyLine) /\ Distinct(file')
    BY <2>1, FilesFacts
  <2> QED
    BY <2>1, <2>2 DEF Inv, SavedLeadsBack, Distinct, Legible
<1>2. CASE \E loc \in Locations : AddBookmark(loc)
  BY <1>2, AddKeeps
<1>3. CASE ShowWelcome
  BY <1>3 DEF ShowWelcome, Inv, SavedLeadsBack, Distinct, Legible
<1>4. CASE LeaveWelcome
  BY <1>4 DEF LeaveWelcome, Inv, SavedLeadsBack, Distinct, Legible
<1>5. CASE \E i \in 1 .. Len(page) : DeleteBookmark(i)
  BY <1>5, DeleteKeeps
<1>6. CASE UNCHANGED vars
  <2>1. UNCHANGED <<exists, file, page, asked, answer>>
    BY <1>6 DEF vars
  <2>2. Places' = Places
    BY <2>1 DEF Places
  <2>3. SavedLeadsBack'
    BY <2>1, <2>2 DEF Inv, SavedLeadsBack, Legible
  <2>4. file' \in Seq(AnyLine) /\ (answer' # "none" \/ page' # NotShown => exists')
    BY <2>1 DEF Inv
  <2>5. Distinct(file)'
    BY <2>1 DEF Inv, Distinct, Legible
  <2> QED
    BY <2>3, <2>4, <2>5 DEF Inv
<1> QED
  BY <1>1, <1>2, <1>3, <1>4, <1>5, <1>6 DEF Next

-----------------------------------------------------------------------------

\* No place is bookmarked twice in front of the first line that is too long,
\* however bookmarks come and go.
THEOREM NothingTwice == Spec => []NoDuplicates
<1>1. Inv => NoDuplicates
  <2> SUFFICES ASSUME Inv PROVE NoDuplicates
    OBVIOUS
  <2>1. \A i \in Legible(file) : Places[i] = PlaceOf(file[i])
    BY LegibleFacts DEF Places, PlaceOf, Inv
  <2> QED
    BY <2>1 DEF Inv, Distinct, NoDuplicates
<1> QED
  BY <1>1, InitInv, NextInv, PTL DEF Spec

\* A bookmark that was saved where the file is still read leads to the place
\* it was made for, and what counts as bookmarked is.
THEOREM SavedIsFound == Spec => []SavedLeadsBack
<1>1. Inv => SavedLeadsBack
  BY DEF Inv
<1> QED
  BY <1>1, InitInv, NextInv, PTL DEF Spec

-----------------------------------------------------------------------------
(* Of the lines that agree with an entry of the page none but the selected *)
(* one can stand in the file: the type of an item and its description are  *)
(* not compared, but NoDuplicates says that no two plain lines differ in   *)
(* nothing else.  A query is read with port 0, which no entry has.         *)

LEMMA QueriesAgreeWithNone ==
    ASSUME NEW line \in AnyLine, ~Plain(line), NEW entry, entry.port # 0
    PROVE  ~Agrees(line, entry)
<1>1. CASE \E loc \in Locations : line = LineOf(loc)
  <2>1. PICK loc \in Locations : line = LineOf(loc)
    BY <1>1
  <2>2. Len(loc.selector) # 1
    <3>1. ASSUME Len(loc.selector) = 1 PROVE FALSE
      <4>1. Len(line.columns) = 2 * 1 + 1
        BY <2>1, <3>1, PrintedColumns, Zenon
      <4>2. line.type # "empty"
        BY <2>1, <3>1, PrintedPlace, BookmarksAssumption
           DEF BookmarksAssumption, IsLocation
      <4> QED
        BY <4>1, <4>2 DEF Plain
    <3> QED
      BY <3>1
  <2>3. Port(line) = 0
    BY <2>1, <2>2, PrintedQuery
  <2> QED
    BY <2>3 DEF Agrees
<1>2. CASE \E lines \in Files \cup {Defaults} : line \in LinesOf(lines)
  <2>1. PICK lines \in Files \cup {Defaults} : line \in LinesOf(lines)
    BY <1>2
  <2>2. IsFile(lines)
    BY BookmarksAssumption DEF BookmarksAssumption
  <2>3. DOMAIN lines = 1 .. Len(lines)
    BY <2>2, LenProperties DEF IsFile
  <2>4. IsLine(line)
    BY <2>1, <2>2, <2>3 DEF IsFile, LinesOf
  <2>5. Len(line.columns) = 0
    <3>1. line.type = "empty" /\ line.columns = <<>>
      <4>1. Len(line.columns) \in {2, 3} => Len(line.columns) <= 3
        <5>1. \A n \in {2, 3} : n <= 3
          OBVIOUS
        <5> QED
          BY <5>1, Zenon
      <4> QED
        BY <2>4, <4>1, Zenon DEF IsLine, Plain
    <3> QED
      BY <3>1
  <2> QED
    BY <2>5 DEF Agrees, Has
<1> QED
  BY <1>1, <1>2 DEF AnyLine

LEMMA OnlyTheSelected ==
    ASSUME Inv, NEW p \in Legible(file), Plain(file[p]),
           NEW k \in Legible(file), Agrees(file[k], Entry(file[p]))
    PROVE  k = p
<1>1. /\ file[p] \in AnyLine /\ file[k] \in AnyLine
      /\ Names(file[p]) /\ Names(file[k])
  BY LegibleFacts, ElementOfSeq, LinesName DEF Inv
<1> DEFINE chosen == file[p]
           found == file[k]
<1>2. /\ Entry(chosen).port = Port(chosen) /\ Entry(chosen).host = Host(chosen)
      /\ Entry(chosen).selector = Selector(chosen)
      /\ PlaceOf(chosen).port = Port(chosen) /\ PlaceOf(chosen).host = Host(chosen)
      /\ PlaceOf(chosen).selector = <<Selector(chosen)>>
  BY <1>1, EntryFacts
<1>3. Entry(chosen).port # 0
  BY <1>1, <1>2 DEF Names
<1>4. Plain(found)
  BY <1>1, <1>3, QueriesAgreeWithNone
<1>5. /\ PlaceOf(found).port = Port(found) /\ PlaceOf(found).host = Host(found)
      /\ PlaceOf(found).selector = <<Selector(found)>>
  BY <1>1, <1>4, EntryFacts
<1>6. Similar(PlaceOf(found), PlaceOf(chosen))
  BY <1>2, <1>5 DEF Agrees, Similar
<1> QED
  BY <1>4, <1>6 DEF Inv, Distinct

LEMMA SelectedAgrees ==
    ASSUME Inv, NEW p \in Legible(file), Plain(file[p])
    PROVE  Agrees(file[p], Entry(file[p]))
<1>1. file[p] \in AnyLine /\ Names(file[p])
  BY LegibleFacts, ElementOfSeq, LinesName DEF Inv
<1>2. Has(file[p], 2)
  BY <1>1 DEF Names
<1>3. /\ Entry(file[p]).port = Port(file[p]) /\ Entry(file[p]).host = Host(file[p])
      /\ Entry(file[p]).selector = Selector(file[p])
  BY <1>1, EntryFacts
<1> QED
  BY <1>2, <1>3 DEF Agrees

\* DEL takes out the bookmark that was selected, if it is in front of the first
\* line that is too long, and leaves all others.
THEOREM DeletesTheSelected == Spec => DeleteHits
<1> DEFINE Hits ==
      answer' = "deleted"
         /\ (\E i \in Legible(file) : Plain(file[i]) /\ Entry(file[i]) = asked')
        => \E i \in Legible(file) : /\ Entry(file[i]) = asked'
                                    /\ file' = RemoveAt(file, i)
<1>1. Inv /\ [Next]_vars => [Hits]_vars
  <2> SUFFICES ASSUME Inv, Next, answer' = "deleted",
                      NEW p \in Legible(file),
                      Plain(file[p]), Entry(file[p]) = asked'
               PROVE  file' = RemoveAt(file, p)
    BY Zenon
  <2>1. CASE \E i \in 1 .. Len(page) : DeleteBookmark(i)
    <3>1. file' = Without(file, asked') /\ file \in Seq(AnyLine)
      BY <2>1 DEF DeleteBookmark, Inv
    <3>2. Agrees(file[p], asked')
      BY SelectedAgrees
    <3>3. PICK k \in Legible(file) :
            Agrees(file[k], asked') /\ file' = RemoveAt(file, k)
      BY <3>1, <3>2, WithoutFacts
    <3>4. k = p
      BY <3>3, OnlyTheSelected
    <3> QED
      BY <3>3, <3>4
  <2>2. CASE bookmarkfile_createifnone
    BY <2>2 DEF bookmarkfile_createifnone, Inv
  <2>3. CASE \E loc \in Locations : AddBookmark(loc)
    BY <2>3 DEF AddBookmark
  <2>4. CASE ShowWelcome \/ LeaveWelcome
    BY <2>4 DEF ShowWelcome, LeaveWelcome
  <2> QED
    BY <2>1, <2>2, <2>3, <2>4 DEF Next
<1>2. DeleteHits <=> [][Hits]_vars
  BY PTL DEF DeleteHits
<1> QED
  BY <1>1, <1>2, InitInv, NextInv, PTL DEF Spec
-----------------------------------------------------------------------------
(* The bytes of a file.  Ends(l) is the offset at which line l ends, when  *)
(* the file is whole; a file starts at Ends(0).                            *)

Byte == Nat \X Nat
Numbers == 1 .. Len(lengths)
Ends(l) == Len(Lines(SubSeq(All, 1, l)))

LEMMA LineFacts ==
    ASSUME lengths \in Seq(Nat \ {0}), NEW l \in Numbers
    PROVE  /\ Line(l) \in Seq(Byte)
           /\ lengths[l] \in Nat /\ lengths[l] > 0
           /\ Len(Line(l)) = lengths[l]
           /\ \A o \in 1 .. lengths[l] : Line(l)[o] = <<l, o>>
           /\ Lines(<<l>>) = Line(l)
<1>1. lengths[l] \in Nat /\ lengths[l] > 0 /\ Numbers \subseteq Nat
  <2>1. Len(lengths) \in Nat /\ lengths[l] \in Nat \ {0}
    BY LenProperties, ElementOfSeq DEF Numbers
  <2> QED
    BY <2>1 DEF Numbers
<1>2. Line(l) \in Seq(Byte)
  <2>1. \A o \in 1 .. lengths[l] : <<l, o>> \in Byte
    BY <1>1 DEF Byte
  <2> QED
    BY <1>1, <2>1, SeqDef DEF Line
<1>3. Len(Line(l)) = lengths[l] /\ \A o \in 1 .. lengths[l] : Line(l)[o] = <<l, o>>
  BY <1>1, <1>2, LenProperties DEF Line
<1>4. Lines(<<l>>) = Line(l)
  <2>1. Len(<<l>>) = 1 /\ <<l>>[1] = l
    OBVIOUS
  <2>2. [i \in 1 .. Len(<<l>>) |-> Line(<<l>>[i])] = <<Line(l)>>
    BY <2>1
  <2> QED
    BY <1>2, <2>2, FlattenOne DEF Lines
<1> QED
  BY <1>1, <1>2, <1>3, <1>4

LEMMA LinesConcat ==
    ASSUME lengths \in Seq(Nat \ {0}),
           NEW these \in Seq(Numbers), NEW more \in Seq(Numbers)
    PROVE  /\ Lines(these) \in Seq(Byte)
           /\ Lines(these \o more) = Lines(these) \o Lines(more)
<1> DEFINE L(s) == [i \in 1 .. Len(s) |-> Line(s[i])]
<1>1. ASSUME NEW s \in Seq(Numbers)
      PROVE  /\ L(s) \in Seq(Seq(Byte)) /\ Len(L(s)) = Len(s) /\ Len(s) \in Nat
             /\ \A i \in 1 .. Len(s) : L(s)[i] = Line(s[i])
  <2>1. Len(s) \in Nat /\ \A i \in 1 .. Len(s) : s[i] \in Numbers
    BY LenProperties, ElementOfSeq
  <2>2. \A i \in 1 .. Len(s) : Line(s[i]) \in Seq(Byte)
    BY <2>1, LineFacts
  <2>3. L(s) \in Seq(Seq(Byte))
    BY <2>1, <2>2, SeqDef
  <2> QED
    BY <2>1, <2>3, LenProperties
<1> DEFINE both == these \o more
<1>2. /\ both \in Seq(Numbers) /\ Len(both) = Len(these) + Len(more)
      /\ \A i \in 1 .. Len(these) + Len(more) :
           both[i] = IF i <= Len(these) THEN these[i] ELSE more[i - Len(these)]
  BY ConcatProperties
<1>3. L(both) = L(these) \o L(more)
  <2> HIDE DEF L, both
  <2> DEFINE joined == L(these) \o L(more)
  <2>1. /\ joined \in Seq(Seq(Byte)) /\ Len(joined) = Len(these) + Len(more)
        /\ \A i \in 1 .. Len(these) + Len(more) :
             joined[i] = IF i <= Len(these) THEN L(these)[i]
                         ELSE L(more)[i - Len(these)]
    <3>1. /\ L(these) \in Seq(Seq(Byte)) /\ L(more) \in Seq(Seq(Byte))
          /\ Len(L(these)) = Len(these) /\ Len(L(more)) = Len(more)
      BY <1>1
    <3>2. /\ joined \in Seq(Seq(Byte))
          /\ Len(joined) = Len(L(these)) + Len(L(more))
          /\ \A i \in 1 .. Len(L(these)) + Len(L(more)) :
               joined[i] = IF i <= Len(L(these)) THEN L(these)[i]
                           ELSE L(more)[i - Len(L(these))]
      BY <3>1, ConcatProperties
    <3> HIDE DEF joined
    <3> QED
      BY <3>1, <3>2
  <2> HIDE DEF joined
  <2>2. Len(these) \in Nat /\ Len(more) \in Nat
    BY LenProperties
  <2>3. ASSUME NEW i \in 1 .. Len(these) + Len(more) PROVE L(both)[i] = joined[i]
    <3>1. L(both)[i] = Line(both[i])
      BY <1>1, <1>2
    <3>2. CASE i <= Len(these)
      <4>1. i \in 1 .. Len(these)
        BY <2>2, <3>2
      <4> QED
        BY <1>1, <1>2, <2>1, <3>1, <3>2, <4>1
    <3>3. CASE ~(i <= Len(these))
      <4>1. i - Len(these) \in 1 .. Len(more)
        BY <2>2, <3>3
      <4> QED
        BY <1>1, <1>2, <2>1, <3>1, <3>3, <4>1
    <3> QED
      BY <3>2, <3>3
  <2>4. L(both) \in Seq(Seq(Byte)) /\ Len(L(both)) = Len(these) + Len(more)
    BY <1>1, <1>2
  <2>5. L(both) = joined
    BY <2>1, <2>3, <2>4, SeqEqual
  <2> QED
    BY <2>5 DEF joined
<1>4. L(these) \in Seq(Seq(Byte)) /\ L(more) \in Seq(Seq(Byte))
  BY <1>1
<1>5. Lines(these) = FlattenSeq(L(these)) /\ Lines(more) = FlattenSeq(L(more))
      /\ Lines(both) = FlattenSeq(L(both))
  BY DEF Lines
<1> HIDE DEF L, both
<1>6. FlattenSeq(L(these)) \in Seq(Byte)
  BY <1>4, FlattenInSeq
<1>7. FlattenSeq(L(these) \o L(more)) = FlattenSeq(L(these)) \o FlattenSeq(L(more))
  BY <1>4, FlattenConcat
<1> QED
  BY <1>3, <1>5, <1>6, <1>7 DEF both

LEMMA AllLines ==
    ASSUME lengths \in Seq(Nat \ {0})
    PROVE  /\ All \in Seq(Numbers) /\ Len(All) = Len(lengths) /\ Len(lengths) \in Nat
           /\ \A l \in Numbers : All[l] = l
<1>1. Len(lengths) \in Nat
  BY LenProperties
<1>2. All \in Seq(Numbers)
  BY <1>1, SeqDef DEF All, Numbers
<1> QED
  BY <1>1, <1>2, LenProperties DEF All, Numbers

\* The lines from k + 1 to m.
LEMMA Slices ==
    ASSUME lengths \in Seq(Nat \ {0}),
           NEW k \in 0 .. Len(lengths), NEW m \in k .. Len(lengths)
    PROVE  /\ SubSeq(All, k + 1, m) \in Seq(Numbers)
           /\ Lines(SubSeq(All, k + 1, m)) \in Seq(Byte)
           /\ Lines(SubSeq(All, 1, m)) =
                Lines(SubSeq(All, 1, k)) \o Lines(SubSeq(All, k + 1, m))
           /\ Ends(k) \in Nat /\ Ends(m) \in Nat
           /\ Ends(m) = Ends(k) + Len(Lines(SubSeq(All, k + 1, m)))
<1>1. /\ All \in Seq(Numbers) /\ Len(All) = Len(lengths) /\ Len(lengths) \in Nat
      /\ \A l \in Numbers : All[l] \in Numbers
  BY AllLines
<1>2. ASSUME NEW a \in Nat, NEW b \in 0 .. Len(lengths), a > 0
      PROVE  SubSeq(All, a, b) \in Seq(Numbers)
  <2>1. \A i \in a .. b : All[i] \in Numbers
    BY <1>1, <1>2 DEF Numbers
  <2>2. a \in Int /\ b \in Int
    OBVIOUS
  <2> QED
    BY <2>1, <2>2, SubSeqProperties
<1>3. /\ 1 \in Nat /\ 1 > 0 /\ k + 1 \in Nat /\ k + 1 > 0
      /\ k \in 0 .. Len(lengths) /\ m \in 0 .. Len(lengths)
      /\ 1 \in 1 .. Len(All) + 1 /\ k \in 1 - 1 .. Len(All) /\ m \in k .. Len(All)
  BY <1>1
<1>4. /\ SubSeq(All, 1, k) \in Seq(Numbers) /\ SubSeq(All, 1, m) \in Seq(Numbers)
      /\ SubSeq(All, k + 1, m) \in Seq(Numbers)
  BY <1>2, <1>3
<1>5. SubSeq(All, 1, k) \o SubSeq(All, k + 1, m) = SubSeq(All, 1, m)
  BY <1>1, <1>3, ConcatAdjacentSubSeq
<1>6. /\ Lines(SubSeq(All, 1, k)) \in Seq(Byte)
      /\ Lines(SubSeq(All, k + 1, m)) \in Seq(Byte)
      /\ Lines(SubSeq(All, 1, m)) =
           Lines(SubSeq(All, 1, k)) \o Lines(SubSeq(All, k + 1, m))
  BY <1>4, <1>5, LinesConcat
<1>7. /\ Ends(m) = Ends(k) + Len(Lines(SubSeq(All, k + 1, m)))
      /\ Ends(k) \in Nat /\ Len(Lines(SubSeq(All, k + 1, m))) \in Nat
  BY <1>6, ConcatProperties, LenProperties DEF Ends
<1> QED
  BY <1>4, <1>6, <1>7

\* Where the bytes of a line are.
LEMMA Layout ==
    ASSUME lengths \in Seq(Nat \ {0})
    PROVE  /\ Before \in Seq(Byte) /\ Len(Before) = Ends(Len(lengths))
           /\ Ends(0) = 0
           /\ \A l \in 0 .. Len(lengths) : Ends(l) \in Nat
           /\ \A l, m \in 0 .. Len(lengths) : l <= m => Ends(l) <= Ends(m)
           /\ \A l \in Numbers :
                /\ Ends(l) = Ends(l - 1) + lengths[l]
                /\ \A o \in 1 .. lengths[l] : Before[Ends(l - 1) + o] = <<l, o>>
<1>1. /\ All \in Seq(Numbers) /\ Len(All) = Len(lengths) /\ Len(lengths) \in Nat
      /\ \A l \in Numbers : All[l] = l
  BY AllLines
<1>2. SubSeq(All, 1, Len(lengths)) = All
  BY <1>1, SubSeqFull
<1>3. Before \in Seq(Byte) /\ Len(Before) = Ends(Len(lengths))
  BY <1>1, <1>2, LinesConcat DEF Before, Ends
<1>4. Ends(0) = 0
  <2>1. SubSeq(All, 1, 0) = <<>>
    BY SubSeqEmpty, 1 \in Int, 0 \in Int, 0 < 1
  <2>2. [i \in 1 .. Len(<<>>) |-> Line(<<>>[i])] = <<>>
    OBVIOUS
  <2>3. FlattenSeq(<<>>) = <<>> /\ Len(<<>>) = 0
    BY DEF FlattenSeq
  <2>4. Lines(<<>>) = <<>>
    BY <2>2, <2>3 DEF Lines
  <2> QED
    BY <2>1, <2>3, <2>4 DEF Ends
<1>5. ASSUME NEW l \in 0 .. Len(lengths), NEW m \in 0 .. Len(lengths), l <= m
      PROVE  Ends(l) \in Nat /\ Ends(l) <= Ends(m)
  <2>1. m \in l .. Len(lengths)
    BY <1>5
  <2>2. /\ Ends(m) = Ends(l) + Len(Lines(SubSeq(All, l + 1, m)))
        /\ Ends(l) \in Nat /\ Len(Lines(SubSeq(All, l + 1, m))) \in Nat
    BY <2>1, Slices, LenProperties
  <2> QED
    BY <2>2
<1>6. ASSUME NEW l \in Numbers
      PROVE  /\ Ends(l) = Ends(l - 1) + lengths[l]
             /\ \A o \in 1 .. lengths[l] : Before[Ends(l - 1) + o] = <<l, o>>
  <2>1. /\ l - 1 \in 0 .. Len(lengths) /\ l \in l - 1 .. Len(lengths)
        /\ l \in 0 .. Len(lengths) /\ (l - 1) + 1 = l
        /\ Len(lengths) \in l .. Len(lengths)
        /\ l \in 1 .. Len(All) /\ l \in l .. Len(All)
    BY <1>1 DEF Numbers
  <2>2. SubSeq(All, l, l) = <<l>>
    <3>1. SubSeq(All, l, l) = <<All[l]>> \o SubSeq(All, l + 1, l)
      BY <1>1, <2>1, SubSeqRecursiveFirst
    <3>2. SubSeq(All, l + 1, l) = <<>>
      BY <2>1, SubSeqEmpty
    <3>3. <<l>> \in Seq(Numbers)
      OBVIOUS
    <3> QED
      BY <1>1, <3>1, <3>2, <3>3, ConcatEmptySeq
  <2> DEFINE before == Lines(SubSeq(All, 1, l - 1))
             upto == Lines(SubSeq(All, 1, l))
             after == Lines(SubSeq(All, l + 1, Len(lengths)))
  <2>3. /\ before \in Seq(Byte) /\ Line(l) \in Seq(Byte) /\ after \in Seq(Byte)
        /\ upto \in Seq(Byte)
        /\ upto = before \o Line(l) /\ Before = upto \o after
    <3>1. upto = before \o Lines(SubSeq(All, (l - 1) + 1, l))
      BY <2>1, Slices
    <3>2. SubSeq(All, (l - 1) + 1, l) = <<l>>
      BY <2>1, <2>2
    <3>3. Lines(<<l>>) = Line(l) /\ Line(l) \in Seq(Byte)
      BY LineFacts
    <3>4. before \in Seq(Byte)
      <4>1. SubSeq(All, 0 + 1, l - 1) \in Seq(Numbers) /\ 0 + 1 = 1
        <5>1. 0 \in 0 .. Len(lengths) /\ l - 1 \in 0 .. Len(lengths)
          BY <1>1, <2>1
        <5> QED
          BY <5>1, Slices
      <4> QED
        BY <4>1, LinesConcat
    <3>5. Before = upto \o after /\ after \in Seq(Byte)
      <4>1. /\ Lines(SubSeq(All, 1, Len(lengths))) = upto \o after
            /\ after \in Seq(Byte)
        BY <2>1, Slices
      <4> QED
        BY <1>2, <4>1 DEF Before
    <3>6. upto = before \o Line(l)
      BY <3>1, <3>2, <3>3
    <3> HIDE DEF before, upto, after
    <3>7. upto \in Seq(Byte)
      BY <3>3, <3>4, <3>6, ConcatProperties
    <3> QED
      BY <3>3, <3>4, <3>5, <3>6, <3>7
  <2>4. Len(before) = Ends(l - 1) /\ Len(upto) = Ends(l)
    BY DEF Ends
  <2> HIDE DEF before, upto, after
  <2>5. /\ Len(before) \in Nat /\ lengths[l] \in Nat
        /\ Len(Line(l)) = lengths[l] /\ Len(after) \in Nat
        /\ \A o \in 1 .. lengths[l] : Line(l)[o] = <<l, o>>
    BY <2>3, LineFacts, LenProperties
  <2>6. /\ Len(upto) = Len(before) + lengths[l]
        /\ \A i \in 1 .. Len(before) + lengths[l] :
             upto[i] = IF i <= Len(before) THEN before[i] ELSE Line(l)[i - Len(before)]
    <3>1. /\ Len(before \o Line(l)) = Len(before) + Len(Line(l))
          /\ \A i \in 1 .. Len(before) + Len(Line(l)) :
               (before \o Line(l))[i] =
                 IF i <= Len(before) THEN before[i] ELSE Line(l)[i - Len(before)]
      BY <2>3, ConcatProperties
    <3> QED
      BY <2>3, <2>5, <3>1
  <2>7. \A i \in 1 .. Len(upto) + Len(after) :
          Before[i] = IF i <= Len(upto) THEN upto[i] ELSE after[i - Len(upto)]
    BY <2>3, ConcatProperties
  <2>8. ASSUME NEW o \in 1 .. lengths[l] PROVE Before[Len(before) + o] = <<l, o>>
    <3>1. /\ Len(before) + o \in 1 .. Len(upto) + Len(after)
          /\ Len(before) + o <= Len(upto)
          /\ Len(before) + o \in 1 .. Len(before) + lengths[l]
          /\ ~(Len(before) + o <= Len(before))
          /\ (Len(before) + o) - Len(before) = o
      BY <2>5, <2>6
    <3>2. Before[Len(before) + o] = upto[Len(before) + o]
      BY <2>7, <3>1
    <3>3. upto[Len(before) + o] = Line(l)[o]
      BY <2>6, <3>1
    <3> QED
      BY <2>5, <3>2, <3>3
  <2> QED
    BY <2>4, <2>6, <2>8
<1> QED
  BY <1>3, <1>4, <1>5, <1>6

-----------------------------------------------------------------------------
(* The file without the victim, and the file while it is moved: what was   *)
(* written is as it will be, the rest as it was.                           *)

Shape == lengths \in Seq(Nat \ {0}) /\ victim \in Numbers
Place == Ends(victim - 1)
Gap == lengths[victim]
Mixed(w) == [i \in 1 .. Len(Before) |-> IF i <= w THEN After[i] ELSE Before[i]]

LEMMA AfterLayout ==
    ASSUME Shape
    PROVE  /\ Before \in Seq(Byte) /\ After \in Seq(Byte)
           /\ Len(Before) \in Nat /\ Len(After) \in Nat /\ Place \in Nat
           /\ Gap \in Nat /\ Gap > 0
           /\ Ends(victim) = Place + Gap
           /\ Len(Before) = Len(After) + Gap
           /\ Place <= Len(After)
           /\ \A i \in 1 .. Place : After[i] = Before[i]
           /\ \A i \in Place + 1 .. Len(After) : After[i] = Before[i + Gap]
<1> DEFINE last == Len(lengths)
           a == Lines(SubSeq(All, 1, victim - 1))
           av == Lines(SubSeq(All, 1, victim))
           c == Lines(SubSeq(All, victim + 1, last))
<1>1. /\ lengths \in Seq(Nat \ {0}) /\ victim \in Numbers /\ last \in Nat
      /\ All \in Seq(Numbers) /\ Len(All) = last
  BY AllLines DEF Shape
<1>2. /\ victim - 1 \in 0 .. last /\ victim \in 0 .. last
      /\ victim \in victim - 1 .. last /\ last \in victim .. last
      /\ victim - 1 \in 0 .. last /\ victim - 1 \in 0 .. victim - 1
      /\ 0 \in 0 .. last /\ 0 + 1 = 1
  BY <1>1 DEF Numbers
<1>3. Gap \in Nat /\ Gap > 0 /\ Ends(victim) = Place + Gap /\ Place \in Nat
  BY <1>1, <1>2, Layout, LineFacts DEF Place, Gap
<1>4. Before = av \o c /\ av \in Seq(Byte) /\ c \in Seq(Byte)
  <2>1. SubSeq(All, 1, last) = All
    BY <1>1, SubSeqFull
  <2>2. Lines(SubSeq(All, 1, last)) = av \o c /\ c \in Seq(Byte)
    BY <1>1, <1>2, Slices
  <2>3. Lines(SubSeq(All, 0 + 1, victim)) \in Seq(Byte)
    BY <1>1, <1>2, Slices
  <2> QED
    BY <1>2, <2>1, <2>2, <2>3 DEF Before
<1>5. After = a \o c /\ a \in Seq(Byte)
  <2>1. RemoveAt(All, victim) = SubSeq(All, 1, victim - 1) \o SubSeq(All, victim + 1, last)
    BY <1>1 DEF RemoveAt
  <2>2. SubSeq(All, victim + 1, last) \in Seq(Numbers)
    BY <1>1, <1>2, Slices
  <2>3. SubSeq(All, 0 + 1, victim - 1) \in Seq(Numbers)
    BY <1>1, <1>2, Slices
  <2>4. SubSeq(All, 1, victim - 1) \in Seq(Numbers)
    BY <1>2, <2>3
  <2> QED
    BY <1>1, <2>1, <2>2, <2>4, LinesConcat DEF After
<1>6. Len(a) = Place /\ Len(av) = Place + Gap
  BY <1>3 DEF Ends, Place
<1>7. \A i \in 1 .. Len(a) : av[i] = a[i]
  <2> DEFINE v == Lines(SubSeq(All, (victim - 1) + 1, victim))
  <2>1. av = a \o v /\ v \in Seq(Byte)
    BY <1>1, <1>2, Slices
  <2> HIDE DEF a, v, av
  <2>2. \A i \in 1 .. Len(a) + Len(v) :
          (a \o v)[i] = IF i <= Len(a) THEN a[i] ELSE v[i - Len(a)]
    BY <1>5, <2>1, ConcatProperties
  <2>3. \A i \in 1 .. Len(a) : i \in 1 .. Len(a) + Len(v) /\ i <= Len(a)
    BY <1>5, <2>1, LenProperties
  <2> QED
    BY <2>1, <2>2, <2>3
<1> HIDE DEF a, av, c
<1>8. /\ Before \in Seq(Byte) /\ Len(Before) = Place + Gap + Len(c) /\ Len(c) \in Nat
      /\ \A i \in 1 .. Len(av) + Len(c) :
           Before[i] = IF i <= Len(av) THEN av[i] ELSE c[i - Len(av)]
  BY <1>4, <1>6, ConcatProperties, LenProperties
<1>9. /\ After \in Seq(Byte) /\ Len(After) = Place + Len(c)
      /\ \A i \in 1 .. Len(a) + Len(c) :
           After[i] = IF i <= Len(a) THEN a[i] ELSE c[i - Len(a)]
  BY <1>4, <1>5, <1>6, ConcatProperties
<1>10. ASSUME NEW i \in 1 .. Place PROVE After[i] = Before[i]
  <2>1. i \in 1 .. Len(a) + Len(c) /\ i <= Len(a) /\ i \in 1 .. Len(a)
        /\ i \in 1 .. Len(av) + Len(c) /\ i <= Len(av)
    BY <1>3, <1>6, <1>8
  <2> QED
    BY <1>7, <1>8, <1>9, <2>1
<1>11. ASSUME NEW i \in Place + 1 .. Len(After) PROVE After[i] = Before[i + Gap]
  <2>1. i \in 1 .. Len(a) + Len(c) /\ ~(i <= Len(a))
        /\ i + Gap \in 1 .. Len(av) + Len(c) /\ ~(i + Gap <= Len(av))
        /\ (i + Gap) - Len(av) = i - Len(a)
    BY <1>3, <1>6, <1>8, <1>9
  <2> QED
    BY <1>8, <1>9, <2>1
<1>12. /\ Len(Before) = Len(After) + Gap /\ Place <= Len(After)
       /\ Len(Before) \in Nat /\ Len(After) \in Nat
  BY <1>3, <1>8, <1>9
<1> QED
  BY <1>3, <1>8, <1>9, <1>10, <1>11, <1>12

-----------------------------------------------------------------------------
(* The inductive invariant.  OnlyVictimGone speaks of the end only; all    *)
(* the way there, the bytes that were read are those that belong where     *)
(* they will be written.                                                   *)

Reading == roff = woff + Gap

Holding ==
    /\ lbuf \in Seq(Byte)
    /\ roff = woff + Gap + Len(lbuf)
    /\ woff + Len(lbuf) <= Len(After)
    /\ \A j \in 1 .. Len(lbuf) : lbuf[j] = After[woff + j]

Moving ==
    /\ Shape
    /\ pc \in {"find", "read", "write", "done", "crashed"}
    /\ pc = "find" => disk = Before /\ woff = 0
    /\ pc \in {"read", "write"} => woff \in Place .. Len(After) /\ disk = Mixed(woff)
    /\ pc = "read" => Reading
    /\ pc = "write" => Holding
    /\ pc = "done" => disk = After
    /\ pc = "crashed" => \E w \in Place .. Len(After) : disk = Mixed(w)

LEMMA MixedFacts ==
    ASSUME Shape, NEW w \in Place .. Len(After)
    PROVE  /\ Mixed(w) \in Seq(Byte) /\ Len(Mixed(w)) = Len(Before)
           /\ \A i \in 1 .. Len(Before) :
                Mixed(w)[i] = IF i <= w THEN After[i] ELSE Before[i]
<1>1. /\ Before \in Seq(Byte) /\ After \in Seq(Byte)
      /\ Len(Before) \in Nat /\ Len(After) \in Nat /\ Place \in Nat
  BY AfterLayout
<1>2. ASSUME NEW i \in 1 .. Len(Before)
      PROVE  (IF i <= w THEN After[i] ELSE Before[i]) \in Byte
  <2>1. Before[i] \in Byte
    BY <1>1, ElementOfSeq
  <2>2. i <= w => i \in 1 .. Len(After)
    BY <1>1
  <2>3. i <= w => After[i] \in Byte
    BY <1>1, <2>2, ElementOfSeq
  <2> QED
    BY <2>1, <2>3
<1>3. Mixed(w) \in [1 .. Len(Before) -> Byte]
  BY <1>2 DEF Mixed
<1>4. Mixed(w) \in Seq(Byte)
  BY <1>1, <1>3, SeqDef
<1> QED
  BY <1>1, <1>4, LenProperties DEF Mixed

LEMMA WrittenIsMixed ==
    ASSUME Shape, woff \in Place .. Len(After), disk = Mixed(woff), Holding,
           NEW n \in 0 .. Len(lbuf)
    PROVE  Written(n) = Mixed(woff + n) /\ woff + n \in Place .. Len(After)
<1>1. /\ Len(disk) = Len(Before) /\ Len(Before) \in Nat /\ Len(After) \in Nat
      /\ Place \in Nat /\ Len(lbuf) \in Nat
      /\ \A i \in 1 .. Len(Before) :
           disk[i] = IF i <= woff THEN After[i] ELSE Before[i]
  BY MixedFacts, AfterLayout, LenProperties DEF Holding
<1>2. woff + n \in Place .. Len(After)
  BY <1>1 DEF Holding
<1>3. ASSUME NEW i \in 1 .. Len(Before)
      PROVE  (IF i \in woff + 1 .. woff + n THEN lbuf[i - woff] ELSE disk[i]) =
               IF i <= woff + n THEN After[i] ELSE Before[i]
  <2>1. CASE i \in woff + 1 .. woff + n
    <3>1. i - woff \in 1 .. Len(lbuf) /\ woff + (i - woff) = i /\ i <= woff + n
      BY <1>1, <2>1
    <3> QED
      BY <2>1, <3>1 DEF Holding
  <2>2. CASE i \notin woff + 1 .. woff + n
    <3>1. i <= woff + n <=> i <= woff
      BY <1>1, <2>2
    <3> QED
      BY <1>1, <2>2, <3>1
  <2> QED
    BY <2>1, <2>2
<1> QED
  BY <1>1, <1>2, <1>3 DEF Written, Mixed

\* Nothing was moved yet.
LEMMA BeforeIsMixed ==
    ASSUME Shape
    PROVE  Before = Mixed(Place)
<1>1. /\ Before \in Seq(Byte) /\ Place \in 0 .. Len(After) /\ Place \in Place .. Len(After)
      /\ \A i \in 1 .. Place : After[i] = Before[i]
  BY AfterLayout
<1>2. /\ Mixed(Place) \in Seq(Byte) /\ Len(Mixed(Place)) = Len(Before)
      /\ \A i \in 1 .. Len(Before) :
           Mixed(Place)[i] = IF i <= Place THEN After[i] ELSE Before[i]
  BY <1>1, MixedFacts
<1>3. \A i \in 1 .. Len(Before) : Mixed(Place)[i] = Before[i]
  <2> SUFFICES ASSUME NEW i \in 1 .. Len(Before) PROVE Mixed(Place)[i] = Before[i]
    OBVIOUS
  <2>1. i <= Place => i \in 1 .. Place
    BY <1>1
  <2> QED
    BY <1>1, <1>2, <2>1
<1> QED
  BY <1>1, <1>2, <1>3, SeqEqual

LEMMA InitMoving == DeleteInit => Moving
<1> SUFFICES ASSUME DeleteInit PROVE Moving
  OBVIOUS
<1>1. Shape
  BY BookmarkDeleteAssumption DEF DeleteInit, Shape, Numbers
<1> QED
  BY <1>1 DEF DeleteInit, Moving

LEMMA FindMoving == Moving /\ Find => Moving'
<1> SUFFICES ASSUME Moving, Find PROVE Moving'
  OBVIOUS
<1>1. Shape /\ disk = Before /\ disk' = disk /\ pc' = "read"
      /\ lengths' = lengths /\ victim' = victim
  BY DEF Moving, Find
<1>2. woff' = Place /\ roff' = Place + Gap
  <2>1. woff' = Ends(victim - 1) /\ roff' = Ends(victim)
    BY DEF Find, Ends
  <2> QED
    BY <1>1, <2>1, AfterLayout DEF Place
<1>3. /\ Shape' /\ Place' = Place /\ Gap' = Gap /\ Before' = Before /\ After' = After
      /\ Mixed(Place)' = Mixed(Place)
  BY <1>1 DEF Shape, Numbers, Place, Gap, Before, After, Mixed, Ends, Lines, Line, All
<1>4. Place \in Place .. Len(After)
  BY <1>1, AfterLayout
<1>5. disk' = Mixed(Place) /\ Mixed(woff)' = Mixed(Place)
  BY <1>1, <1>2, <1>3, BeforeIsMixed DEF Mixed
<1> QED
  BY <1>1, <1>2, <1>3, <1>4, <1>5 DEF Moving, Reading

\* What the other steps leave alone.
LEMMA SameFile ==
    ASSUME Shape, UNCHANGED <<lengths, victim>>
    PROVE  /\ Shape' /\ Place' = Place /\ Gap' = Gap
           /\ Before' = Before /\ After' = After
           /\ \A w : Mixed(w)' = Mixed(w)
BY DEF Shape, Numbers, Place, Gap, Before, After, Mixed, Ends, Lines, Line, All

LEMMA ReadMoving == Moving /\ Read => Moving'
<1> SUFFICES ASSUME Moving, Read PROVE Moving'
  OBVIOUS
<1>1. /\ Shape /\ woff \in Place .. Len(After) /\ disk = Mixed(woff)
      /\ roff = woff + Gap /\ pc' = "write"
      /\ UNCHANGED <<lengths, victim, disk, woff>>
  BY DEF Moving, Read, Reading
<1>2. /\ Len(disk) = Len(Before) /\ disk \in Seq(Byte)
      /\ \A i \in 1 .. Len(Before) :
           disk[i] = IF i <= woff THEN After[i] ELSE Before[i]
  BY <1>1, MixedFacts
<1>3. /\ Place \in Nat /\ Gap \in Nat /\ Gap > 0 /\ Len(After) \in Nat
      /\ Len(Before) = Len(After) + Gap /\ CHUNK \in Nat /\ CHUNK > 0
      /\ \A i \in Place + 1 .. Len(After) : After[i] = Before[i + Gap]
  BY <1>1, AfterLayout, BookmarkDeleteAssumption
<1>4. PICK last \in Int : /\ lbuf' = SubSeq(disk, roff + 1, last) /\ roff' = last
                          /\ last > roff /\ last <= Len(disk)
  <2> DEFINE last == IF roff + CHUNK < Len(disk) THEN roff + CHUNK ELSE Len(disk)
  <2>1. lbuf' = SubSeq(disk, roff + 1, last) /\ roff' = last /\ roff < Len(disk)
    BY DEF Read
  <2>2. last \in Int /\ last > roff /\ last <= Len(disk)
    BY <1>1, <1>2, <1>3, <2>1
  <2> HIDE DEF last
  <2> QED
    BY <2>1, <2>2
<1>5. /\ lbuf' \in Seq(Byte) /\ Len(lbuf') = last - roff
      /\ \A j \in 1 .. last - roff : lbuf'[j] = disk[roff + j]
  <2>1. \A i \in roff + 1 .. last : disk[i] \in Byte
    <3>1. \A i \in roff + 1 .. last : i \in 1 .. Len(disk)
      BY <1>1, <1>3, <1>4
    <3> QED
      BY <1>2, <3>1, ElementOfSeq
  <2>2. roff + 1 \in Int /\ roff + 1 <= last
    BY <1>1, <1>3, <1>4
  <2>3. /\ lbuf' \in Seq(Byte) /\ Len(lbuf') = last - (roff + 1) + 1
        /\ \A j \in 1 .. last - (roff + 1) + 1 : lbuf'[j] = disk[(roff + 1) + j - 1]
    BY <1>4, <2>1, <2>2, SubSeqProperties
  <2>4. last - (roff + 1) + 1 = last - roff
    BY <1>1, <1>3
  <2>5. \A j \in 1 .. last - roff : (roff + 1) + j - 1 = roff + j
    BY <1>1, <1>3
  <2> QED
    BY <2>3, <2>4, <2>5
<1>6. ASSUME NEW j \in 1 .. Len(lbuf') PROVE lbuf'[j] = After[woff + j]
  <2>0. PICK w \in Nat, g \in Nat, a \in Nat, p \in Nat :
          w = woff /\ g = Gap /\ a = Len(After) /\ p = Place
    <3>1. woff \in Nat
      BY <1>1, <1>3
    <3> QED
      BY <1>3, <3>1, Zenon
  <2>1. /\ roff + j \in 1 .. Len(Before) /\ ~(roff + j <= woff)
        /\ woff + j \in Place + 1 .. Len(After) /\ (woff + j) + Gap = roff + j
    <3>1. /\ roff = w + g /\ g > 0 /\ p <= w /\ w <= a /\ Len(Before) = a + g
          /\ last <= a + g /\ j \in 1 .. last - roff
      BY <1>1, <1>2, <1>3, <1>4, <1>5, <2>0
    <3>2. /\ w + g + j \in 1 .. a + g /\ ~(w + g + j <= w)
          /\ w + j \in p + 1 .. a /\ (w + j) + g = w + g + j
      BY <1>4, <3>1
    <3> QED
      BY <2>0, <3>1, <3>2
  <2>2. lbuf'[j] = Before[roff + j]
    BY <1>2, <1>5, <2>1
  <2> QED
    BY <1>3, <2>1, <2>2
<1>7. roff' = woff + Gap + Len(lbuf') /\ woff + Len(lbuf') <= Len(After)
  <2>0. woff \in Nat
    BY <1>1, <1>3
  <2>1. PICK w \in Nat, g \in Nat, a \in Nat :
          w = woff /\ g = Gap /\ a = Len(After)
    BY <1>3, <2>0, Zenon
  <2>2. Len(lbuf') = last - (w + g) /\ last <= a + g /\ roff' = last
    BY <1>1, <1>2, <1>3, <1>4, <1>5, <2>1
  <2>3. last = w + g + (last - (w + g)) /\ w + (last - (w + g)) <= a
    BY <2>2
  <2> QED
    BY <2>1, <2>2, <2>3
<1>8. /\ Shape' /\ Place' = Place /\ Gap' = Gap
      /\ After' = After /\ Mixed(woff)' = Mixed(woff)
  BY <1>1, SameFile DEF Mixed
<1>9. Holding'
  BY <1>1, <1>5, <1>6, <1>7, <1>8 DEF Holding
<1> QED
  BY <1>1, <1>8, <1>9 DEF Moving

LEMMA WriteMoving == Moving /\ Write => Moving'
<1> SUFFICES ASSUME Moving, Write PROVE Moving'
  OBVIOUS
<1>1. /\ Shape /\ woff \in Place .. Len(After) /\ disk = Mixed(woff) /\ Holding
      /\ pc' = "read" /\ disk' = Written(Len(lbuf)) /\ woff' = woff + Len(lbuf)
      /\ UNCHANGED <<lengths, victim, roff>>
  BY DEF Moving, Write
<1>2. Len(lbuf) \in Nat /\ Len(lbuf) \in 0 .. Len(lbuf)
  BY <1>1, LenProperties DEF Holding
<1>3. disk' = Mixed(woff + Len(lbuf)) /\ woff + Len(lbuf) \in Place .. Len(After)
  BY <1>1, <1>2, WrittenIsMixed
<1>4. roff' = (woff + Len(lbuf)) + Gap
  <2>1. Place \in Nat /\ Gap \in Nat /\ Len(After) \in Nat
    BY <1>1, AfterLayout
  <2> QED
    BY <1>1, <1>2, <2>1 DEF Holding
<1>5. /\ Shape' /\ Place' = Place /\ Gap' = Gap /\ After' = After
      /\ Before' = Before
  BY <1>1, SameFile
<1>6. Mixed(woff)' = Mixed(woff')
  BY <1>5 DEF Mixed
<1> QED
  BY <1>1, <1>3, <1>4, <1>5, <1>6 DEF Moving, Reading

LEMMA TruncateMoving == Moving /\ Truncate => Moving'
<1> SUFFICES ASSUME Moving, Truncate PROVE Moving'
  OBVIOUS
<1>1. /\ Shape /\ woff \in Place .. Len(After) /\ disk = Mixed(woff)
      /\ roff = woff + Gap /\ pc' = "done" /\ roff >= Len(disk)
      /\ disk' = SubSeq(disk, 1, woff)
      /\ UNCHANGED <<lengths, victim>>
  BY DEF Moving, Truncate, Reading
<1>2. /\ Len(disk) = Len(Before) /\ disk \in Seq(Byte)
      /\ \A i \in 1 .. Len(Before) :
           disk[i] = IF i <= woff THEN After[i] ELSE Before[i]
  BY <1>1, MixedFacts
<1>3. /\ Place \in Nat /\ Gap \in Nat /\ Len(After) \in Nat /\ After \in Seq(Byte)
      /\ Len(Before) = Len(After) + Gap
  BY <1>1, AfterLayout
<1>4. woff = Len(After)
  BY <1>1, <1>2, <1>3
<1>5. /\ disk' \in Seq(Byte) /\ Len(disk') = woff
      /\ \A i \in 1 .. woff : disk'[i] = disk[i]
  <2>1. \A i \in 1 .. woff : i \in 1 .. Len(disk)
    BY <1>1, <1>2, <1>3
  <2>2. \A i \in 1 .. woff : disk[i] \in Byte
    BY <1>2, <2>1, ElementOfSeq
  <2>3. 1 \in Int /\ woff \in Nat
    BY <1>1, <1>3
  <2>4. /\ disk' \in Seq(Byte) /\ Len(disk') = IF 1 <= woff THEN woff - 1 + 1 ELSE 0
        /\ \A i \in 1 .. woff - 1 + 1 : disk'[i] = disk[1 + i - 1]
    BY <1>1, <2>2, <2>3, SubSeqProperties
  <2>5. /\ woff - 1 + 1 = woff /\ (IF 1 <= woff THEN woff - 1 + 1 ELSE 0) = woff
        /\ \A i \in 1 .. woff : 1 + i - 1 = i
    BY <2>3
  <2> QED
    BY <2>4, <2>5
<1>6. \A i \in 1 .. Len(disk') : disk'[i] = After[i]
  <2>1. \A i \in 1 .. Len(disk') : i \in 1 .. Len(Before) /\ i <= woff
    BY <1>3, <1>4, <1>5
  <2> QED
    BY <1>2, <1>5, <2>1
<1>7. disk' = After
  BY <1>3, <1>4, <1>5, <1>6, SeqEqual
<1>8. Shape' /\ After' = After
  BY <1>1, SameFile
<1> QED
  BY <1>1, <1>7, <1>8 DEF Moving

LEMMA CrashMoving == Moving /\ Crash => Moving'
<1> SUFFICES ASSUME Moving, Crash PROVE Moving'
  OBVIOUS
<1>1. Shape /\ pc' = "crashed" /\ UNCHANGED <<lengths, victim>>
  BY DEF Moving, Crash
<1>2. PICK n : /\ n \in IF pc = "write" THEN 0 .. Len(lbuf) ELSE {0}
               /\ disk' = Written(n)
  BY DEF Crash
<1>3. /\ Place \in Nat /\ Len(After) \in Nat /\ Place \in Place .. Len(After)
      /\ Before \in Seq(Byte)
  BY <1>1, AfterLayout
<1>4. \E w \in Place .. Len(After) : disk' = Mixed(w)
  <2>1. CASE pc = "write"
    <3>1. n \in 0 .. Len(lbuf) /\ Holding /\ woff \in Place .. Len(After)
          /\ disk = Mixed(woff)
      BY <1>2, <2>1 DEF Moving
    <3> QED
      BY <1>1, <1>2, <3>1, WrittenIsMixed
  <2>2. CASE pc # "write"
    <3>1. n = 0 /\ disk' = Written(0)
      BY <1>2, <2>2
    <3>2. \E w \in Place .. Len(After) : disk = Mixed(w)
      BY <1>1, <1>3, <2>2, BeforeIsMixed DEF Moving, Crash
    <3>3. disk \in Seq(Byte)
      BY <1>1, <3>2, MixedFacts
    <3>4. woff \in Nat
      BY <1>3, <2>2 DEF Moving, Crash
    <3>5. Written(0) = disk
      <4>1. woff + 1 .. woff + 0 = {}
        BY <3>4
      <4>2. Written(0) = [i \in 1 .. Len(disk) |-> disk[i]]
        BY <4>1 DEF Written
      <4> QED
        BY <3>3, <4>2, LenProperties
    <3> QED
      BY <3>1, <3>2, <3>5
  <2> QED
    BY <2>1, <2>2
<1>5. PICK w \in Place .. Len(After) : disk' = Mixed(w)
  BY <1>4
<1>6. Shape' /\ Place' = Place /\ After' = After /\ Mixed(w)' = Mixed(w)
  BY <1>1, SameFile
<1>7. \E u \in Place' .. Len(After') : disk' = Mixed(u)'
  BY <1>5, <1>6
<1> QED
  BY <1>1, <1>6, <1>7 DEF Moving

LEMMA NextMoving == Moving /\ [DeleteNext]_deletevars => Moving'
<1>1. ASSUME Moving, UNCHANGED deletevars PROVE Moving'
  <2>1. /\ Shape /\ UNCHANGED <<lengths, victim>>
        /\ UNCHANGED <<disk, woff, roff, lbuf, pc>>
    BY <1>1 DEF deletevars, Moving
  <2>2. /\ Shape' /\ Place' = Place /\ Gap' = Gap /\ Before' = Before
        /\ After' = After
    BY <2>1, SameFile
  <2> QED
    BY <1>1, <2>1, <2>2 DEF Moving, Reading, Holding, Mixed
<1> QED
  BY <1>1, FindMoving, ReadMoving, WriteMoving, TruncateMoving, CrashMoving DEF DeleteNext

\* When delbookmark() is done the file is the old one without the bookmark.
THEOREM VictimGone == DeleteSpec => []OnlyVictimGone
<1>1. Moving => OnlyVictimGone
  BY DEF Moving, OnlyVictimGone
<1> QED
  BY <1>1, InitMoving, NextMoving, PTL DEF DeleteSpec

-----------------------------------------------------------------------------
(* A stop in the middle.                                                   *)

\* A line that is on the disk at offset p is whole.
LEMMA Reads ==
    ASSUME lengths \in Seq(Nat \ {0}), NEW l \in Numbers,
           disk \in Seq(Byte), NEW p \in Nat, p + lengths[l] <= Len(disk),
           \A o \in 1 .. lengths[l] : disk[p + o] = <<l, o>>,
           p = 0 \/ \E k \in Numbers : disk[p] = <<k, lengths[k]>>
    PROVE  Whole(l)
<1>1. /\ Line(l) \in Seq(Byte) /\ lengths[l] \in Nat /\ lengths[l] > 0
      /\ Len(Line(l)) = lengths[l]
      /\ \A o \in 1 .. lengths[l] : Line(l)[o] = <<l, o>>
  BY LineFacts
<1>2. p + 1 \in 1 .. Len(disk) - lengths[l] + 1 /\ (p + 1) - 1 = p
      /\ (p = 0 => p + 1 = 1)
  BY <1>1, LenProperties
<1>3. Starts(p + 1)
  BY <1>2 DEF Starts
<1>4. SubSeq(disk, p + 1, p + 1 + lengths[l] - 1) = Line(l)
  <2>1. PICK n \in Nat : n = lengths[l]
    BY <1>1, Zenon
  <2>2. PICK size \in Nat : size = Len(disk)
    BY LenProperties, Zenon
  <2>3. n > 0 /\ p + n <= size
    BY <1>1, <2>1, <2>2
  <2>4. PICK last \in Nat : last = p + n
    BY <2>1
  <2>5. /\ p + 1 + n - 1 = last /\ last \in Int /\ p + 1 \in Int /\ p + 1 <= last
        /\ last - (p + 1) + 1 = n
    BY <2>3, <2>4
  <2>7. \A o \in 1 .. n : (p + 1) + o - 1 = p + o
    BY <2>1
  <2>9. /\ SubSeq(disk, p + 1, last) \in Seq(Byte)
        /\ Len(SubSeq(disk, p + 1, last)) = last - (p + 1) + 1
        /\ \A o \in 1 .. last - (p + 1) + 1 :
             SubSeq(disk, p + 1, last)[o] = disk[(p + 1) + o - 1]
    <3>1. p + 1 \in 1 .. Len(disk) + 1 /\ last \in (p + 1) - 1 .. Len(disk)
      BY <2>2, <2>3, <2>4
    <3> QED
      BY <3>1, SubSeqFacts
  <2>10. /\ Len(SubSeq(disk, p + 1, last)) = n
         /\ \A o \in 1 .. n : SubSeq(disk, p + 1, last)[o] = disk[p + o]
    BY <2>5, <2>7, <2>9
  <2>11. \A o \in 1 .. n : SubSeq(disk, p + 1, last)[o] = Line(l)[o]
    BY <1>1, <2>1, <2>10
  <2>12. SubSeq(disk, p + 1, last) = Line(l)
    BY <1>1, <2>1, <2>9, <2>10, <2>11, SeqEqual
  <2> QED
    BY <2>1, <2>5, <2>12
<1> QED
  BY <1>2, <1>3, <1>4 DEF Whole

LEMMA LineFeed ==
    ASSUME lengths \in Seq(Nat \ {0}), NEW l \in 0 .. Len(lengths), Ends(l) > 0
    PROVE  l \in Numbers /\ Before[Ends(l)] = <<l, lengths[l]>>
<1>1. l \in Numbers
  BY Layout DEF Numbers
<1>2. lengths[l] \in Nat /\ lengths[l] > 0
  BY <1>1, LineFacts
<1>3. lengths[l] \in 1 .. lengths[l] /\ Ends(l) = Ends(l - 1) + lengths[l]
  BY <1>1, <1>2, Layout
<1> QED
  BY <1>1, <1>3, Layout

\* Where the lines are once the victim is gone.
At(l) == IF l < victim THEN Ends(l - 1) ELSE Ends(l - 1) - Gap

LEMMA AfterLine ==
    ASSUME Shape, NEW l \in Numbers \ {victim}
    PROVE  /\ At(l) \in Nat /\ lengths[l] \in Nat
           /\ At(l) + lengths[l] <= Len(After)
           /\ l < victim => At(l) + lengths[l] <= Place
           /\ l > victim => At(l) = Ends(l - 1) - Gap /\ At(l) >= Place
           /\ \A o \in 1 .. lengths[l] : After[At(l) + o] = <<l, o>>
           /\ At(l) = 0 \/ \E k \in Numbers : After[At(l)] = <<k, lengths[k]>>
<1>1. /\ lengths \in Seq(Nat \ {0}) /\ victim \in Numbers /\ Len(lengths) \in Nat
      /\ victim \in Int /\ l \in Int /\ l # victim
      /\ l - 1 \in 0 .. Len(lengths) /\ l \in 0 .. Len(lengths)
      /\ victim \in 0 .. Len(lengths) /\ victim - 1 \in 0 .. Len(lengths)
      /\ Len(lengths) \in 0 .. Len(lengths)
  BY LenProperties DEF Shape, Numbers
<1>2. /\ Ends(l - 1) \in Nat /\ lengths[l] \in Nat /\ lengths[l] > 0
      /\ Ends(l) = Ends(l - 1) + lengths[l]
      /\ \A o \in 1 .. lengths[l] : Before[Ends(l - 1) + o] = <<l, o>>
      /\ Ends(l) <= Len(Before)
  <2>1. /\ Ends(l - 1) \in Nat /\ Ends(l) = Ends(l - 1) + lengths[l]
        /\ \A o \in 1 .. lengths[l] : Before[Ends(l - 1) + o] = <<l, o>>
    BY <1>1, Layout
  <2>2. lengths[l] \in Nat /\ lengths[l] > 0
    BY <1>1, LineFacts
  <2>3. l <= Len(lengths)
    BY <1>1
  <2>4. Ends(l) <= Ends(Len(lengths)) /\ Len(Before) = Ends(Len(lengths))
    BY <1>1, <2>3, Layout
  <2> QED
    BY <2>1, <2>2, <2>4
<1>3. /\ Place \in Nat /\ Gap \in Nat /\ Gap > 0 /\ Len(After) \in Nat
      /\ Len(Before) = Len(After) + Gap /\ Ends(victim) = Place + Gap
      /\ Place <= Len(After)
      /\ \A i \in 1 .. Place : After[i] = Before[i]
      /\ \A i \in Place + 1 .. Len(After) : After[i] = Before[i + Gap]
  BY AfterLayout
<1>4. CASE l < victim
  <2>1. At(l) = Ends(l - 1)
    BY <1>4 DEF At
  <2>2. l <= victim - 1
    BY <1>1, <1>4
  <2>3. Ends(l) <= Place
    BY <1>1, <2>2, Layout DEF Place
  <2>4. \A o \in 1 .. lengths[l] : Ends(l - 1) + o \in 1 .. Place
    BY <1>2, <1>3, <2>3
  <2>5. \A o \in 1 .. lengths[l] : After[At(l) + o] = <<l, o>>
    BY <1>2, <1>3, <2>1, <2>4
  <2>6. ASSUME Ends(l - 1) # 0
        PROVE  \E k \in Numbers : After[At(l)] = <<k, lengths[k]>>
    <3>1. Ends(l - 1) > 0 /\ Ends(l - 1) \in 1 .. Place
      BY <1>2, <1>3, <2>3, <2>6
    <3>2. l - 1 \in Numbers /\ Before[Ends(l - 1)] = <<l - 1, lengths[l - 1]>>
      BY <1>1, <3>1, LineFeed
    <3> QED
      BY <1>3, <2>1, <3>1, <3>2
  <2>7. /\ At(l) + lengths[l] <= Place /\ At(l) + lengths[l] <= Len(After)
        /\ At(l) \in Nat /\ ~(l > victim)
    BY <1>1, <1>2, <1>3, <1>4, <2>1, <2>3
  <2> QED
    BY <1>2, <2>1, <2>5, <2>6, <2>7
<1>5. CASE l > victim
  <2>1. At(l) = Ends(l - 1) - Gap /\ victim <= l - 1 /\ ~(l < victim)
    BY <1>1, <1>5 DEF At
  <2>2. Ends(victim) <= Ends(l - 1)
    BY <1>1, <2>1, Layout
  <2>3. At(l) \in Nat /\ At(l) >= Place /\ At(l) + lengths[l] <= Len(After)
    BY <1>2, <1>3, <2>1, <2>2
  <2>4. ASSUME NEW o \in 1 .. lengths[l] PROVE After[At(l) + o] = <<l, o>>
    <3>1. PICK at \in Nat, n \in Nat, g \in Nat, a \in Nat, q \in Nat, e \in Nat :
            /\ at = At(l) /\ n = lengths[l] /\ g = Gap /\ a = Len(After)
            /\ q = Place /\ e = Ends(l - 1)
      BY <1>2, <1>3, <2>3, Zenon
    <3>2. at >= q /\ at + n <= a /\ at = e - g /\ o \in 1 .. n
      BY <2>1, <2>3, <3>1
    <3>3. at + o \in q + 1 .. a /\ (at + o) + g = e + o
      BY <3>2
    <3>4. After[at + o] = Before[e + o]
      BY <1>3, <3>1, <3>3
    <3> QED
      BY <1>2, <3>1, <3>4
  <2>5. ASSUME At(l) # 0
        PROVE  \E k \in Numbers : After[At(l)] = <<k, lengths[k]>>
    <3>1. CASE At(l) = Place
      <4>1. Ends(victim - 1) > 0 /\ At(l) \in 1 .. Place
        BY <1>3, <2>3, <2>5, <3>1 DEF Place
      <4>2. victim - 1 \in Numbers
            /\ Before[Ends(victim - 1)] = <<victim - 1, lengths[victim - 1]>>
        BY <1>1, <4>1, LineFeed
      <4> QED
        BY <1>3, <3>1, <4>1, <4>2 DEF Place
    <3>2. CASE At(l) # Place
      <4>1. At(l) \in Place + 1 .. Len(After) /\ At(l) + Gap = Ends(l - 1)
            /\ Ends(l - 1) > 0
        BY <1>2, <1>3, <2>1, <2>3, <3>2
      <4>2. l - 1 \in Numbers /\ Before[Ends(l - 1)] = <<l - 1, lengths[l - 1]>>
        BY <1>1, <4>1, LineFeed
      <4> QED
        BY <1>3, <4>1, <4>2
    <3> QED
      BY <3>1, <3>2
  <2> QED
    BY <1>2, <2>1, <2>3, <2>4, <2>5
<1>6. l < victim \/ l > victim
  BY <1>1
<1> QED
  BY <1>4, <1>5, <1>6, Zenon

\* A line that was moved as a whole, or not at all, is whole.
LEMMA WholeInMixed ==
    ASSUME Shape, NEW w \in Place .. Len(After), disk = Mixed(w),
           NEW l \in Numbers \ {victim},
           At(l) + lengths[l] <= w \/ Ends(l - 1) > w
    PROVE  Whole(l)
<1>1. /\ disk \in Seq(Byte) /\ Len(disk) = Len(Before)
      /\ \A i \in 1 .. Len(Before) :
           disk[i] = IF i <= w THEN After[i] ELSE Before[i]
  BY MixedFacts
<1>2. /\ Place \in Nat /\ Len(After) \in Nat /\ Gap \in Nat
      /\ Len(Before) = Len(After) + Gap
      /\ lengths \in Seq(Nat \ {0}) /\ w \in Nat
  BY AfterLayout DEF Shape
<1>3. CASE At(l) + lengths[l] <= w
  <2>1. /\ At(l) \in Nat /\ lengths[l] \in Nat
        /\ \A o \in 1 .. lengths[l] : After[At(l) + o] = <<l, o>>
        /\ At(l) = 0 \/ \E k \in Numbers : After[At(l)] = <<k, lengths[k]>>
    BY AfterLine
  <2>2. At(l) + lengths[l] <= Len(disk)
    BY <1>1, <1>2, <1>3, <2>1
  <2>3. \A o \in 1 .. lengths[l] : disk[At(l) + o] = <<l, o>>
    <3>1. \A o \in 1 .. lengths[l] : At(l) + o \in 1 .. Len(Before) /\ At(l) + o <= w
      BY <1>2, <1>3, <2>1
    <3> QED
      BY <1>1, <2>1, <3>1
  <2>4. At(l) # 0 => disk[At(l)] = After[At(l)]
    <3>1. At(l) # 0 => At(l) \in 1 .. Len(Before) /\ At(l) <= w
      BY <1>2, <1>3, <2>1
    <3> QED
      BY <1>1, <3>1
  <2> QED
    BY <1>1, <1>2, <2>1, <2>2, <2>3, <2>4, Reads
<1>4. CASE Ends(l - 1) > w
  <2>1. /\ l - 1 \in 0 .. Len(lengths) /\ l \in 0 .. Len(lengths)
        /\ Len(lengths) \in 0 .. Len(lengths) /\ l <= Len(lengths)
        /\ l \in Numbers
    BY <1>2, LenProperties DEF Numbers
  <2>2. /\ Ends(l - 1) \in Nat /\ lengths[l] \in Nat
        /\ Ends(l) = Ends(l - 1) + lengths[l] /\ Ends(l) <= Len(Before)
        /\ \A o \in 1 .. lengths[l] : Before[Ends(l - 1) + o] = <<l, o>>
    BY <1>2, <2>1, Layout, LineFacts
  <2>3. \A o \in 1 .. lengths[l] : disk[Ends(l - 1) + o] = <<l, o>>
    <3>1. \A o \in 1 .. lengths[l] :
            Ends(l - 1) + o \in 1 .. Len(Before) /\ ~(Ends(l - 1) + o <= w)
      BY <1>2, <1>4, <2>2
    <3> QED
      BY <1>1, <2>2, <3>1
  <2>4. l - 1 \in Numbers /\ disk[Ends(l - 1)] = <<l - 1, lengths[l - 1]>>
    <3>1. /\ Ends(l - 1) > 0 /\ Ends(l - 1) \in 1 .. Len(Before)
          /\ ~(Ends(l - 1) <= w)
      BY <1>2, <1>4, <2>2
    <3>2. l - 1 \in Numbers /\ Before[Ends(l - 1)] = <<l - 1, lengths[l - 1]>>
      BY <1>2, <2>1, <3>1, LineFeed
    <3> QED
      BY <1>1, <3>1, <3>2
  <2>5. Ends(l - 1) + lengths[l] <= Len(disk)
    BY <1>1, <2>2
  <2> QED
    BY <1>1, <1>2, <2>1, <2>2, <2>3, <2>4, <2>5, Reads
<1> QED
  BY <1>3, <1>4

LEMMA OneTorn ==
    ASSUME Shape, NEW w \in Place .. Len(After), disk = Mixed(w),
           NEW l \in Numbers \ {victim}, NEW m \in Numbers \ {victim}, l < m
    PROVE  Whole(l) \/ Whole(m)
<1> SUFFICES ASSUME ~Whole(l), ~Whole(m) PROVE FALSE
  OBVIOUS
<1>1. /\ ~(At(l) + lengths[l] <= w) /\ ~(Ends(m - 1) > w)
  BY WholeInMixed
<1>2. /\ Place \in Nat /\ Gap \in Nat /\ Gap > 0 /\ Len(After) \in Nat
      /\ lengths \in Seq(Nat \ {0})
  BY AfterLayout DEF Shape
<1>3. /\ At(l) \in Nat /\ lengths[l] \in Nat
      /\ l < victim => At(l) + lengths[l] <= Place
      /\ l > victim => At(l) = Ends(l - 1) - Gap
  BY AfterLine
<1>4. /\ l \in Int /\ victim \in Int /\ l # victim /\ l <= m - 1
      /\ l \in 0 .. Len(lengths) /\ m - 1 \in 0 .. Len(lengths)
      /\ l - 1 \in 0 .. Len(lengths)
  BY <1>2, LenProperties DEF Shape, Numbers
<1>5. /\ Ends(l) = Ends(l - 1) + lengths[l] /\ Ends(l) <= Ends(m - 1)
      /\ Ends(l - 1) \in Nat /\ Ends(m - 1) \in Nat
  BY <1>2, <1>4, Layout
<1>6. l > victim
  BY <1>1, <1>2, <1>3, <1>4
<1> QED
  BY <1>1, <1>2, <1>3, <1>5, <1>6

LEMMA WholeInAfter ==
    ASSUME Shape, disk = After, NEW l \in Numbers \ {victim}
    PROVE  Whole(l)
BY AfterLine, AfterLayout, Reads DEF Shape

\* Wherever the program or the machine stops while the file is moved, every
\* other bookmark but one can still be read.
THEOREM OneDamaged == DeleteSpec => []AtMostOneTorn
<1>1. Moving => AtMostOneTorn
  <2> SUFFICES ASSUME Moving, NEW l \in Numbers \ {victim},
                      NEW m \in Numbers \ {victim}, l # m
               PROVE  Whole(l) \/ Whole(m)
    BY DEF AtMostOneTorn, Numbers
  <2>1. Shape
    BY DEF Moving
  <2>2. l < m \/ m < l
    BY <2>1, LenProperties DEF Numbers, Shape
  <2>3. CASE pc = "done"
    BY <2>1, <2>3, WholeInAfter DEF Moving
  <2>4. CASE pc # "done"
    <3>1. PICK w \in Place .. Len(After) : disk = Mixed(w)
      <4>1. Place \in Place .. Len(After)
        BY <2>1, AfterLayout
      <4> QED
        BY <2>1, <2>4, <4>1, BeforeIsMixed DEF Moving
    <3> QED
      BY <2>1, <2>2, <3>1, OneTorn
  <2> QED
    BY <2>3, <2>4
<1> QED
  BY <1>1, InitMoving, NextMoving, PTL DEF DeleteSpec
=============================================================================
