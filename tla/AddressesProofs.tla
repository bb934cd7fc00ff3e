---------------------------- MODULE AddressesProofs ----------------------------
(***************************************************************************)
(* Where the user goes from a page.  The name suggested for a file can be  *)
(* created; what buildgopherurl() prints of a location is parsed into that *)
(* location again; and editstring(), called with any text that fits in its *)
(* array, is what TextField says of a text and its cursor.                 *)
(***************************************************************************)
EXTENDS Addresses, Induction, TLAPS, SequenceTheorems

-----------------------------------------------------------------------------
(* The scan of a selector for its last part.                               *)

\* What texts are made of.
Substitute == "_"
Digits == ToSet(DigitSeq)
Symbols == STRING \cup Digits
             \cup {Substitute, ":", "/", "%", "gopher", "http", "telnet", "1", "h", "8", "9"}

Scans == [start : Nat, dot : Nat]
Begun == [start |-> 1, dot |-> 0]

\* The scan after each of the characters.
ScansOf(selector) ==
    {f \in [0 .. Len(selector) -> Scans] :
        /\ f[0] = Begun
        /\ \A n \in 1 .. Len(selector) : f[n] = Scanned(f[n - 1], n, selector[n])}

LEMMA ScannedIsScan ==
    ASSUME NEW scan \in Scans, NEW at \in Nat, NEW c
    PROVE  Scanned(scan, at, c) \in Scans
BY DEF Scanned, Scans

LEMMA ScanIsDefined ==
    ASSUME NEW selector, Len(selector) \in Nat
    PROVE  \E f \in ScansOf(selector) : Scan(selector) = f[Len(selector)]
<1> DEFINE F(s) == [n \in 0 .. Len(selector) |->
                      IF n = 0 THEN [start |-> 1, dot |-> 0]
                      ELSE Scanned(s[n - 1], n, selector[n])]
           chosen == CHOOSE s : s = F(s)
<1>1. PICK size \in Nat : size = Len(selector)
  OBVIOUS
<1>2. \E s : s = F(s)
  <2> DEFINE Step(x) == IF x[1] < size
                        THEN Scanned(x[2], x[1] + 1, selector[x[1] + 1])
                        ELSE x[2]
             h == [x \in Nat \X Scans |-> Step(x)]
  <2>1. h \in [Nat \X Scans -> Scans]
    <3>1. ASSUME NEW x \in Nat \X Scans PROVE Step(x) \in Scans
      <4>1. x[1] + 1 \in Nat /\ x[2] \in Scans
        OBVIOUS
      <4> QED
        BY <4>1, ScannedIsScan
    <3> HIDE DEF Step
    <3> QED
      BY <3>1
  <2>2. Begun \in Scans
    BY DEF Begun, Scans
  <2>3. PICK f \in Iterations(Scans, Begun, h) : TRUE
    BY <2>1, <2>2, RecursionOnNat
  <2>4. /\ f \in [Nat -> Scans] /\ f[0] = Begun
        /\ \A n \in Nat : f[n + 1] = h[<<n, f[n]>>]
    BY DEF Iterations
  <2>5. ASSUME NEW n \in 0 .. size, n # 0
        PROVE  f[n] = Scanned(f[n - 1], n, selector[n])
    <3>1. n - 1 \in Nat /\ (n - 1) + 1 = n /\ n - 1 < size
      BY <2>5
    <3>2. <<n - 1, f[n - 1]>> \in Nat \X Scans
      BY <2>4, <3>1
    <3>3. f[n] = h[<<n - 1, f[n - 1]>>]
      <4> HIDE DEF h
      <4>1. f[(n - 1) + 1] = h[<<n - 1, f[n - 1]>>]
        BY <2>4, <3>1, Zenon
      <4> QED
        BY <3>1, <4>1, Zenon
    <3>4. h[<<n - 1, f[n - 1]>>] = Step(<<n - 1, f[n - 1]>>)
      BY <3>2
    <3>5. Step(<<n - 1, f[n - 1]>>) = Scanned(f[n - 1], n, selector[n])
      BY <3>1
    <3> QED
      BY <3>3, <3>4, <3>5
  <2> DEFINE s == [n \in 0 .. Len(selector) |-> f[n]]
  <2>6. s = F(s)
    <3> HIDE DEF h
    <3>1. ASSUME NEW n \in 0 .. size PROVE s[n] = F(s)[n]
      <4>1. CASE n = 0
        BY <1>1, <2>4, <4>1 DEF Begun
      <4>2. CASE n # 0
        <5>1. n - 1 \in 0 .. size
          BY <4>2
        <5>2. s[n] = f[n] /\ s[n - 1] = f[n - 1]
          BY <1>1, <5>1
        <5>3. F(s)[n] = Scanned(s[n - 1], n, selector[n])
          BY <1>1, <4>2
        <5> QED
          BY <2>5, <4>2, <5>2, <5>3
      <4> QED
        BY <4>1, <4>2
    <3> QED
      BY <1>1, <3>1
  <2> QED
    BY <2>6
<1>3. chosen = F(chosen)
  BY <1>2
<1>4. Scan(selector) = chosen[Len(selector)]
  BY DEF Scan
<1> HIDE DEF chosen
<1>5. /\ chosen[0] = Begun
      /\ \A n \in 1 .. size : chosen[n] = Scanned(chosen[n - 1], n, selector[n])
  <2>1. \A n \in 1 .. size : n \in 0 .. size /\ n # 0
    OBVIOUS
  <2>2. 0 \in 0 .. size
    OBVIOUS
  <2> QED
    BY <1>1, <1>3, <2>1, <2>2 DEF Begun
<1>6. \A n \in 0 .. size : chosen[n] \in Scans
  <2> DEFINE Good == {n \in Nat : n <= size => chosen[n] \in Scans}
  <2>1. 0 \in Good
    BY <1>5 DEF Begun, Scans
  <2>2. ASSUME NEW n \in Nat, n \in Good PROVE n + 1 \in Good
    <3>1. SUFFICES ASSUME n + 1 <= size PROVE chosen[n + 1] \in Scans
      OBVIOUS
    <3>2. n <= size /\ n + 1 \in 1 .. size /\ (n + 1) - 1 = n
      BY <3>1
    <3>3. chosen[n] \in Scans
      BY <2>2, <3>2
    <3>4. chosen[n + 1] = Scanned(chosen[n], n + 1, selector[n + 1])
      BY <1>5, <3>2
    <3> QED
      BY <3>3, <3>4, ScannedIsScan
  <2> HIDE DEF Good
  <2>3. \A n \in Nat : n \in Good
    BY <2>1, <2>2, NatSetInduction
  <2> QED
    BY <2>3 DEF Good
<1>7. chosen \in ScansOf(selector)
  <2>1. chosen = [n \in 0 .. size |-> chosen[n]]
    BY <1>1, <1>3
  <2>2. chosen \in [0 .. size -> Scans]
    BY <1>6, <2>1
  <2> QED
    BY <1>1, <1>5, <2>2 DEF ScansOf
<1> QED
  BY <1>4, <1>7

\* What is known of every scan: where the part starts and where its last dot is.
Scanning(selector, scan, n) ==
    /\ scan.start \in 1 .. n + 1
    /\ scan.dot = 0 \/ scan.dot \in scan.start .. n

\* In a path, the part starts behind the last slash, and a dot that was not
\* seen is where a part starts.
PathScanned(selector, scan, n) ==
    /\ scan.start > 1 => selector[scan.start - 1] = "/"
    /\ \A i \in scan.start .. n : selector[i] # "/"
    /\ scan.dot > 0 => selector[scan.dot] = "."
    /\ \A i \in scan.start + 1 .. n : selector[i] = "." => i <= scan.dot

LEMMA ScanStep ==
    ASSUME NEW selector, NEW n \in Nat, NEW scan \in Scans,
           Scanning(selector, scan, n)
    PROVE  LET next == Scanned(scan, n + 1, selector[n + 1])
           IN  /\ Scanning(selector, next, n + 1)
               /\ (selector[n + 1] = "/" => n = 0 \/ selector[n] # "/")
                  /\ PathScanned(selector, scan, n)
                    => PathScanned(selector, next, n + 1)
<1> DEFINE c == selector[n + 1]
           next == Scanned(scan, n + 1, c)
<1>1. PICK start \in Nat : start = scan.start
  BY DEF Scans
<1>2. PICK dot \in Nat : dot = scan.dot
  BY DEF Scans
<1>3. start \in 1 .. n + 1 /\ (dot = 0 \/ dot \in start .. n)
  BY <1>1, <1>2 DEF Scanning
<1>4. \/ next = scan
      \/ c = "/" /\ next.start = n + 2 /\ next.dot = 0
      \/ c = "." /\ next.start = start /\ next.dot = n + 1
  BY <1>1 DEF Scanned, Scans
<1>5. next = scan => (n + 1 = start /\ n > 0) \/ (c # "/" /\ c # ".")
  <2>1. SUFFICES ASSUME next = scan, ~(n + 1 = start /\ n > 0)
                 PROVE  c # "/" /\ c # "."
    OBVIOUS
  <2>2. ~(n + 1 = scan.start /\ n + 1 > 1)
    BY <1>1, <2>1
  <2>3. c # "/"
    <3>1. c = "/" => next = [start |-> (n + 1) + 1, dot |-> 0]
      BY <2>2 DEF Scanned
    <3>2. (n + 1) + 1 # start
      BY <1>3
    <3> QED
      BY <1>1, <2>1, <3>1, <3>2
  <2>4. c # "."
    <3>1. c = "." => next = [scan EXCEPT !.dot = n + 1]
      BY <2>2 DEF Scanned
    <3>2. n + 1 # dot
      BY <1>3
    <3> QED
      BY <1>2, <2>1, <3>1, <3>2 DEF Scans
  <2> QED
    BY <2>3, <2>4
<1> HIDE DEF next
<1>6. Scanning(selector, next, n + 1)
  BY <1>1, <1>2, <1>3, <1>4 DEF Scanning
<1>7. ASSUME selector[n + 1] = "/" => n = 0 \/ selector[n] # "/",
             PathScanned(selector, scan, n)
      PROVE  PathScanned(selector, next, n + 1)
  <2>1. /\ start > 1 => selector[start - 1] = "/"
        /\ \A i \in start .. n : selector[i] # "/"
        /\ dot > 0 => selector[dot] = "."
        /\ \A i \in start + 1 .. n : selector[i] = "." => i <= dot
    BY <1>1, <1>2, <1>7 DEF PathScanned
  <2>2. CASE next = scan
    <3>1. c # "/"
      <4>1. CASE n + 1 = start /\ n > 0
        <5>1. selector[n] = "/"
          BY <2>1, <4>1
        <5> QED
          BY <1>7, <4>1, <5>1
      <4> QED
        BY <1>5, <2>2, <4>1
    <3>2. \A i \in start .. n + 1 : selector[i] # "/"
      <4>1. \A i \in start .. n + 1 : i \in start .. n \/ i = n + 1
        OBVIOUS
      <4> QED
        BY <2>1, <3>1, <4>1
    <3>3. \A i \in start + 1 .. n + 1 : selector[i] = "." => i <= dot
      <4>1. \A i \in start + 1 .. n + 1 :
              i \in start + 1 .. n \/ (i = n + 1 /\ n + 1 # start)
        OBVIOUS
      <4> QED
        BY <1>5, <2>1, <2>2, <4>1
    <3> QED
      BY <1>1, <1>2, <2>1, <2>2, <3>2, <3>3 DEF PathScanned
  <2>3. CASE c = "/" /\ next.start = n + 2 /\ next.dot = 0
    <3>1. (n + 2) - 1 = n + 1 /\ n + 2 .. n + 1 = {} /\ (n + 2) + 1 .. n + 1 = {}
      OBVIOUS
    <3> QED
      BY <2>3, <3>1 DEF PathScanned
  <2>4. CASE c = "." /\ next.start = start /\ next.dot = n + 1
    <3>1. \A i \in start .. n + 1 : selector[i] # "/"
      <4>1. \A i \in start .. n + 1 : i \in start .. n \/ i = n + 1
        OBVIOUS
      <4> QED
        BY <2>1, <2>4, <4>1
    <3>2. \A i \in start + 1 .. n + 1 : i <= n + 1
      OBVIOUS
    <3> QED
      BY <2>1, <2>4, <3>1, <3>2 DEF PathScanned
  <2> QED
    BY <1>4, <2>2, <2>3, <2>4
<1> QED
  BY <1>6, <1>7 DEF next

\* The scan of a whole selector.
LEMMA ScanFinds ==
    ASSUME NEW selector, Len(selector) \in Nat
    PROVE  /\ Scan(selector) \in Scans
           /\ Scanning(selector, Scan(selector), Len(selector))
           /\ (\A i \in 2 .. Len(selector) : selector[i] = "/" => selector[i - 1] # "/")
                => PathScanned(selector, Scan(selector), Len(selector))
<1>1. PICK f \in ScansOf(selector) : Scan(selector) = f[Len(selector)]
  BY ScanIsDefined
<1>2. PICK size \in Nat : size = Len(selector)
  OBVIOUS
<1>3. /\ f \in [0 .. size -> Scans] /\ f[0] = Begun
      /\ \A n \in 1 .. size : f[n] = Scanned(f[n - 1], n, selector[n])
  BY <1>2 DEF ScansOf
<1> DEFINE Parted == \A i \in 2 .. size : selector[i] = "/" => selector[i - 1] # "/"
           Good == {n \in Nat : n <= size =>
                      /\ Scanning(selector, f[n], n)
                      /\ Parted => PathScanned(selector, f[n], n)}
<1>4. 0 \in Good
  <2>1. Scanning(selector, Begun, 0)
    BY DEF Begun, Scanning
  <2>2. PathScanned(selector, Begun, 0)
    BY DEF Begun, PathScanned
  <2> QED
    BY <1>3, <2>1, <2>2
<1>5. ASSUME NEW n \in Nat, n \in Good PROVE n + 1 \in Good
  <2>1. SUFFICES ASSUME n + 1 <= size
                 PROVE  /\ Scanning(selector, f[n + 1], n + 1)
                        /\ Parted => PathScanned(selector, f[n + 1], n + 1)
    OBVIOUS
  <2>2. n <= size /\ n \in 0 .. size /\ n + 1 \in 1 .. size /\ (n + 1) - 1 = n
        /\ (n = 0 \/ n + 1 \in 2 .. size)
    BY <2>1
  <2>3. /\ Scanning(selector, f[n], n)
        /\ Parted => PathScanned(selector, f[n], n)
    BY <1>5, <2>2
  <2>4. f[n] \in Scans /\ f[n + 1] = Scanned(f[n], n + 1, selector[n + 1])
    BY <1>3, <2>2
  <2>5. Parted => (selector[n + 1] = "/" => n = 0 \/ selector[n] # "/")
    <3> SUFFICES ASSUME Parted PROVE selector[n + 1] = "/" => n = 0 \/ selector[n] # "/"
      OBVIOUS
    <3>1. n + 1 \in 2 .. size => (selector[n + 1] = "/" => selector[(n + 1) - 1] # "/")
      OBVIOUS
    <3> QED
      BY <2>2, <3>1
  <2> HIDE DEF Parted
  <2> QED
    BY <2>3, <2>4, <2>5, ScanStep
<1> HIDE DEF Good
<1>6. size \in Good
  BY <1>4, <1>5, NatSetInduction
<1>7. f[size] \in Scans
  BY <1>3
<1> QED
  BY <1>1, <1>2, <1>6, <1>7 DEF Good

-----------------------------------------------------------------------------
(* What is made of it.                                                     *)

\* The two parts of a name, and where they are in the selector.
InTwoParts(selector, start, dot, size) ==
    /\ start \in 1 .. size + 1 /\ (dot = 0 \/ dot \in start .. size)
    /\ Stem(selector) = SubSeq(selector, start, IF dot = 0 THEN size ELSE dot - 1)
    /\ Extension(selector) = IF dot \in {0, size} THEN <<>>
                             ELSE SubSeq(selector, dot, size)
    /\ Stem(selector) \in Seq(Symbols)
    /\ Len(Stem(selector)) = (IF dot = 0 THEN size ELSE dot - 1) - start + 1
    /\ Extension(selector) \in Seq(Symbols)
    /\ Len(Extension(selector)) = IF dot \in {0, size} THEN 0 ELSE size - dot + 1

LEMMA NameParts ==
    ASSUME NEW selector \in Seq(Symbols),
           NEW start \in Nat, start = Scan(selector).start,
           NEW dot \in Nat, dot = Scan(selector).dot,
           NEW size \in Nat, size = Len(selector)
    PROVE  InTwoParts(selector, start, dot, size)
<1>1. start \in 1 .. size + 1 /\ (dot = 0 \/ dot \in start .. size)
  BY ScanFinds DEF Scanning
<1>2. \A i \in 1 .. size : selector[i] \in Symbols
  BY ElementOfSeq
<1>3. PICK end \in Nat : end = (IF dot = 0 THEN size ELSE dot - 1) /\ end <= size
                         /\ start <= end + 1
  BY <1>1
<1>4. Stem(selector) = SubSeq(selector, start, end)
  BY <1>3 DEF Stem
<1>5. Extension(selector) = IF dot \in {0, size} THEN <<>>
                            ELSE SubSeq(selector, dot, size)
  BY DEF Extension
<1>6. /\ SubSeq(selector, start, end) \in Seq(Symbols)
      /\ Len(SubSeq(selector, start, end)) = IF start <= end THEN end - start + 1 ELSE 0
  <2>1. \A i \in start .. end : selector[i] \in Symbols
    <3>1. \A i \in start .. end : i \in 1 .. size
      BY <1>1, <1>3
    <3> QED
      BY <1>2, <3>1
  <2> QED
    BY <2>1, SubSeqProperties
<1>7. Len(Stem(selector)) = end - start + 1
  BY <1>1, <1>3, <1>4, <1>6
<1>8. /\ Extension(selector) \in Seq(Symbols)
      /\ Len(Extension(selector)) = IF dot \in {0, size} THEN 0 ELSE size - dot + 1
  <2>1. CASE dot \in {0, size}
    BY <1>5, <2>1, EmptySeq
  <2>2. CASE dot \notin {0, size}
    <3>1. \A i \in dot .. size : selector[i] \in Symbols
      <4>1. \A i \in dot .. size : i \in 1 .. size
        BY <1>1, <2>2
      <4> QED
        BY <1>2, <4>1
    <3>2. /\ SubSeq(selector, dot, size) \in Seq(Symbols)
          /\ Len(SubSeq(selector, dot, size)) = IF dot <= size THEN size - dot + 1 ELSE 0
      BY <3>1, SubSeqProperties
    <3>3. dot <= size
      BY <1>1, <2>2
    <3> QED
      BY <1>5, <2>2, <3>2, <3>3
  <2> QED
    BY <2>1, <2>2
<1> QED
  BY <1>1, <1>3, <1>4, <1>5, <1>6, <1>7, <1>8 DEF InTwoParts

LEMMA ReplacedText ==
    ASSUME NEW text \in Seq(Symbols)
    PROVE  /\ Replaced(text) \in Seq(Symbols) /\ Len(Replaced(text)) = Len(text)
           /\ \A i \in 1 .. Len(text) :
                Replaced(text)[i] = IF text[i] \in Shady THEN Substitute ELSE text[i]
           /\ Substitute \notin Shady => ToSet(Replaced(text)) \cap Shady = {}
<1>1. PICK n \in Nat : n = Len(text) /\ DOMAIN text = 1 .. n
  BY LenProperties
<1>2. \A i \in 1 .. n : text[i] \in Symbols
  BY <1>1, ElementOfSeq
<1>3. Replaced(text) = [i \in 1 .. n |-> IF text[i] \in Shady THEN Substitute ELSE text[i]]
  BY <1>1, Zenon DEF Replaced, Substitute
<1>4. Replaced(text) \in [1 .. n -> Symbols]
  <2> DEFINE char(i) == IF text[i] \in Shady THEN Substitute ELSE text[i]
  <2>1. \A i \in 1 .. n : char(i) \in Symbols
    BY <1>2 DEF Symbols
  <2>2. Replaced(text) = [i \in 1 .. n |-> char(i)]
    BY <1>3
  <2> HIDE DEF char
  <2> QED
    BY <2>1, <2>2
<1>5. Replaced(text) \in Seq(Symbols)
  BY <1>4, SeqDef
<1>6. Len(Replaced(text)) = n /\ DOMAIN Replaced(text) = 1 .. n
  BY <1>4, <1>5, LenProperties
<1>7. Substitute \notin Shady => ToSet(Replaced(text)) \cap Shady = {}
  BY <1>3, <1>6 DEF ToSet
<1> QED
  BY <1>1, <1>3, <1>5, <1>6, <1>7

\* Joining a part of the stem and the extension.
Joined(selector, flen) == SubSeq(Stem(selector), 1, flen) \o Extension(selector)

\* The lengths are computed in 16 bits, which matters only for an extension
\* that does not fit.
CopiedOf(s, e, n) == IF s + e < n THEN s ELSE (n - 1 - e) % 2^16

LEMMA CopiedRoom ==
    ASSUME NEW s \in Nat, NEW e \in Nat, NEW n \in Nat \ {0}, n <= 2^16
    PROVE  /\ CopiedOf(s, e, n) \in Nat
           /\ e < n => CopiedOf(s, e, n) = IF s + e < n THEN s ELSE n - 1 - e
           /\ CopiedOf(s, e, n) + e >= n <=> e >= n
<1> DEFINE c == CopiedOf(s, e, n)
<1>0. c = IF s + e < n THEN s ELSE (n - 1 - e) % 2^16
  BY DEF CopiedOf
<1> HIDE DEF c
<1>1. 2^16 = 65536
  OBVIOUS
<1>2. \A r \in Int : r % 65536 \in Nat
  OBVIOUS
<1>3. c \in Nat
  <2>1. n - 1 - e \in Int
    OBVIOUS
  <2>2. (n - 1 - e) % 2^16 \in Nat
    BY <1>1, <1>2, <2>1
  <2> QED
    BY <1>0, <2>2
<1>4. ASSUME e < n PROVE c = IF s + e < n THEN s ELSE n - 1 - e
  <2>1. PICK r \in Nat : r = n - 1 - e /\ r < 65536
    BY <1>1, <1>4
  <2>2. r % 65536 = r
    BY <2>1
  <2>3. (n - 1 - e) % 2^16 = n - 1 - e
    BY <1>1, <2>1, <2>2
  <2> QED
    BY <1>0, <2>3, Zenon
<1>5. ASSUME c + e >= n PROVE e >= n
  BY <1>3, <1>4, <1>5
<1>6. e >= n => c + e >= n
  BY <1>3
<1> QED
  BY <1>3, <1>4, <1>5, <1>6 DEF c

LEMMA NameShape ==
    ASSUME NEW selector \in Seq(Symbols), NEW n \in Nat \ {0}, n <= 2^16,
           ~NameOverruns(n, selector)
    PROVE  \/ /\ genfnamefromselector(n, selector) = <<>>
              /\ Len(Stem(selector)) = 0 \/ Len(Extension(selector)) = n - 1
           \/ \E flen \in 1 .. Len(Stem(selector)) :
                /\ genfnamefromselector(n, selector) = Replaced(Joined(selector, flen))
                /\ flen = Len(Stem(selector))
                     \/ flen + Len(Extension(selector)) = n - 1
                /\ flen + Len(Extension(selector)) < n
                /\ SubSeq(Stem(selector), 1, flen) \in Seq(Symbols)
                /\ Len(SubSeq(Stem(selector), 1, flen)) = flen
<1>1. PICK start, dot, size \in Nat :
        start = Scan(selector).start /\ dot = Scan(selector).dot
        /\ size = Len(selector)
  BY ScanFinds, LenProperties DEF Scans
<1>2. Stem(selector) \in Seq(Symbols) /\ Extension(selector) \in Seq(Symbols)
  BY <1>1, NameParts DEF InTwoParts
<1>3. PICK s \in Nat : s = Len(Stem(selector))
  BY <1>2, LenProperties
<1>4. PICK e \in Nat : e = Len(Extension(selector))
  BY <1>2, LenProperties
<1>5. e < n /\ Copied(n, selector) \in Nat
      /\ Copied(n, selector) = IF s + e < n THEN s ELSE n - 1 - e
  <2>1. Copied(n, selector) = CopiedOf(s, e, n)
    BY <1>3, <1>4, Zenon DEF Copied, CopiedOf
  <2>2. ~(Copied(n, selector) + e >= n)
    BY <1>4 DEF NameOverruns
  <2>3. /\ CopiedOf(s, e, n) \in Nat
        /\ e < n => CopiedOf(s, e, n) = IF s + e < n THEN s ELSE n - 1 - e
        /\ CopiedOf(s, e, n) + e >= n <=> e >= n
    BY CopiedRoom
  <2>4. ~(e >= n)
    BY <2>1, <2>2, <2>3, Zenon
  <2>5. e < n
    BY <2>4
  <2> QED
    BY <2>1, <2>3, <2>5, Zenon
<1>6. PICK flen \in Nat : flen = Copied(n, selector)
                           /\ flen = IF s + e < n THEN s ELSE n - 1 - e
  BY <1>5, Zenon
<1>7. genfnamefromselector(n, selector) =
        IF flen < 1 THEN <<>> ELSE Replaced(Joined(selector, flen))
  BY <1>6, Zenon DEF genfnamefromselector, Joined
<1>8. flen < 1 => s = 0 \/ e = n - 1
  BY <1>5, <1>6
<1>9. ASSUME ~(flen < 1)
      PROVE  /\ flen \in 1 .. s /\ (flen = s \/ flen + e = n - 1) /\ flen + e < n
             /\ SubSeq(Stem(selector), 1, flen) \in Seq(Symbols)
             /\ Len(SubSeq(Stem(selector), 1, flen)) = flen
  <2>1. flen \in 1 .. s /\ (flen = s \/ flen + e = n - 1) /\ flen + e < n
    BY <1>5, <1>6, <1>9
  <2>2. \A i \in 1 .. flen : Stem(selector)[i] \in Symbols
    <3>1. \A i \in 1 .. flen : i \in 1 .. s
      BY <2>1
    <3> QED
      BY <1>2, <1>3, <3>1, ElementOfSeq
  <2>3. /\ SubSeq(Stem(selector), 1, flen) \in Seq(Symbols)
        /\ Len(SubSeq(Stem(selector), 1, flen)) = IF 1 <= flen THEN flen - 1 + 1 ELSE 0
    BY <2>2, SubSeqProperties
  <2> QED
    BY <2>1, <2>3
<1> QED
  BY <1>3, <1>4, <1>7, <1>8, <1>9

\* Short enough, and without shady characters.
LEMMA NameIsCreatable ==
    ASSUME NEW selector \in Seq(Symbols), NEW n \in Nat \ {0}, n <= 2^16,
           ~NameOverruns(n, selector), Substitute \notin Shady
    PROVE  /\ Len(genfnamefromselector(n, selector)) < n
           /\ ToSet(genfnamefromselector(n, selector)) \cap Shady = {}
<1>1. PICK start, dot, size \in Nat :
        start = Scan(selector).start /\ dot = Scan(selector).dot
        /\ size = Len(selector)
  BY ScanFinds, LenProperties DEF Scans
<1>2. Extension(selector) \in Seq(Symbols)
  BY <1>1, NameParts DEF InTwoParts
<1>3. PICK e \in Nat : e = Len(Extension(selector))
  BY <1>2, LenProperties
<1>4. CASE genfnamefromselector(n, selector) = <<>>
  <2>1. Len(<<>>) = 0 /\ DOMAIN <<>> = {}
    <3>1. Len(<<>>) = 0
      BY EmptySeq
    <3>2. DOMAIN <<>> = {}
      OBVIOUS
    <3> QED
      BY <3>1, <3>2
  <2>2. ToSet(<<>>) = {}
    BY <2>1 DEF ToSet
  <2>3. 0 < n
    OBVIOUS
  <2> QED
    BY <1>4, <2>1, <2>2, <2>3
<1>5. ASSUME NEW flen \in Nat,
             genfnamefromselector(n, selector) = Replaced(Joined(selector, flen)),
             flen + e < n,
             SubSeq(Stem(selector), 1, flen) \in Seq(Symbols),
             Len(SubSeq(Stem(selector), 1, flen)) = flen
      PROVE  /\ Len(genfnamefromselector(n, selector)) < n
             /\ ToSet(genfnamefromselector(n, selector)) \cap Shady = {}
  <2>1. /\ Joined(selector, flen) \in Seq(Symbols)
        /\ Len(Joined(selector, flen)) =
             Len(SubSeq(Stem(selector), 1, flen)) + Len(Extension(selector))
    BY <1>2, <1>5, ConcatProperties DEF Joined
  <2>2. Len(Joined(selector, flen)) = flen + e
    BY <1>3, <1>5, <2>1, Zenon
  <2> QED
    BY <1>5, <2>1, <2>2, ReplacedText
<1>6. CASE \E flen \in 1 .. Len(Stem(selector)) :
             /\ genfnamefromselector(n, selector) = Replaced(Joined(selector, flen))
             /\ flen + Len(Extension(selector)) < n
             /\ SubSeq(Stem(selector), 1, flen) \in Seq(Symbols)
             /\ Len(SubSeq(Stem(selector), 1, flen)) = flen
  <2>1. PICK flen \in 1 .. Len(Stem(selector)) :
             /\ genfnamefromselector(n, selector) = Replaced(Joined(selector, flen))
             /\ flen + Len(Extension(selector)) < n
             /\ SubSeq(Stem(selector), 1, flen) \in Seq(Symbols)
             /\ Len(SubSeq(Stem(selector), 1, flen)) = flen
    BY <1>6
  <2>2. flen \in Nat
    <3>1. Len(Stem(selector)) \in Nat
      BY <1>1, NameParts, LenProperties DEF InTwoParts
    <3> QED
      BY <2>1, <3>1
  <2> QED
    BY <1>3, <1>5, <2>1, <2>2
<1> QED
  BY <1>4, <1>6, NameShape

-----------------------------------------------------------------------------
(* The name that is made of a path.                                        *)

LEMMA LastIndex ==
    ASSUME NEW text, NEW c, NEW size \in Nat, size = Len(text),
           NEW k \in 0 .. size, k = 0 \/ text[k] = c,
           \A i \in k + 1 .. size : text[i] # c
    PROVE  SelectLastInSeq(text, LAMBDA x : x = c) = k
<1> DEFINE I == {i \in 1 .. size : text[i] = c}
<1>1. SelectLastInSeq(text, LAMBDA x : x = c) = IF I # {} THEN Max(I) ELSE 0
  BY DEF SelectLastInSeq
<1>2. \A i \in I : i \in Nat /\ i <= k
  <2>1. \A i \in 1 .. size : i <= k \/ i \in k + 1 .. size
    OBVIOUS
  <2> QED
    BY <2>1
<1>3. CASE k = 0
  <2>1. I = {}
    BY <1>2, <1>3
  <2> QED
    BY <1>1, <1>3, <2>1
<1>4. CASE k # 0
  <2>1. k \in I
    BY <1>4
  <2> HIDE DEF I
  <2>2. \A x \in I : (\A y \in I : x >= y) => x = k
    BY <1>2, <2>1
  <2>3. \A y \in I : k >= y
    BY <1>2
  <2>4. Max(I) = k
    BY <2>1, <2>2, <2>3 DEF Max
  <2> QED
    BY <1>1, <2>1, <2>4
<1> QED
  BY <1>3, <1>4

\* In a path the scan finds the last part, and the last dot in it.
EndsIn(selector, start, dot, size) ==
    /\ start \in 1 .. size /\ (dot = 0 \/ dot \in start + 1 .. size)
    /\ LastPart(selector) = SubSeq(selector, start, size)
    /\ LastPart(selector) \in Seq(Symbols)
    /\ Len(LastPart(selector)) = size - start + 1
    /\ \A i \in 1 .. size - start + 1 :
         LastPart(selector)[i] = selector[start + i - 1]
    /\ SelectLastInSeq(LastPart(selector), LAMBDA c : c = ".") =
         IF dot = 0 THEN 0 ELSE dot - start + 1
    /\ dot > 0 => selector[dot] = "."
    /\ selector[size] # "/"

LEMMA PathParts ==
    ASSUME NEW selector \in Seq(Symbols), Path(selector),
           NEW start \in Nat, start = Scan(selector).start,
           NEW dot \in Nat, dot = Scan(selector).dot,
           NEW size \in Nat, size = Len(selector)
    PROVE  EndsIn(selector, start, dot, size)
<1> DEFINE part == LastPart(selector)
<1>1. /\ \A i \in 2 .. size : selector[i] = "/" => selector[i - 1] # "/"
      /\ part # <<>> /\ Head(part) # "."
  BY DEF Path
<1>2. /\ start \in 1 .. size + 1 /\ (dot = 0 \/ dot \in start .. size)
      /\ PathScanned(selector, Scan(selector), size)
  BY <1>1, ScanFinds DEF Scanning
<1>3. /\ start > 1 => selector[start - 1] = "/"
      /\ \A i \in start .. size : selector[i] # "/"
      /\ dot > 0 => selector[dot] = "."
      /\ \A i \in start + 1 .. size : selector[i] = "." => i <= dot
  BY <1>2 DEF PathScanned
<1>4. SelectLastInSeq(selector, LAMBDA c : c = "/") = start - 1
  <2>1. PICK k \in 0 .. size : k = start - 1 /\ k + 1 = start
    BY <1>2
  <2>2. k = 0 \/ selector[k] = "/"
    BY <1>3, <2>1
  <2>3. \A i \in k + 1 .. size : selector[i] # "/"
    BY <1>3, <2>1
  <2>4. SelectLastInSeq(selector, LAMBDA x : x = "/") = k
    BY <2>2, <2>3, LastIndex
  <2> QED
    BY <2>1, <2>4
<1>5. part = SubSeq(selector, start, size)
  <2>1. (start - 1) + 1 = start
    OBVIOUS
  <2> QED
    BY <1>4, <2>1, Zenon DEF LastPart
<1> HIDE DEF part
<1>6. \A i \in start .. size : selector[i] \in Symbols
  <2>1. \A i \in start .. size : i \in 1 .. size
    BY <1>2
  <2> QED
    BY <2>1, ElementOfSeq
<1>7. /\ part \in Seq(Symbols)
      /\ Len(part) = IF start <= size THEN size - start + 1 ELSE 0
      /\ \A i \in 1 .. size - start + 1 : part[i] = selector[start + i - 1]
  BY <1>5, <1>6, SubSeqProperties
<1>8. start <= size
  <2>1. Len(part) \in Nat \ {0}
    BY <1>1, <1>7, EmptySeq
  <2> QED
    BY <1>7, <2>1
<1>9. PICK n \in Nat : n = size - start + 1 /\ n >= 1
  BY <1>2, <1>8
<1>10. Len(part) = n /\ \A i \in 1 .. n : part[i] = selector[start + i - 1]
  BY <1>7, <1>8, <1>9
<1>11. selector[start] # "."
  <2>1. 1 \in 1 .. n /\ start + 1 - 1 = start
    BY <1>9
  <2>2. part[1] = selector[start]
    BY <1>10, <2>1
  <2>3. Head(part) = part[1]
    BY <1>1, <1>7
  <2> QED
    BY <1>1, <2>2, <2>3
<1>12. dot = 0 \/ dot \in start + 1 .. size
  BY <1>2, <1>3, <1>11
<1>13. SelectLastInSeq(part, LAMBDA c : c = ".") = IF dot = 0 THEN 0 ELSE dot - start + 1
  <2>1. PICK k \in Nat : k = IF dot = 0 THEN 0 ELSE dot - start + 1
    BY <1>12
  <2>2. k \in 0 .. n
    BY <1>9, <1>12, <2>1
  <2>3. k = 0 \/ part[k] = "."
    <3>1. ASSUME k # 0 PROVE part[k] = "."
      <4>0. dot # 0 /\ k = dot - start + 1
        BY <2>1, <3>1
      <4>1. k \in 1 .. n /\ start + k - 1 = dot /\ dot > 0
        BY <2>2, <3>1, <4>0
      <4> QED
        BY <1>3, <1>10, <4>1
    <3> QED
      BY <3>1
  <2>4. \A i \in k + 1 .. n : part[i] # "."
    <3> SUFFICES ASSUME NEW i \in k + 1 .. n PROVE part[i] # "."
      OBVIOUS
    <3>1. i \in 1 .. n /\ part[i] = selector[start + i - 1]
      BY <1>10
    <3>2. CASE start + i - 1 = start
      BY <1>11, <3>1, <3>2
    <3>3. CASE start + i - 1 # start
      <4>0. i \in Nat /\ i > k /\ i <= n
        BY <3>1
      <4>1. start + i - 1 \in start + 1 .. size
        BY <1>9, <3>3, <4>0
      <4>2. ~(start + i - 1 <= dot)
        <5>1. CASE dot = 0
          BY <1>2, <4>0, <5>1
        <5>2. CASE dot # 0
          <6>1. k = dot - start + 1
            BY <2>1, <5>2
          <6> QED
            BY <4>0, <6>1
        <5> QED
          BY <5>1, <5>2
      <4> QED
        BY <1>3, <3>1, <4>1, <4>2
    <3> QED
      BY <3>2, <3>3
  <2>5. SelectLastInSeq(part, LAMBDA x : x = ".") = k
    <3>1. n = Len(part)
      BY <1>10
    <3> QED
      BY <2>2, <2>3, <2>4, <3>1, LastIndex
  <2> QED
    BY <2>1, <2>5
<1>14. start \in 1 .. size /\ selector[size] # "/"
  BY <1>2, <1>3, <1>8
<1>15. Len(part) = size - start + 1
  BY <1>9, <1>10
<1> QED
  BY <1>3, <1>5, <1>7, <1>12, <1>13, <1>14, <1>15 DEF part, EndsIn

\* Replacing keeps an end an end.
LEMMA ReplacedEnd ==
    ASSUME NEW front \in Seq(Symbols), NEW end \in Seq(Symbols)
    PROVE  IsSuffix(Replaced(end), Replaced(front \o end))
<1> DEFINE e == Replaced(end)
           t == Replaced(front \o end)
<1>1. PICK k, m \in Nat : k = Len(front) /\ m = Len(end)
  BY LenProperties
<1>2. /\ front \o end \in Seq(Symbols) /\ Len(front \o end) = k + m
      /\ \A i \in 1 .. k + m : (front \o end)[i] = IF i <= k THEN front[i] ELSE end[i - k]
  <2>1. /\ front \o end \in Seq(Symbols)
        /\ Len(front \o end) = Len(front) + Len(end)
        /\ \A i \in 1 .. Len(front) + Len(end) : (front \o end)[i] =
             IF i <= Len(front) THEN front[i] ELSE end[i - Len(front)]
    BY ConcatProperties
  <2> QED
    BY <1>1, <2>1, Zenon
<1>3. /\ e \in Seq(Symbols) /\ Len(e) = m
      /\ \A i \in 1 .. m : e[i] = IF end[i] \in Shady THEN Substitute ELSE end[i]
  BY <1>1, ReplacedText
<1>4. /\ t \in Seq(Symbols) /\ Len(t) = k + m
      /\ \A i \in 1 .. k + m : t[i] = IF (front \o end)[i] \in Shady
                                      THEN Substitute ELSE (front \o end)[i]
  BY <1>2, ReplacedText
<1> HIDE DEF e, t
<1>5. ASSUME NEW i \in 1 .. m PROVE t[k + i] = e[i]
  <2>1. k + i \in 1 .. k + m /\ ~(k + i <= k) /\ (k + i) - k = i
    OBVIOUS
  <2>2. (front \o end)[k + i] = end[i]
    BY <1>2, <2>1
  <2> QED
    BY <1>3, <1>4, <2>1, <2>2
<1> DEFINE re == [i \in 1 .. Len(e) |-> e[(Len(e) - i) + 1]]
           rt == [i \in 1 .. Len(t) |-> t[(Len(t) - i) + 1]]
<1>6. /\ re \in Seq(Symbols) /\ Len(re) = m
      /\ \A i \in 1 .. m : re[i] = e[(m - i) + 1]
  <2>1. \A i \in 1 .. m : (m - i) + 1 \in 1 .. m
    OBVIOUS
  <2>2. \A i \in 1 .. m : e[(m - i) + 1] \in Symbols
    BY <1>3, <2>1, ElementOfSeq
  <2>3. re = [i \in 1 .. m |-> e[(m - i) + 1]]
    BY <1>3
  <2>4. re \in [1 .. m -> Symbols]
    BY <2>2, <2>3
  <2>5. re \in Seq(Symbols)
    BY <2>4, SeqDef
  <2>6. Len(re) = m
    BY <2>4, <2>5, LenProperties
  <2> QED
    BY <2>3, <2>5, <2>6
<1>7. /\ rt \in Seq(Symbols) /\ Len(rt) = k + m
      /\ \A i \in 1 .. k + m : rt[i] = t[((k + m) - i) + 1]
  <2>0. PICK n \in Nat : n = k + m
    OBVIOUS
  <2>1. \A i \in 1 .. n : (n - i) + 1 \in 1 .. n
    OBVIOUS
  <2>2. \A i \in 1 .. n : t[(n - i) + 1] \in Symbols
    BY <1>4, <2>0, <2>1, ElementOfSeq
  <2>3. rt = [i \in 1 .. n |-> t[(n - i) + 1]]
    BY <1>4, <2>0
  <2>4. rt \in [1 .. n -> Symbols]
    BY <2>2, <2>3
  <2>5. rt \in Seq(Symbols)
    BY <2>4, SeqDef
  <2>6. Len(rt) = n
    BY <2>4, <2>5, LenProperties
  <2> QED
    BY <2>0, <2>3, <2>5, <2>6
<1> HIDE DEF re, rt
<1>8. \A i \in 1 .. m : re[i] = rt[i]
  <2> SUFFICES ASSUME NEW i \in 1 .. m PROVE re[i] = rt[i]
    OBVIOUS
  <2>1. PICK j \in 1 .. m : j = (m - i) + 1
    OBVIOUS
  <2>2. i \in 1 .. k + m /\ ((k + m) - i) + 1 = k + j
    BY <2>1
  <2>3. rt[i] = t[k + j]
    BY <1>7, <2>2
  <2>4. re[i] = e[j]
    BY <1>6, <2>1
  <2> QED
    BY <1>5, <2>3, <2>4
<1>9. IsPrefix(re, rt)
  <2>1. \A i \in 1 .. m : re[i] \in Symbols /\ rt[i] \in Symbols
    BY <1>6, <1>8, ElementOfSeq
  <2>2. /\ SubSeq(re, 1, m) \in Seq(Symbols) /\ SubSeq(rt, 1, m) \in Seq(Symbols)
        /\ Len(SubSeq(re, 1, m)) = IF 1 <= m THEN m - 1 + 1 ELSE 0
        /\ Len(SubSeq(rt, 1, m)) = IF 1 <= m THEN m - 1 + 1 ELSE 0
        /\ \A i \in 1 .. m - 1 + 1 : SubSeq(re, 1, m)[i] = re[1 + i - 1]
        /\ \A i \in 1 .. m - 1 + 1 : SubSeq(rt, 1, m)[i] = rt[1 + i - 1]
    BY <2>1, SubSeqProperties
  <2>3. /\ Len(SubSeq(re, 1, m)) = m /\ Len(SubSeq(rt, 1, m)) = m
        /\ \A i \in 1 .. m : SubSeq(re, 1, m)[i] = re[i]
        /\ \A i \in 1 .. m : SubSeq(rt, 1, m)[i] = rt[i]
    BY <2>2
  <2>4. SubSeq(re, 1, m) = SubSeq(rt, 1, m)
    BY <1>8, <2>2, <2>3, SeqEqual
  <2>5. m <= k + m
    OBVIOUS
  <2> QED
    BY <1>6, <1>7, <2>4, <2>5, Zenon DEF IsPrefix
<1> QED
  BY <1>9 DEF IsSuffix, Reverse, re, rt, e, t

\* The extension of a path is that of its last part.
LEMMA PathExtension ==
    ASSUME NEW selector \in Seq(Symbols), Path(selector)
    PROVE  LET part == LastPart(selector)
               dot  == SelectLastInSeq(part, LAMBDA c : c = ".")
           IN  (IF dot \in {0, Len(part)} THEN <<>> ELSE SubSeq(part, dot, Len(part)))
                 = Extension(selector)
<1>1. PICK start, dot, size \in Nat :
        start = Scan(selector).start /\ dot = Scan(selector).dot
        /\ size = Len(selector)
  BY ScanFinds, LenProperties DEF Scans
<1> DEFINE part == LastPart(selector)
           ext == Extension(selector)
<1>2. /\ start \in 1 .. size /\ (dot = 0 \/ dot \in start + 1 .. size)
      /\ part = SubSeq(selector, start, size) /\ Len(part) = size - start + 1
      /\ SelectLastInSeq(part, LAMBDA c : c = ".") = IF dot = 0 THEN 0 ELSE dot - start + 1
  <2>1. EndsIn(selector, start, dot, size)
    BY <1>1, PathParts
  <2> QED
    BY <2>1, Zenon DEF EndsIn
<1>3. ext = IF dot \in {0, size} THEN <<>> ELSE SubSeq(selector, dot, size)
  <2>1. InTwoParts(selector, start, dot, size)
    BY <1>1, NameParts
  <2> QED
    BY <2>1, Zenon DEF InTwoParts
<1>4. PICK pdot, l \in Nat : /\ pdot = IF dot = 0 THEN 0 ELSE dot - start + 1
                             /\ l = size - start + 1
  BY <1>2
<1>5. pdot = SelectLastInSeq(part, LAMBDA c : c = ".") /\ l = Len(part)
  BY <1>2, <1>4, Zenon
<1> HIDE DEF part, ext
<1>6. pdot \in {0, l} <=> dot \in {0, size}
  BY <1>2, <1>4
<1>7. CASE dot \in {0, size}
  BY <1>3, <1>5, <1>6, <1>7 DEF part, ext
<1>8. CASE dot \notin {0, size}
  <2>6. start \in 1 .. size /\ dot \in start + 1 .. size /\ dot # 0
    BY <1>2, <1>8, Zenon
  <2>7. pdot = dot - start + 1 /\ l = size - start + 1
    BY <1>4, <2>6, Zenon
  <2>1. start + pdot - 1 = dot /\ start + l - 1 = size
    BY <2>6, <2>7
  <2>2. pdot \in 1 .. size - start + 1 /\ l \in 1 .. size - start + 1
    BY <2>6, <2>7
  <2>3. start \in 1 .. Len(selector) /\ size \in 1 .. Len(selector)
    BY <1>1, <1>2
  <2>4. SubSeq(SubSeq(selector, start, size), pdot, l)
          = SubSeq(selector, start + pdot - 1, start + l - 1)
    BY <2>2, <2>3, SubSeqOfSubSeq
  <2>5. SubSeq(part, pdot, l) = ext
    BY <1>2, <1>3, <1>8, <2>1, <2>4, Zenon DEF part
  <2> QED
    BY <1>5, <1>6, <1>8, <2>5 DEF part, ext
<1> QED
  BY <1>7, <1>8

LEMMA PathNamed ==
    ASSUME NEW selector \in Seq(Symbols), Path(selector), NEW n \in Nat, n <= 2^16,
           Len(Extension(selector)) < n - 1
    PROVE  LET part == LastPart(selector)
               name == genfnamefromselector(n, selector)
           IN  /\ name # <<>>
               /\ Len(part) < n /\ Last(part) # "." => name = Replaced(part)
               /\ IsSuffix(Replaced(Extension(selector)), name)
<1>1. PICK start, dot, size \in Nat :
        start = Scan(selector).start /\ dot = Scan(selector).dot
        /\ size = Len(selector)
  BY ScanFinds, LenProperties DEF Scans
<1> DEFINE part == LastPart(selector)
           name == genfnamefromselector(n, selector)
           stem == Stem(selector)
           ext == Extension(selector)
<1>2. /\ start \in 1 .. size /\ (dot = 0 \/ dot \in start + 1 .. size)
      /\ part = SubSeq(selector, start, size)
      /\ part \in Seq(Symbols) /\ Len(part) = size - start + 1
      /\ \A i \in 1 .. size - start + 1 : part[i] = selector[start + i - 1]
      /\ SelectLastInSeq(part, LAMBDA c : c = ".") = IF dot = 0 THEN 0 ELSE dot - start + 1
  <2>1. EndsIn(selector, start, dot, size)
    BY <1>1, PathParts
  <2> QED
    BY <2>1, Zenon DEF EndsIn
<1>3. /\ stem = SubSeq(selector, start, IF dot = 0 THEN size ELSE dot - 1)
      /\ ext = IF dot \in {0, size} THEN <<>> ELSE SubSeq(selector, dot, size)
      /\ stem \in Seq(Symbols)
      /\ Len(stem) = (IF dot = 0 THEN size ELSE dot - 1) - start + 1
      /\ ext \in Seq(Symbols)
      /\ Len(ext) = IF dot \in {0, size} THEN 0 ELSE size - dot + 1
  <2>1. InTwoParts(selector, start, dot, size)
    BY <1>1, NameParts
  <2> QED
    BY <2>1, Zenon DEF InTwoParts
<1>4. PICK s, e \in Nat : s = Len(stem) /\ e = Len(ext)
  BY <1>3, LenProperties
<1>5. s >= 1
  <2>1. s = (IF dot = 0 THEN size ELSE dot - 1) - start + 1
    BY <1>3, <1>4
  <2> QED
    BY <1>2, <2>1
<1> HIDE DEF part, name, stem, ext
<1>6. PICK flen \in 1 .. s :
        /\ name = Replaced(SubSeq(stem, 1, flen) \o ext)
        /\ flen = s \/ flen + e = n - 1
        /\ flen + e < n
        /\ SubSeq(stem, 1, flen) \in Seq(Symbols)
        /\ Len(SubSeq(stem, 1, flen)) = flen
  <2>1. s # 0 /\ e < n - 1 /\ n \in Nat \ {0}
    BY <1>4, <1>5 DEF ext
  <2>2. ~(Len(Stem(selector)) = 0) /\ ~(Len(Extension(selector)) = n - 1)
    <3>1. e # n - 1
      BY <2>1
    <3> QED
      BY <1>4, <2>1, <3>1 DEF stem, ext
  <2>4. ~NameOverruns(n, selector)
    <3>1. Copied(n, selector) = CopiedOf(s, e, n)
      BY <1>4, Zenon DEF Copied, CopiedOf, stem, ext
    <3>2. ~(e >= n)
      BY <2>1
    <3>3. ~(Copied(n, selector) + e >= n)
      BY <2>1, <3>1, <3>2, CopiedRoom
    <3> QED
      BY <1>4, <3>3 DEF NameOverruns, ext
  <2>3. PICK flen \in 1 .. Len(Stem(selector)) :
          /\ genfnamefromselector(n, selector) = Replaced(Joined(selector, flen))
          /\ flen = Len(Stem(selector))
               \/ flen + Len(Extension(selector)) = n - 1
          /\ flen + Len(Extension(selector)) < n
          /\ SubSeq(Stem(selector), 1, flen) \in Seq(Symbols)
          /\ Len(SubSeq(Stem(selector), 1, flen)) = flen
    BY <2>1, <2>2, <2>4, NameShape, Zenon
  <2> QED
    BY <1>4, <2>3, Zenon DEF Joined, name, stem, ext
<1>7. name # <<>>
  <2>1. /\ SubSeq(stem, 1, flen) \o ext \in Seq(Symbols)
        /\ Len(SubSeq(stem, 1, flen) \o ext) = Len(SubSeq(stem, 1, flen)) + Len(ext)
    BY <1>3, <1>6, ConcatProperties DEF stem, ext
  <2>2. Len(SubSeq(stem, 1, flen) \o ext) = flen + e
    BY <1>4, <1>6, <2>1, Zenon
  <2>3. Len(name) = flen + e
    BY <1>6, <2>1, <2>2, ReplacedText, Zenon
  <2>4. flen + e # 0
    OBVIOUS
  <2> QED
    BY <2>3, <2>4, EmptySeq, Zenon
<1>8. ASSUME Len(part) < n, Last(part) # "."
      PROVE  name = Replaced(part)
  <2>0. start \in 1 .. size
    BY <1>2
  <2>1. PICK l \in Nat : l = size - start + 1 /\ l >= 1 /\ start + l - 1 = size
    BY <2>0
  <2>2. part[l] = selector[size] /\ Len(part) = l
    <3>1. l \in 1 .. size - start + 1
      BY <2>1
    <3>2. part[l] = selector[start + l - 1]
      BY <1>2, <3>1 DEF part
    <3> QED
      BY <1>2, <2>1, <3>2 DEF part
  <2>3. l < n /\ selector[size] # "."
    BY <1>8, <2>2 DEF Last
  <2>4. stem \o ext = part /\ s + e = l
    <3>1. CASE dot = 0
      <4>1. stem = part /\ ext = <<>> /\ Len(ext) = 0 /\ Len(stem) = size - start + 1
        BY <1>2, <1>3, <3>1 DEF part, stem, ext
      <4>2. stem \o <<>> = stem
        BY <1>3, ConcatEmptySeq DEF stem
      <4>3. s = l /\ e = 0
        BY <1>4, <2>1, <4>1
      <4> QED
        BY <4>1, <4>2, <4>3
    <3>2. CASE dot # 0
      <4>1. dot \in start + 1 .. size
        BY <1>2, <3>2
      <4>2. dot # size
        <5>1. selector[dot] = "."
          <6>1. PathScanned(selector, Scan(selector), size)
            BY <1>1, ScanFinds DEF Path
          <6> QED
            BY <1>1, <4>1, <6>1 DEF PathScanned
        <5> QED
          BY <2>3, <5>1
      <4>3. /\ stem = SubSeq(selector, start, dot - 1)
            /\ ext = SubSeq(selector, dot, size)
            /\ Len(stem) = (dot - 1) - start + 1 /\ Len(ext) = size - dot + 1
        <5>1. dot \notin {0, size}
          BY <3>2, <4>2
        <5> QED
          BY <1>3, <3>2, <5>1 DEF stem, ext
      <4>4. s + e = l
        <5>1. s = (dot - 1) - start + 1 /\ e = size - dot + 1
          BY <1>4, <4>3
        <5> QED
          BY <2>1, <5>1
      <4>5. SubSeq(selector, start, dot - 1) \o SubSeq(selector, (dot - 1) + 1, size)
              = SubSeq(selector, start, size)
        <5>1. /\ start \in 1 .. size + 1 /\ dot - 1 \in start - 1 .. size
              /\ size \in dot - 1 .. size
          BY <1>2, <4>1
        <5>2. /\ start \in 1 .. Len(selector) + 1 /\ dot - 1 \in start - 1 .. Len(selector)
              /\ size \in dot - 1 .. Len(selector)
          BY <1>1, <5>1
        <5> QED
          BY <5>2, ConcatAdjacentSubSeq
      <4>6. (dot - 1) + 1 = dot
        OBVIOUS
      <4>7. part = SubSeq(selector, start, size)
        BY <1>2 DEF part
      <4> QED
        BY <4>3, <4>4, <4>5, <4>6, <4>7, Zenon
    <3> QED
      BY <3>1, <3>2
  <2>5. flen = s
    BY <1>6, <2>3, <2>4
  <2>6. SubSeq(stem, 1, flen) = stem
    <3>1. SubSeq(stem, 1, Len(stem)) = stem
      BY <1>3, SubSeqFull DEF stem
    <3> QED
      BY <1>4, <2>5, <3>1, Zenon
  <2> QED
    BY <1>6, <2>4, <2>6, Zenon
<1>9. IsSuffix(Replaced(ext), name)
  <2>1. IsSuffix(Replaced(ext), Replaced(SubSeq(stem, 1, flen) \o ext))
    BY <1>3, <1>6, ReplacedEnd DEF ext
  <2> QED
    BY <1>6, <2>1, Zenon
<1> QED
  BY <1>7, <1>8, <1>9 DEF part, name, ext

LEMMA MarksAreSymbols ==
    {":", "/", "%", "gopher", "http", "telnet", "1", "h", "8", "9"} \subseteq Symbols
BY DEF Symbols

-----------------------------------------------------------------------------
(* Cutting a text at the first mark in it.                                 *)

Unmarked == ""

FirstIn(text, marks) == SelectInSeq(text, LAMBDA c : c \in marks)
Free(text, marks) == \A i \in 1 .. Len(text) : text[i] \notin marks

LEMMA FirstMark ==
    ASSUME NEW text, NEW marks, NEW size \in Nat, size = Len(text),
           NEW k \in 1 .. size, text[k] \in marks,
           \A i \in 1 .. k - 1 : text[i] \notin marks
    PROVE  FirstIn(text, marks) = k
<1> DEFINE I == {i \in 1 .. size : text[i] \in marks}
<1>1. FirstIn(text, marks) = IF I # {} THEN Min(I) ELSE 0
  BY DEF SelectInSeq, FirstIn
<1>2. \A i \in I : i \in Nat /\ k <= i
  <2>1. \A i \in 1 .. size : k <= i \/ i \in 1 .. k - 1
    OBVIOUS
  <2> QED
    BY <2>1
<1>3. k \in I
  OBVIOUS
<1> HIDE DEF I
<1>4. \A x \in I : (\A y \in I : x <= y) => x = k
  BY <1>2, <1>3
<1>5. \A y \in I : k <= y
  BY <1>2
<1>6. Min(I) = k
  BY <1>3, <1>4, <1>5 DEF Min
<1> QED
  BY <1>1, <1>3, <1>6

LEMMA NoMark ==
    ASSUME NEW text, NEW marks, Free(text, marks)
    PROVE  FirstIn(text, marks) = 0
<1> DEFINE I == {i \in 1 .. Len(text) : text[i] \in marks}
<1>1. FirstIn(text, marks) = IF I # {} THEN Min(I) ELSE 0
  BY DEF SelectInSeq, FirstIn
<1>2. I = {}
  BY DEF Free
<1> QED
  BY <1>1, <1>2

LEMMA CutNowhere ==
    ASSUME NEW text, NEW marks, Free(text, marks)
    PROVE  Cut(text, marks) = [head |-> text, mark |-> Unmarked, tail |-> <<>>]
<1>1. FirstIn(text, marks) = 0
  BY NoMark
<1> QED
  BY <1>1, Zenon DEF Cut, FirstIn, Unmarked

\* Where the first mark is, if there is one.
LEMMA MarkIsThere ==
    ASSUME NEW text, NEW marks, NEW size \in Nat, size = Len(text), ~Free(text, marks)
    PROVE  \E k \in 1 .. size : text[k] \in marks /\ \A i \in 1 .. k - 1 : text[i] \notin marks
<1> DEFINE I == {i \in 1 .. size : text[i] \in marks}
<1>1. I \subseteq Nat /\ I # {}
  BY DEF Free
<1>2. PICK k \in I : \A i \in I : k <= i
  BY <1>1, LeastNumber
<1>3. \A i \in 1 .. k - 1 : i \in 1 .. size /\ ~(k <= i)
  OBVIOUS
<1> QED
  BY <1>2, <1>3

LEMMA CutIntoThree ==
    ASSUME NEW S, NEW a \in Seq(S), NEW m \in S, NEW b \in Seq(S), NEW marks,
           Free(a, marks), m \in marks
    PROVE  Cut(a \o (<<m>> \o b), marks) = [head |-> a, mark |-> m, tail |-> b]
<1>1. PICK j, n \in Nat : j = Len(a) /\ n = Len(b)
  BY LenProperties
<1> DEFINE rest == <<m>> \o b
           text == a \o rest
<1>2. <<m>> \in Seq(S) /\ Len(<<m>>) = 1 /\ <<m>>[1] = m
  OBVIOUS
<1>3. /\ rest \in Seq(S) /\ Len(rest) = 1 + n /\ rest[1] = m
      /\ \A i \in 2 .. 1 + n : rest[i] = b[i - 1]
  <2>1. /\ rest \in Seq(S) /\ Len(rest) = Len(<<m>>) + Len(b)
        /\ \A i \in 1 .. Len(<<m>>) + Len(b) :
             rest[i] = IF i <= Len(<<m>>) THEN <<m>>[i] ELSE b[i - Len(<<m>>)]
    BY <1>2, ConcatProperties
  <2>2. /\ rest \in Seq(S) /\ Len(rest) = 1 + n
        /\ \A i \in 1 .. 1 + n : rest[i] = IF i <= 1 THEN <<m>>[i] ELSE b[i - 1]
    BY <1>1, <1>2, <2>1, Zenon
  <2>3. 1 \in 1 .. 1 + n /\ 1 <= 1
    OBVIOUS
  <2>4. rest[1] = m
    BY <1>2, <2>2, <2>3, Zenon
  <2>5. \A i \in 2 .. 1 + n : i \in 1 .. 1 + n /\ ~(i <= 1)
    OBVIOUS
  <2> QED
    BY <2>2, <2>4, <2>5, Zenon
<1> HIDE DEF rest
<1>4. /\ text \in Seq(S) /\ Len(text) = j + (1 + n)
      /\ \A i \in 1 .. j + (1 + n) : text[i] = IF i <= j THEN a[i] ELSE rest[i - j]
  <2>1. /\ text \in Seq(S) /\ Len(text) = Len(a) + Len(rest)
        /\ \A i \in 1 .. Len(a) + Len(rest) :
             text[i] = IF i <= Len(a) THEN a[i] ELSE rest[i - Len(a)]
    BY <1>3, ConcatProperties
  <2> QED
    BY <1>1, <1>3, <2>1, Zenon
<1> HIDE DEF text
<1>5. PICK size \in Nat : size = j + (1 + n) /\ j + 1 \in 1 .. size
                          /\ (j + 1) - 1 = j /\ (j + 1) + 1 <= size + 1
  OBVIOUS
<1>6. text[j + 1] = m
  <2>1. ~(j + 1 <= j) /\ (j + 1) - j = 1 /\ j + 1 \in 1 .. j + (1 + n)
    OBVIOUS
  <2>2. text[j + 1] = rest[(j + 1) - j]
    BY <1>4, <2>1, Zenon
  <2> QED
    BY <1>3, <2>1, <2>2, Zenon
<1>7. \A i \in 1 .. j : text[i] = a[i]
  <2>1. \A i \in 1 .. j : i \in 1 .. j + (1 + n) /\ i <= j
    OBVIOUS
  <2> QED
    BY <1>4, <2>1, Zenon
<1>8. \A i \in 1 .. n : text[j + 1 + i] = b[i]
  <2> SUFFICES ASSUME NEW i \in 1 .. n PROVE text[j + 1 + i] = b[i]
    OBVIOUS
  <2>1. /\ ~(j + 1 + i <= j) /\ (j + 1 + i) - j = 1 + i
        /\ j + 1 + i \in 1 .. j + (1 + n) /\ 1 + i \in 2 .. 1 + n /\ (1 + i) - 1 = i
    OBVIOUS
  <2>2. text[j + 1 + i] = rest[1 + i]
    BY <1>4, <2>1, Zenon
  <2> QED
    BY <1>3, <2>1, <2>2, Zenon
<1>9. FirstIn(text, marks) = j + 1
  <2>1. size = Len(text)
    BY <1>4, <1>5
  <2>2. \A i \in 1 .. (j + 1) - 1 : text[i] \notin marks
    BY <1>1, <1>5, <1>7 DEF Free
  <2> QED
    BY <1>5, <1>6, <2>1, <2>2, FirstMark
<1>10. SubSeq(text, 1, j) = a
  <2>1. \A i \in 1 .. j : text[i] \in S
    BY <1>1, <1>7, ElementOfSeq
  <2>2. /\ SubSeq(text, 1, j) \in Seq(S)
        /\ Len(SubSeq(text, 1, j)) = IF 1 <= j THEN j - 1 + 1 ELSE 0
        /\ \A i \in 1 .. j - 1 + 1 : SubSeq(text, 1, j)[i] = text[1 + i - 1]
    BY <2>1, SubSeqProperties
  <2>3. Len(SubSeq(text, 1, j)) = j /\ \A i \in 1 .. j : SubSeq(text, 1, j)[i] = text[i]
    BY <2>2
  <2> QED
    BY <1>1, <1>7, <2>2, <2>3, SeqEqual
<1>11. SubSeq(text, (j + 1) + 1, size) = b
  <2>0. PICK l \in Nat : l = j + 2 /\ size - l + 1 = n
    BY <1>5
  <2>1. \A i \in l .. size : text[i] \in S
    <3>1. \A i \in l .. size : i \in 1 .. Len(text)
      BY <1>4, <1>5, <2>0
    <3> QED
      BY <1>4, <3>1, ElementOfSeq
  <2>2. /\ SubSeq(text, l, size) \in Seq(S)
        /\ Len(SubSeq(text, l, size)) = IF l <= size THEN size - l + 1 ELSE 0
        /\ \A i \in 1 .. size - l + 1 : SubSeq(text, l, size)[i] = text[l + i - 1]
    BY <2>1, SubSeqProperties
  <2>3. Len(SubSeq(text, l, size)) = n
    BY <2>0, <2>2
  <2>4. \A i \in 1 .. n : l + i - 1 = j + 1 + i
    BY <2>0
  <2>5. \A i \in 1 .. n : SubSeq(text, l, size)[i] = b[i]
    BY <1>8, <2>0, <2>2, <2>4
  <2>6. (j + 1) + 1 = l
    BY <2>0
  <2> QED
    BY <1>1, <2>2, <2>3, <2>5, <2>6, SeqEqual
<1>12. size = Len(text) /\ j + 1 # 0
  BY <1>4, <1>5
<1>13. Cut(text, marks) = [head |-> SubSeq(text, 1, (j + 1) - 1), mark |-> text[j + 1],
                           tail |-> SubSeq(text, (j + 1) + 1, size)]
  BY <1>9, <1>12, Zenon DEF Cut, FirstIn
<1> QED
  BY <1>5, <1>6, <1>10, <1>11, <1>13 DEF text, rest

LEMMA CutParts ==
    ASSUME NEW S, NEW text \in Seq(S), NEW marks
    PROVE  /\ Cut(text, marks).head \in Seq(S) /\ Free(Cut(text, marks).head, marks)
           /\ Cut(text, marks).tail \in Seq(S)
           /\ Cut(text, marks).mark \in marks \cup {Unmarked}
<1>1. CASE Free(text, marks)
  <2>1. Cut(text, marks) = [head |-> text, mark |-> Unmarked, tail |-> <<>>]
    BY <1>1, CutNowhere
  <2>2. <<>> \in Seq(S)
    BY EmptySeq
  <2>3. /\ Cut(text, marks).head = text /\ Cut(text, marks).tail = <<>>
        /\ Cut(text, marks).mark = Unmarked
    BY <2>1
  <2> QED
    BY <1>1, <2>2, <2>3, Zenon
<1>2. CASE ~Free(text, marks)
  <2>1. PICK size \in Nat : size = Len(text)
    BY LenProperties
  <2>2. PICK k \in 1 .. size :
          text[k] \in marks /\ \A i \in 1 .. k - 1 : text[i] \notin marks
    BY <1>2, <2>1, MarkIsThere
  <2>3. FirstIn(text, marks) = k /\ k # 0
    <3>1. FirstIn(text, marks) = k
      BY <2>1, <2>2, FirstMark
    <3> QED
      BY <3>1
  <2>4. Cut(text, marks) = [head |-> SubSeq(text, 1, k - 1), mark |-> text[k],
                            tail |-> SubSeq(text, k + 1, size)]
    BY <2>1, <2>3, Zenon DEF Cut, FirstIn
  <2>5. \A i \in 1 .. size : text[i] \in S
    BY <2>1, ElementOfSeq
  <2>6. /\ SubSeq(text, 1, k - 1) \in Seq(S)
        /\ Len(SubSeq(text, 1, k - 1)) = IF 1 <= k - 1 THEN k - 1 - 1 + 1 ELSE 0
        /\ \A i \in 1 .. k - 1 - 1 + 1 : SubSeq(text, 1, k - 1)[i] = text[1 + i - 1]
    <3>1. \A i \in 1 .. k - 1 : text[i] \in S
      BY <2>5
    <3>2. k - 1 \in Int /\ 1 \in Int
      OBVIOUS
    <3> QED
      BY <3>1, <3>2, SubSeqProperties
  <2>7. Free(SubSeq(text, 1, k - 1), marks)
    <3>1. \A i \in 1 .. Len(SubSeq(text, 1, k - 1)) :
            i \in 1 .. k - 1 /\ SubSeq(text, 1, k - 1)[i] = text[i]
      BY <2>6
    <3> QED
      BY <2>2, <3>1 DEF Free
  <2>8. SubSeq(text, k + 1, size) \in Seq(S)
    <3>1. \A i \in k + 1 .. size : text[i] \in S
      BY <2>5
    <3>2. k + 1 \in Int
      OBVIOUS
    <3> QED
      BY <3>1, <3>2, SubSeqProperties
  <2>9. /\ Cut(text, marks).head = SubSeq(text, 1, k - 1)
        /\ Cut(text, marks).tail = SubSeq(text, k + 1, size)
        /\ Cut(text, marks).mark = text[k]
    BY <2>4
  <2> QED
    BY <2>2, <2>6, <2>7, <2>8, <2>9, Zenon
<1> QED
  BY <1>1, <1>2

-----------------------------------------------------------------------------
(* Numbers and their digits.                                               *)

LEMMA DigitValues ==
    /\ \A k \in 0 .. 9 : DigitSeq[k + 1] \in Digits
    /\ \A d \in Digits : \E k \in 0 .. 9 : d = DigitSeq[k + 1]
    /\ \A k \in 0 .. 9 : DigitValue[DigitSeq[k + 1]] = k
<1>1. DOMAIN DigitSeq = 1 .. 10 /\ Len(DigitSeq) = 10
  BY DEF DigitSeq
<1>2. \A k \in 0 .. 9 : k + 1 \in 1 .. 10
  OBVIOUS
<1>3. \A k \in 0 .. 9 : DigitSeq[k + 1] \in Digits
  BY <1>1, <1>2 DEF Digits, ToSet
<1>4. \A d \in Digits : \E k \in 0 .. 9 : d = DigitSeq[k + 1]
  <2> SUFFICES ASSUME NEW d \in Digits PROVE \E k \in 0 .. 9 : d = DigitSeq[k + 1]
    OBVIOUS
  <2>1. PICK i \in 1 .. 10 : d = DigitSeq[i]
    BY <1>1 DEF Digits, ToSet
  <2>2. i - 1 \in 0 .. 9 /\ (i - 1) + 1 = i
    OBVIOUS
  <2> QED
    BY <2>1, <2>2
<1>5. \A i, j \in 1 .. 10 : DigitSeq[i] = DigitSeq[j] => i = j
  BY DEF DigitSeq
<1>6. ASSUME NEW k \in 0 .. 9 PROVE DigitValue[DigitSeq[k + 1]] = k
  <2> DEFINE d == DigitSeq[k + 1]
             I == {i \in 1 .. Len(DigitSeq) : DigitSeq[i] = d}
  <2>1. I = {k + 1}
    BY <1>1, <1>2, <1>5
  <2>2. Min({k + 1}) = k + 1
    BY DEF Min
  <2>3. SelectInSeq(DigitSeq, LAMBDA e : e = d) = k + 1
    <3>1. SelectInSeq(DigitSeq, LAMBDA e : e = d) = IF I # {} THEN Min(I) ELSE 0
      BY DEF SelectInSeq
    <3> QED
      BY <2>1, <2>2, <3>1
  <2>4. DigitValue[d] = SelectInSeq(DigitSeq, LAMBDA e : e = d) - 1
    BY <1>3 DEF DigitValue, Digits
  <2>5. (k + 1) - 1 = k
    OBVIOUS
  <2> QED
    BY <2>3, <2>4, <2>5, Zenon
<1> QED
  BY <1>3, <1>4, <1>6

\* The values of the first characters of a number.
ValuesOf(text, size) ==
    {v \in [0 .. size -> Nat] :
       /\ v[0] = 0
       /\ \A n \in 1 .. size : v[n] = 10 * v[n - 1] + DigitValue[text[n]]}

LEMMA NumberIsValue ==
    ASSUME NEW text \in Seq(Symbols)
    PROVE  \E size \in 0 .. Len(text) :
             /\ \A i \in 1 .. size : text[i] \in Digits
             /\ size = Len(text) \/ text[size + 1] \notin Digits
             /\ \E v \in ValuesOf(text, size) : NumberAt(text) = v[size]
<1>1. PICK length \in Nat : length = Len(text)
  BY LenProperties
<1> DEFINE isnotdigit(c) == c \notin ToSet(DigitSeq)
           stop == SelectInSeq(text, isnotdigit)
           size == IF stop = 0 THEN Len(text) ELSE stop - 1
           I == {i \in 1 .. Len(text) : text[i] \notin Digits}
           F(v) == [n \in 0 .. size |->
                      IF n = 0 THEN 0 ELSE 10 * v[n - 1] + DigitValue[text[n]]]
           value == CHOOSE v : v = F(v)
<1>2. NumberAt(text) = value[size]
  BY DEF NumberAt
<1>3. stop = IF I # {} THEN Min(I) ELSE 0
  BY DEF SelectInSeq, Digits
<1>4. /\ size \in 0 .. length
      /\ \A i \in 1 .. size : text[i] \in Digits
      /\ size = length \/ text[size + 1] \notin Digits
  <2>1. CASE I = {}
    <3>1. stop = 0
      BY <1>3, <2>1
    <3>2. size = length
      BY <1>1, <3>1
    <3> HIDE DEF size
    <3> QED
      BY <1>1, <2>1, <3>2
  <2>2. CASE I # {}
    <3>1. I \subseteq Nat
      BY <1>1
    <3>2. PICK k \in I : \A i \in I : k <= i
      BY <2>2, <3>1, LeastNumber
    <3>3. k \in 1 .. length /\ text[k] \notin Digits
      BY <1>1
    <3>4. Min(I) = k
      <4>1. \A x \in I : (\A y \in I : x <= y) => x = k
        <5> SUFFICES ASSUME NEW x \in I, \A y \in I : x <= y PROVE x = k
          OBVIOUS
        <5>1. x <= k /\ k <= x /\ x \in Nat /\ k \in Nat
          BY <3>1, <3>2
        <5> QED
          BY <5>1
      <4> HIDE DEF I
      <4> QED
        BY <3>2, <4>1 DEF Min
    <3>5. stop = k
      BY <1>3, <2>2, <3>4
    <3>6. size = k - 1
      BY <3>3, <3>5
    <3>7. \A i \in 1 .. k - 1 : i \in 1 .. length /\ ~(k <= i)
      BY <3>3
    <3>8. \A i \in 1 .. k - 1 : text[i] \in Digits
      BY <1>1, <3>2, <3>7
    <3>9. k - 1 \in 0 .. length /\ (k - 1) + 1 = k
      BY <3>3
    <3> HIDE DEF size
    <3> QED
      BY <3>3, <3>6, <3>8, <3>9
  <2> QED
    BY <2>1, <2>2
<1> HIDE DEF stop, I
<1>5. PICK m \in Nat : m = size /\ m \in 0 .. length
  BY <1>4
<1>6. \A n \in 1 .. m : DigitValue[text[n]] \in Nat
  <2> SUFFICES ASSUME NEW n \in 1 .. m PROVE DigitValue[text[n]] \in Nat
    OBVIOUS
  <2>1. text[n] \in Digits
    BY <1>4, <1>5
  <2>2. PICK k \in 0 .. 9 : text[n] = DigitSeq[k + 1]
    BY <2>1, DigitValues
  <2>3. DigitValue[text[n]] = k
    BY <2>2, DigitValues
  <2> QED
    BY <2>3
<1>7. \E v : v = F(v)
  <2> DEFINE Step(x) == IF x[1] < m THEN 10 * x[2] + DigitValue[text[x[1] + 1]] ELSE 0
             h == [x \in Nat \X Nat |-> Step(x)]
  <2>1. h \in [Nat \X Nat -> Nat]
    <3>1. ASSUME NEW x \in Nat \X Nat PROVE Step(x) \in Nat
      <4>1. x[1] \in Nat /\ x[2] \in Nat
        OBVIOUS
      <4>2. CASE x[1] < m
        <5>1. x[1] + 1 \in 1 .. m
          BY <4>1, <4>2
        <5>2. DigitValue[text[x[1] + 1]] \in Nat
          BY <1>6, <5>1
        <5> QED
          BY <4>1, <4>2, <5>2
      <4>3. CASE ~(x[1] < m)
        BY <4>3
      <4> QED
        BY <4>2, <4>3
    <3> HIDE DEF Step
    <3> QED
      BY <3>1
  <2>2. PICK f \in Iterations(Nat, 0, h) : TRUE
    BY <2>1, RecursionOnNat
  <2>3. f \in [Nat -> Nat] /\ f[0] = 0 /\ \A n \in Nat : f[n + 1] = h[<<n, f[n]>>]
    BY DEF Iterations
  <2>4. ASSUME NEW n \in 0 .. m, n # 0
        PROVE  f[n] = 10 * f[n - 1] + DigitValue[text[n]]
    <3>1. PICK j \in Nat : j = n - 1 /\ j + 1 = n /\ j < m
      BY <2>4
    <3>2. f[j + 1] = h[<<j, f[j]>>] /\ <<j, f[j]>> \in Nat \X Nat
      BY <2>3
    <3>3. h[<<j, f[j]>>] = 10 * f[j] + DigitValue[text[j + 1]]
      BY <3>1, <3>2
    <3> HIDE DEF h
    <3> QED
      BY <3>1, <3>2, <3>3
  <2> DEFINE g == [n \in 0 .. size |-> f[n]]
  <2>5. g = F(g)
    <3> HIDE DEF h, size
    <3>1. ASSUME NEW n \in 0 .. m PROVE g[n] = F(g)[n]
      <4>1. CASE n = 0
        BY <1>5, <2>3, <4>1
      <4>2. CASE n # 0
        <5>1. n - 1 \in 0 .. m
          BY <4>2
        <5>2. g[n] = f[n] /\ g[n - 1] = f[n - 1]
          BY <1>5, <5>1
        <5>3. F(g)[n] = 10 * g[n - 1] + DigitValue[text[n]]
          BY <1>5, <4>2
        <5> QED
          BY <2>4, <4>2, <5>2, <5>3
      <4> QED
        BY <4>1, <4>2
    <3> QED
      BY <1>5, <3>1
  <2> HIDE DEF g, F
  <2> QED
    BY <2>5
<1>8. value = F(value)
  BY <1>7
<1> HIDE DEF value, size
<1>9. /\ value[0] = 0
      /\ \A n \in 1 .. m : value[n] = 10 * value[n - 1] + DigitValue[text[n]]
  <2>1. 0 \in 0 .. m /\ \A n \in 1 .. m : n \in 0 .. m /\ n # 0
    OBVIOUS
  <2> QED
    BY <1>5, <1>8, <2>1
<1>10. \A n \in 0 .. m : value[n] \in Nat
  <2> DEFINE Good == {n \in Nat : n <= m => value[n] \in Nat}
  <2>1. 0 \in Good
    BY <1>9
  <2>2. ASSUME NEW n \in Nat, n \in Good PROVE n + 1 \in Good
    <3>1. SUFFICES ASSUME n + 1 <= m PROVE value[n + 1] \in Nat
      OBVIOUS
    <3>2. n <= m /\ n + 1 \in 1 .. m /\ (n + 1) - 1 = n
      BY <3>1
    <3>3. value[n] \in Nat
      BY <2>2, <3>2
    <3>4. value[n + 1] = 10 * value[n] + DigitValue[text[n + 1]]
      BY <1>9, <3>2
    <3>5. DigitValue[text[n + 1]] \in Nat
      BY <1>6, <3>2
    <3> QED
      BY <3>3, <3>4, <3>5
  <2> HIDE DEF Good
  <2>3. \A n \in Nat : n \in Good
    BY <2>1, <2>2, NatSetInduction
  <2> QED
    BY <2>3 DEF Good
<1>11. value \in ValuesOf(text, m)
  <2>1. value = [n \in 0 .. m |-> value[n]]
    BY <1>5, <1>8
  <2>2. value \in [0 .. m -> Nat]
    BY <1>10, <2>1
  <2> QED
    BY <1>9, <2>2 DEF ValuesOf
<1> QED
  BY <1>1, <1>2, <1>4, <1>5, <1>11

-----------------------------------------------------------------------------
(* What a text is parsed into.                                             *)

LEMMA Marks == Unmarked # ":" /\ Unmarked # "/"
BY DEF Unmarked

\* Ports are of type unsigned short.
Shorts == 0 .. 2^16 - 1

LEMMA ShortNumbers ==
    /\ \A n \in Nat : n % 2^16 \in Shorts
    /\ \A n \in Shorts : n \in Nat /\ n % 2^16 = n
    /\ {70, 80, 23} \subseteq Shorts
<1>1. 2^16 = 65536
  OBVIOUS
<1>2. ASSUME NEW n \in Nat PROVE n % 2^16 \in Shorts
  <2>1. n % 65536 \in Nat /\ n % 65536 < 65536
    OBVIOUS
  <2>2. n % 65536 <= 65536 - 1
    BY <2>1
  <2> QED
    BY <1>1, <2>1, <2>2 DEF Shorts
<1>3. ASSUME NEW n \in Shorts PROVE n \in Nat /\ n % 2^16 = n
  <2>1. n \in Nat /\ n < 65536
    BY <1>1 DEF Shorts
  <2>2. n % 65536 = n
    BY <2>1
  <2> QED
    BY <1>1, <2>1, <2>2
<1>4. {70, 80, 23} \subseteq Shorts
  BY <1>1 DEF Shorts
<1> QED
  BY <1>2, <1>3, <1>4

Protocols == {"gopher", "http", "telnet"}
LEMMA Defaults ==
    /\ DOMAIN DefaultPort = Protocols
    /\ \A p \in Protocols : DefaultPort[p] \in Shorts /\ DefaultType[p] \in Symbols
    /\ DefaultPort["gopher"] = 70 /\ DefaultPort["http"] = 80
    /\ DefaultType["gopher"] = "1" /\ DefaultType["http"] = "h"
<1>1. {"1", "h", "8"} \subseteq Symbols
  BY MarksAreSymbols
<1> QED
  BY <1>1, ShortNumbers DEF DefaultPort, DefaultType, Protocols

\* The locations that a text can be parsed into.
Located == [proto : Protocols, host : Seq(Symbols), port : Shorts,
            itemtype : Symbols, selector : Seq(Symbols)]
Nameable(location) ==
    /\ location \in Located
    /\ Free(location.host, {":", "/"})
    /\ location.proto = "http" => location.itemtype = "h"
FitsArrays(location) ==
    Len(location.host) < MAXHOSTLEN /\ Len(location.selector) < MAXSELLEN

LEMMA NumberIsNat ==
    ASSUME NEW text \in Seq(Symbols)
    PROVE  NumberAt(text) \in Nat
<1>1. PICK size \in 0 .. Len(text) : \E v \in ValuesOf(text, size) : NumberAt(text) = v[size]
  BY NumberIsValue
<1>2. PICK v \in ValuesOf(text, size) : NumberAt(text) = v[size]
  BY <1>1
<1>3. Len(text) \in Nat
  BY LenProperties
<1>4. v[size] \in Nat
  BY <1>3 DEF ValuesOf
<1> QED
  BY <1>2, <1>4

\* The negative of a port, in 16 bits.
LEMMA ShortNegative == \A s \in Shorts : (2^16 - s) % 2^16 \in Shorts
<1> SUFFICES ASSUME NEW s \in Shorts PROVE (2^16 - s) % 2^16 \in Shorts
  OBVIOUS
<1>1. PICK r \in Nat : r = 2^16 - s
  <2>1. 2^16 - s \in Nat
    <3>1. 2^16 = 65536
      OBVIOUS
    <3> QED
      BY <3>1 DEF Shorts
  <2> QED
    BY <2>1
<1>2. r % 2^16 \in Shorts
  BY ShortNumbers
<1> QED
  BY <1>1, <1>2, Zenon

Unblank(text) == SelectInSeq(text, LAMBDA c : c \notin {"space", "tab"})

LEMMA UnblankInText ==
    ASSUME NEW text \in Seq(Symbols)
    PROVE  Unblank(text) = 0 \/ Unblank(text) \in 1 .. Len(text)
<1> DEFINE I == {i \in 1 .. Len(text) : text[i] \notin {"space", "tab"}}
<1>1. Unblank(text) = IF I # {} THEN Min(I) ELSE 0
  BY DEF SelectInSeq, Unblank
<1>2. I \subseteq Nat /\ I \subseteq 1 .. Len(text)
  <2>1. I \subseteq 1 .. Len(text)
    OBVIOUS
  <2>2. Len(text) \in Nat
    BY LenProperties
  <2> HIDE DEF I
  <2> QED
    BY <2>1, <2>2
<1> HIDE DEF I
<1>3. CASE I = {}
  BY <1>1, <1>3
<1>4. CASE I # {}
  <2>1. PICK k \in I : \A i \in I : k <= i
    BY <1>2, <1>4, LeastNumber
  <2>2. \A x \in I : (\A y \in I : x <= y) => x = k
    <3> SUFFICES ASSUME NEW x \in I, \A y \in I : x <= y PROVE x = k
      OBVIOUS
    <3>1. x <= k /\ k <= x /\ x \in Nat /\ k \in Nat
      BY <1>2, <2>1
    <3> QED
      BY <3>1
  <2>3. Min(I) = k
    BY <2>1, <2>2 DEF Min
  <2> QED
    BY <1>1, <1>2, <1>4, <2>3
<1> QED
  BY <1>3, <1>4

\* The text of a number behind the blanks, and what a sign makes of it.
Signed(number) ==
    LET sign == IF number = <<>> THEN "" ELSE Head(number)
    IN  IF sign = "-" THEN (2^16 - (NumberAt(Tail(number)) % 2^16)) % 2^16
        ELSE IF sign = "+" THEN NumberAt(Tail(number)) % 2^16
        ELSE NumberAt(number) % 2^16

LEMMA PortIsSigned ==
    \A text : PortOf(text) = Signed(IF Unblank(text) = 0 THEN <<>>
                                    ELSE SubSeq(text, Unblank(text), Len(text)))
BY Zenon DEF PortOf, Signed, Unblank

LEMMA PortIsShort ==
    ASSUME NEW text \in Seq(Symbols)
    PROVE  PortOf(text) \in Shorts
<1> DEFINE number == IF Unblank(text) = 0 THEN <<>>
                     ELSE SubSeq(text, Unblank(text), Len(text))
<1>1. number \in Seq(Symbols)
  <2>1. CASE Unblank(text) = 0
    BY <2>1, EmptySeq
  <2>2. CASE Unblank(text) \in 1 .. Len(text)
    <3>1. Len(text) \in Nat /\ Unblank(text) \in Int
      BY <2>2, LenProperties
    <3>2. \A i \in Unblank(text) .. Len(text) : i \in 1 .. Len(text)
      BY <2>2, <3>1
    <3>3. \A i \in Unblank(text) .. Len(text) : text[i] \in Symbols
      BY <3>2, ElementOfSeq
    <3>4. SubSeq(text, Unblank(text), Len(text)) \in Seq(Symbols)
      BY <3>1, <3>3, SubSeqProperties
    <3> QED
      BY <2>2, <3>4
  <2> QED
    BY <2>1, <2>2, UnblankInText
<1> HIDE DEF number
<1>2. ASSUME NEW t \in Seq(Symbols) PROVE NumberAt(t) % 2^16 \in Shorts
  BY NumberIsNat, ShortNumbers, Zenon
<1>3. CASE number = <<>>
  <2>1. Signed(number) = NumberAt(number) % 2^16
    BY <1>3 DEF Signed
  <2>2. NumberAt(number) % 2^16 \in Shorts
    BY <1>1, <1>2
  <2> QED
    BY <2>1, <2>2, PortIsSigned, Zenon DEF number
<1>4. CASE number # <<>>
  <2>1. Tail(number) \in Seq(Symbols)
    BY <1>1, <1>4, HeadTailProperties
  <2>2. NumberAt(number) % 2^16 \in Shorts
    BY <1>1, <1>2
  <2>3. NumberAt(Tail(number)) % 2^16 \in Shorts
    BY <1>2, <2>1
  <2>4. (2^16 - (NumberAt(Tail(number)) % 2^16)) % 2^16 \in Shorts
    BY <2>3, ShortNegative, Zenon
  <2>5. Signed(number) \in {(2^16 - (NumberAt(Tail(number)) % 2^16)) % 2^16,
                            NumberAt(Tail(number)) % 2^16, NumberAt(number) % 2^16}
    BY Zenon DEF Signed
  <2>6. Signed(number) \in Shorts
    BY <2>2, <2>3, <2>4, <2>5, Zenon
  <2> QED
    BY <2>6, PortIsSigned, Zenon DEF number
<1> QED
  BY <1>3, <1>4

LEMMA PartsAreNameable ==
    ASSUME NEW proto \in Protocols, NEW text \in Seq(Symbols)
    PROVE  Nameable(Parts(proto, text))
<1> DEFINE name == Cut(text, {":", "/"})
           port == Cut(name.tail, {"/"})
           path == IF name.mark = ":" THEN port.tail ELSE name.tail
           typed == HasType(proto, path)
           parts == Parts(proto, text)
<1>1. /\ name.head \in Seq(Symbols) /\ Free(name.head, {":", "/"})
      /\ name.tail \in Seq(Symbols)
  BY CutParts
<1>2. port.head \in Seq(Symbols) /\ port.tail \in Seq(Symbols)
  <2> HIDE DEF name
  <2> QED
    BY <1>1, CutParts
<1>3. path \in Seq(Symbols)
  <2> HIDE DEF name, port
  <2> QED
    BY <1>1, <1>2
<1>4. parts = [proto    |-> proto,
               host     |-> name.head,
               port     |-> IF name.mark = ":" THEN PortOf(port.head)
                            ELSE DefaultPort[proto],
               itemtype |-> IF typed THEN Head(path) ELSE DefaultType[proto],
               selector |-> IF typed THEN Tail(path) ELSE path]
  BY DEF Parts
<1> HIDE DEF name, port, path, parts
<1>5. PortOf(port.head) \in Shorts
  BY <1>2, PortIsShort
<1>6. /\ typed => path # <<>> /\ proto = "gopher"
  BY DEF HasType
<1>7. typed => Head(path) \in Symbols /\ Tail(path) \in Seq(Symbols)
  BY <1>3, <1>6, HeadTailProperties
<1> HIDE DEF typed
<1>8. (IF name.mark = ":" THEN PortOf(port.head) ELSE DefaultPort[proto]) \in Shorts
  BY <1>5, Defaults, Zenon
<1>9. /\ (IF typed THEN Head(path) ELSE DefaultType[proto]) \in Symbols
      /\ (IF typed THEN Tail(path) ELSE path) \in Seq(Symbols)
  BY <1>3, <1>7, Defaults, Zenon
<1>10. proto = "http" => (IF typed THEN Head(path) ELSE DefaultType[proto]) = "h"
  BY <1>6, Defaults
<1>11. parts \in Located
  BY <1>1, <1>4, <1>8, <1>9 DEF Located
<1>12. Free(parts.host, {":", "/"}) /\ (parts.proto = "http" => parts.itemtype = "h")
  BY <1>1, <1>4, <1>10
<1> QED
  BY <1>11, <1>12 DEF Nameable, parts

LEMMA SchemeIsKnown ==
    ASSUME NEW address \in Seq(Symbols)
    PROVE  /\ Scheme(address).proto \in Protocols \cup {"error"}
           /\ Scheme(address).rest \in Seq(Symbols)
<1> DEFINE first == Cut(address, {":", "/"})
           known == \E p \in DOMAIN DefaultPort : first.head = <<p>>
           proto == IF known THEN first.head[1] ELSE "error"
           rest == SubSeq(first.tail, 3, Len(first.tail))
<1>1. first.head \in Seq(Symbols) /\ first.tail \in Seq(Symbols)
  BY CutParts
<1>2. proto \in Protocols \cup {"error"}
  <2>1. CASE known
    <3>1. PICK p \in Protocols : first.head = <<p>>
      BY <2>1, Defaults
    <3>2. first.head[1] = p
      BY <3>1
    <3> QED
      BY <2>1, <3>1, <3>2
  <2>2. CASE ~known
    BY <2>2
  <2> QED
    BY <2>1, <2>2
<1>3. rest \in Seq(Symbols)
  <2>1. PICK n \in Nat : n = Len(first.tail)
    BY <1>1, LenProperties
  <2>2. \A i \in 3 .. n : first.tail[i] \in Symbols
    <3>1. \A i \in 3 .. n : i \in 1 .. Len(first.tail)
      BY <2>1
    <3> QED
      BY <1>1, <3>1, ElementOfSeq
  <2>3. SubSeq(first.tail, 3, n) \in Seq(Symbols)
    BY <2>2, SubSeqProperties
  <2> QED
    BY <2>1, <2>3, Zenon
<1>4. Scheme(address) = IF first.mark = ":" /\ IsPrefix(<<"/", "/">>, first.tail)
                    THEN [proto |-> proto, rest |-> rest]
                    ELSE [proto |-> "gopher", rest |-> address]
  BY DEF Scheme
<1> HIDE DEF first, proto, rest
<1>5. "gopher" \in Protocols
  BY DEF Protocols
<1> QED
  BY <1>2, <1>3, <1>4, <1>5

\* Whatever the text is, a location that a URL can name comes out, or none.
LEMMA ParsedIsNameable ==
    ASSUME NEW address \in Seq(Symbols)
    PROVE  \/ parsegopherurl(address) = Failure
           \/ /\ Nameable(parsegopherurl(address)) /\ FitsArrays(parsegopherurl(address))
              /\ parsegopherurl(address).proto \in Protocols
<1> DEFINE scheme == Scheme(address)
           parts == Parts(scheme.proto, scheme.rest)
<1>1. parsegopherurl(address) =
        IF \/ scheme.proto = "error" \/ Len(parts.host) >= MAXHOSTLEN
           \/ Len(parts.selector) >= MAXSELLEN
        THEN Failure ELSE parts
  BY DEF parsegopherurl
<1>2. scheme.proto \in Protocols \cup {"error"} /\ scheme.rest \in Seq(Symbols)
  BY SchemeIsKnown
<1>3. ASSUME scheme.proto # "error"
      PROVE  Nameable(parts)
  <2> HIDE DEF scheme
  <2> QED
    BY <1>2, <1>3, PartsAreNameable
<1> HIDE DEF parts, scheme
<1>4. ASSUME Nameable(parts), ~(Len(parts.host) >= MAXHOSTLEN),
             ~(Len(parts.selector) >= MAXSELLEN)
      PROVE  FitsArrays(parts) /\ parts.proto \in Protocols
  <2>1. /\ parts.host \in Seq(Symbols) /\ parts.selector \in Seq(Symbols)
        /\ parts.proto \in Protocols
    BY <1>4 DEF Nameable, Located
  <2>2. PICK h, s \in Nat : h = Len(parts.host) /\ s = Len(parts.selector)
    BY <2>1, LenProperties
  <2>3. MAXHOSTLEN \in Nat /\ MAXSELLEN \in Nat
    BY UrlsAssumption DEF UrlsAssumption
  <2> QED
    BY <1>4, <2>1, <2>2, <2>3 DEF FitsArrays
<1> QED
  BY <1>1, <1>3, <1>4

-----------------------------------------------------------------------------
(* What is printed of a port is read back.                                 *)

Tens(n) == n \div 10
Ones(n) == n % 10

LEMMA Tenth ==
    \A n \in Nat : /\ Tens(n) \in Nat /\ Ones(n) \in 0 .. 9
                   /\ n = 10 * Tens(n) + Ones(n)
                   /\ n >= 10 => Tens(n) < n
                   /\ \A p \in Nat : n < 10 * p => Tens(n) < p
<1> SUFFICES ASSUME NEW n \in Nat
             PROVE  /\ Tens(n) \in Nat /\ Ones(n) \in 0 .. 9
                    /\ n = 10 * Tens(n) + Ones(n)
                    /\ n >= 10 => Tens(n) < n
                    /\ \A p \in Nat : n < 10 * p => Tens(n) < p
  OBVIOUS
<1>1. n \div 10 \in Nat /\ n % 10 \in 0 .. 9
  OBVIOUS
<1>2. n % 10 = n - 10 * (n \div 10)
  OBVIOUS
<1>3. Tens(n) \in Nat /\ Ones(n) \in 0 .. 9 /\ Ones(n) = n - 10 * Tens(n)
  BY <1>1, <1>2, Zenon DEF Tens, Ones
<1>4. PICK t \in Nat, k \in 0 .. 9 : t = Tens(n) /\ k = Ones(n) /\ k = n - 10 * t
  BY <1>3, Zenon
<1>5. n = 10 * t + k
  BY <1>4
<1>6. n >= 10 => t < n
  BY <1>5
<1>7. \A p \in Nat : n < 10 * p => t < p
  BY <1>5
<1> QED
  BY <1>4, <1>5, <1>6, <1>7, Zenon

LEMMA DecimalStep ==
    \A n \in Nat : Decimal[n] = IF n < 10 THEN <<DigitSeq[n + 1]>>
                                ELSE Append(Decimal[Tens(n)], DigitSeq[Ones(n) + 1])
<1> DEFINE F(s) == [n \in Nat |-> IF n < 10 THEN <<DigitSeq[n + 1]>>
                                  ELSE Append(s[Tens(n)], DigitSeq[Ones(n) + 1])]
           decimal == CHOOSE s : s = F(s)
           T == Seq(Digits)
           given == {n \in Nat : n < 10}
           b == [n \in Nat |-> IF n < 10 THEN <<DigitSeq[n + 1]>> ELSE <<>>]
           d == [n \in Nat |-> Tens(n)]
           h == [x \in Nat \X T |-> Append(x[2], DigitSeq[Ones(x[1]) + 1])]
<1>1. b \in [Nat -> T]
  <2>1. ASSUME NEW n \in Nat PROVE (IF n < 10 THEN <<DigitSeq[n + 1]>> ELSE <<>>) \in T
    <3>1. CASE n < 10
      <4>1. n \in 0 .. 9
        BY <3>1
      <4>2. DigitSeq[n + 1] \in Digits
        BY <4>1, DigitValues
      <4> QED
        BY <3>1, <4>2
    <3>2. CASE ~(n < 10)
      BY <3>2
    <3> QED
      BY <3>1, <3>2
  <2> HIDE DEF T
  <2> QED
    BY <2>1
<1>2. d \in [Nat -> Nat] /\ \A n \in Nat : n \notin given => d[n] < n
  BY Tenth
<1>3. h \in [Nat \X T -> T]
  <2>1. ASSUME NEW x \in Nat \X T PROVE Append(x[2], DigitSeq[Ones(x[1]) + 1]) \in T
    <3>1. x[1] \in Nat /\ x[2] \in T
      OBVIOUS
    <3>2. DigitSeq[Ones(x[1]) + 1] \in Digits
      BY <3>1, Tenth, DigitValues
    <3> QED
      BY <3>1, <3>2
  <2> HIDE DEF T
  <2> QED
    BY <2>1
<1>4. PICK f \in [Nat -> T] : \A n \in Nat :
        f[n] = IF n \in given THEN b[n] ELSE h[<<n, f[d[n]]>>]
  <2> HIDE DEF T, b, d, h, given
  <2>1. Recursions(T, given, b, d, h) # {}
    BY <1>1, <1>2, <1>3, RecursionBelow
  <2> QED
    BY <2>1 DEF Recursions
<1>5. ASSUME NEW n \in Nat
      PROVE  f[n] = IF n < 10 THEN <<DigitSeq[n + 1]>>
                    ELSE Append(f[Tens(n)], DigitSeq[Ones(n) + 1])
  <2>1. CASE n < 10
    <3>1. n \in given
      BY <2>1
    <3>2. f[n] = b[n]
      <4> HIDE DEF b, h, d, given
      <4> QED
        BY <1>4, <3>1
    <3> QED
      BY <2>1, <3>2
  <2>2. CASE ~(n < 10)
    <3>1. n \notin given /\ d[n] = Tens(n) /\ Tens(n) \in Nat
      BY <2>2, Tenth
    <3>2. f[n] = h[<<n, f[Tens(n)]>>]
      <4> HIDE DEF b, h, d, given
      <4> QED
        BY <1>4, <3>1
    <3>3. <<n, f[Tens(n)]>> \in Nat \X T
      <4> HIDE DEF T
      <4> QED
        BY <1>4, <3>1
    <3> HIDE DEF T
    <3>4. h[<<n, f[Tens(n)]>>] = Append(f[Tens(n)], DigitSeq[Ones(n) + 1])
      BY <3>3
    <3> HIDE DEF h
    <3> QED
      BY <2>2, <3>2, <3>4
  <2> QED
    BY <2>1, <2>2
<1>6. f = F(f)
  <2> HIDE DEF T
  <2>1. f = [n \in Nat |-> f[n]]
    BY <1>4
  <2> QED
    BY <1>5, <2>1
<1>7. Decimal = decimal
  BY DEF Decimal, Tens, Ones
<1>8. \E s : s = F(s)
  <2> HIDE DEF F
  <2> QED
    BY <1>6
<1>9. decimal = F(decimal)
  BY <1>8
<1> HIDE DEF decimal
<1>10. Decimal = F(Decimal)
  BY <1>7, <1>9
<1> QED
  BY <1>10

\* The value of a text grows digit by digit.
LEMMA ValueOfAppended ==
    ASSUME NEW text \in Seq(Digits), NEW digit \in Digits, NEW n \in Nat, n = Len(text),
           NEW v \in ValuesOf(Append(text, digit), n + 1)
    PROVE  /\ [i \in 0 .. n |-> v[i]] \in ValuesOf(text, n)
           /\ v[n + 1] = 10 * v[n] + DigitValue[digit]
<1>1. /\ v \in [0 .. n + 1 -> Nat] /\ v[0] = 0
      /\ \A i \in 1 .. n + 1 : v[i] = 10 * v[i - 1] + DigitValue[Append(text, digit)[i]]
  BY DEF ValuesOf
<1>2. /\ \A i \in 1 .. n : Append(text, digit)[i] = text[i]
      /\ Append(text, digit)[n + 1] = digit
  BY AppendProperties
<1> DEFINE w == [i \in 0 .. n |-> v[i]]
<1>3. w \in [0 .. n -> Nat] /\ w[0] = 0
  BY <1>1
<1>4. ASSUME NEW i \in 1 .. n PROVE w[i] = 10 * w[i - 1] + DigitValue[text[i]]
  <2>1. i \in 1 .. n + 1 /\ i \in 0 .. n /\ i - 1 \in 0 .. n
    OBVIOUS
  <2>2. v[i] = 10 * v[i - 1] + DigitValue[text[i]]
    BY <1>1, <1>2, <2>1
  <2>3. w[i] = v[i] /\ w[i - 1] = v[i - 1]
    BY <2>1
  <2> HIDE DEF w
  <2> QED
    BY <2>2, <2>3
<1>5. v[n + 1] = 10 * v[n] + DigitValue[digit]
  <2>1. n + 1 \in 1 .. n + 1 /\ (n + 1) - 1 = n
    OBVIOUS
  <2> QED
    BY <1>1, <1>2, <2>1
<1> HIDE DEF w
<1> QED
  BY <1>3, <1>4, <1>5 DEF ValuesOf, w

Denotes(text, n) ==
    /\ text \in Seq(Digits) /\ text # <<>>
    /\ \A v \in ValuesOf(text, Len(text)) : v[Len(text)] = n

LEMMA OneDigit ==
    ASSUME NEW n \in 0 .. 9
    PROVE  Denotes(<<DigitSeq[n + 1]>>, n) /\ Len(<<DigitSeq[n + 1]>>) = 1
<1> DEFINE text == <<DigitSeq[n + 1]>>
<1>1. DigitSeq[n + 1] \in Digits
  BY DigitValues
<1>2. text \in Seq(Digits) /\ Len(text) = 1 /\ text[1] = DigitSeq[n + 1] /\ text # <<>>
  BY <1>1
<1> HIDE DEF text
<1>3. ASSUME NEW v \in ValuesOf(text, 1) PROVE v[1] = n
  <2>1. v[0] = 0 /\ \A i \in 1 .. 1 : v[i] = 10 * v[i - 1] + DigitValue[text[i]]
    BY DEF ValuesOf
  <2>2. v[1] = 10 * v[0] + DigitValue[text[1]]
    BY <2>1
  <2>3. DigitValue[text[1]] = n
    BY <1>2, DigitValues
  <2> QED
    BY <2>1, <2>2, <2>3
<1>4. Denotes(text, n)
  BY <1>2, <1>3 DEF Denotes
<1> QED
  BY <1>2, <1>4 DEF text

LEMMA MoreDigits ==
    ASSUME NEW text, NEW n \in Nat, Denotes(text, n), NEW k \in 0 .. 9
    PROVE  /\ Denotes(Append(text, DigitSeq[k + 1]), 10 * n + k)
           /\ Len(Append(text, DigitSeq[k + 1])) = Len(text) + 1
<1>1. text \in Seq(Digits) /\ DigitSeq[k + 1] \in Digits
  BY DigitValues DEF Denotes
<1>2. PICK m \in Nat : m = Len(text)
  BY <1>1, LenProperties
<1> DEFINE longer == Append(text, DigitSeq[k + 1])
<1>3. longer \in Seq(Digits) /\ longer # <<>> /\ Len(longer) = m + 1
  BY <1>1, <1>2, AppendProperties
<1>4. ASSUME NEW v \in ValuesOf(longer, m + 1) PROVE v[m + 1] = 10 * n + k
  <2>1. /\ [i \in 0 .. m |-> v[i]] \in ValuesOf(text, m)
        /\ v[m + 1] = 10 * v[m] + DigitValue[DigitSeq[k + 1]]
    BY <1>1, <1>2, ValueOfAppended
  <2>2. [i \in 0 .. m |-> v[i]][m] = n
    BY <1>2, <2>1 DEF Denotes
  <2>3. m \in 0 .. m
    OBVIOUS
  <2>4. v[m] = n
    BY <2>2, <2>3
  <2>5. DigitValue[DigitSeq[k + 1]] = k
    BY DigitValues
  <2> QED
    BY <2>1, <2>4, <2>5
<1> HIDE DEF longer
<1>5. Denotes(longer, 10 * n + k)
  BY <1>3, <1>4 DEF Denotes
<1> QED
  BY <1>2, <1>3, <1>5 DEF longer

LEMMA DecimalDenotes == \A n \in Nat : Denotes(Decimal[n], n)
<1> DEFINE Good == {m \in Nat : \A n \in Nat : n <= m => Denotes(Decimal[n], n)}
<1>1. ASSUME NEW n \in Nat, n >= 10 => Denotes(Decimal[Tens(n)], Tens(n))
      PROVE  Denotes(Decimal[n], n)
  <2>1. CASE n < 10
    <3>1. n \in 0 .. 9
      BY <2>1
    <3>2. Decimal[n] = <<DigitSeq[n + 1]>>
      BY <2>1, DecimalStep
    <3> QED
      BY <3>1, <3>2, OneDigit
  <2>2. CASE ~(n < 10)
    <3>1. PICK t \in Nat, k \in 0 .. 9 : t = Tens(n) /\ k = Ones(n) /\ n = 10 * t + k
      <4>1. Tens(n) \in Nat /\ Ones(n) \in 0 .. 9 /\ n = 10 * (Tens(n)) + Ones(n)
        BY Tenth
      <4> QED
        BY <4>1, Zenon
    <3>2. Denotes(Decimal[t], t)
      BY <1>1, <2>2, <3>1
    <3>3. Decimal[n] = Append(Decimal[t], DigitSeq[k + 1])
      BY <2>2, <3>1, DecimalStep
    <3>4. Denotes(Append(Decimal[t], DigitSeq[k + 1]), 10 * t + k)
      BY <3>2, MoreDigits
    <3> QED
      BY <3>1, <3>3, <3>4
  <2> QED
    BY <2>1, <2>2
<1>2. 0 \in Good
  <2>1. ASSUME NEW n \in Nat, n <= 0 PROVE Denotes(Decimal[n], n)
    <3>1. ~(n >= 10)
      BY <2>1
    <3> QED
      BY <1>1, <3>1
  <2> QED
    BY <2>1
<1>3. ASSUME NEW m \in Nat, m \in Good PROVE m + 1 \in Good
  <2>1. ASSUME NEW n \in Nat, n <= m + 1 PROVE Denotes(Decimal[n], n)
    <3>1. n >= 10 => Tens(n) \in Nat /\ Tens(n) <= m
      BY <2>1, Tenth
    <3>2. n >= 10 => Denotes(Decimal[Tens(n)], Tens(n))
      BY <1>3, <3>1
    <3> QED
      BY <1>1, <3>2
  <2> QED
    BY <2>1
<1> HIDE DEF Good
<1>4. \A m \in Nat : m \in Good
  BY <1>2, <1>3, NatSetInduction
<1> QED
  BY <1>4 DEF Good

LEMMA DigitsAreNoBlanks ==
    \A d \in Digits : d \notin {"space", "tab"} /\ d # "-" /\ d # "+"
<1>1. "space" \notin Digits /\ "tab" \notin Digits
  BY DEF Digits, ToSet, DigitSeq
<1>2. "-" \notin Digits /\ "+" \notin Digits
  BY DEF Digits, ToSet, DigitSeq
<1> QED
  BY <1>1, <1>2

\* A port has five digits at most, and they stand for it.
LEMMA PortReadsBack ==
    ASSUME NEW port \in Shorts
    PROVE  /\ Decimal[port] \in Seq(Digits) /\ Decimal[port] # <<>>
           /\ Len(Decimal[port]) <= 5
           /\ PortOf(Decimal[port]) = port
<1>1. port \in Nat /\ port < 10 * 10000 /\ port % 2^16 = port
  <2>1. 2^16 = 65536
    BY SMT
  <2>2. port < 65536
    BY <2>1, SMT DEF Shorts
  <2>3. port \in Nat /\ port % 2^16 = port
    BY ShortNumbers
  <2> QED
    BY <2>2, <2>3, SMT
<1>2. \A n \in Nat : Decimal[n] \in Seq(Digits) /\ Decimal[n] # <<>> /\ Len(Decimal[n]) \in Nat
  BY DecimalDenotes, LenProperties DEF Denotes
<1>3. \A n \in Nat : n < 10 => Len(Decimal[n]) = 1
  <2> SUFFICES ASSUME NEW n \in Nat, n < 10 PROVE Len(Decimal[n]) = 1
    OBVIOUS
  <2>1. Decimal[n] = <<DigitSeq[n + 1]>>
    BY DecimalStep
  <2> QED
    BY <2>1
<1>4. \A n \in Nat : n >= 10 => Len(Decimal[n]) = Len(Decimal[Tens(n)]) + 1
  <2> SUFFICES ASSUME NEW n \in Nat, n >= 10
               PROVE  Len(Decimal[n]) = Len(Decimal[Tens(n)]) + 1
    OBVIOUS
  <2>1. PICK t \in Nat, k \in 0 .. 9 : t = Tens(n) /\ k = Ones(n)
    <3>1. Tens(n) \in Nat /\ Ones(n) \in 0 .. 9
      BY Tenth
    <3> QED
      BY <3>1, Zenon
  <2>2. Decimal[n] = Append(Decimal[t], DigitSeq[k + 1])
    <3>1. ~(n < 10)
      OBVIOUS
    <3> QED
      BY <2>1, <3>1, DecimalStep
  <2>3. Len(Append(Decimal[t], DigitSeq[k + 1])) = Len(Decimal[t]) + 1
    BY DecimalDenotes, MoreDigits
  <2> QED
    BY <2>1, <2>2, <2>3
<1> DEFINE Within(p, l) == \A n \in Nat : n < p => Len(Decimal[n]) <= l
<1>5. ASSUME NEW p \in Nat, NEW l \in Nat, Within(p, l)
      PROVE  Within(10 * p, l + 1)
  <2> SUFFICES ASSUME NEW n \in Nat, n < 10 * p PROVE Len(Decimal[n]) <= l + 1
    OBVIOUS
  <2>1. Tens(n) \in Nat /\ Tens(n) < p
    BY Tenth
  <2>2. Len(Decimal[Tens(n)]) <= l
    BY <1>5, <2>1
  <2>3. PICK a, b \in Nat : a = Len(Decimal[n]) /\ b = Len(Decimal[Tens(n)])
    BY <1>2, <2>1
  <2>4. CASE n < 10
    <3>1. a = 1
      BY <1>3, <2>3, <2>4
    <3> QED
      BY <2>3, <3>1
  <2>5. CASE n >= 10
    <3>1. a = b + 1 /\ b <= l
      BY <1>4, <2>2, <2>3, <2>5
    <3> QED
      BY <2>3, <3>1
  <2> QED
    BY <2>4, <2>5
<1>6. Within(10, 1)
  <2> SUFFICES ASSUME NEW n \in Nat, n < 10 PROVE Len(Decimal[n]) <= 1
    OBVIOUS
  <2>1. Len(Decimal[n]) = 1
    BY <1>3
  <2> QED
    BY <2>1
<1>7. Within(10 * 10, 1 + 1)
  <2> HIDE DEF Within
  <2> QED
    BY <1>5, <1>6
<1>8. Within(10000, 4)
  <2> HIDE DEF Within
  <2>1. Within(100, 2)
    BY <1>7, SMT
  <2>2. Within(10 * 100, 2 + 1)
    BY <1>5, <2>1, SMT
  <2>3. Within(1000, 3)
    BY <2>2, SMT
  <2>4. Within(10 * 1000, 3 + 1)
    BY <1>5, <2>3, SMT
  <2> QED
    BY <2>4, SMT
<1>12. Len(Decimal[port]) <= 5
  <2>1. Within(10 * 10000, 4 + 1)
    <3> HIDE DEF Within
    <3> QED
      BY <1>5, <1>8, SMT
  <2>2. Len(Decimal[port]) <= 4 + 1
    BY <1>1, <2>1, SMT
  <2> QED
    BY <2>2, SMT
<1>11. port \in Nat
  BY <1>1, SMT
<1>9. Decimal[port] \in Seq(Symbols)
  <2>1. Digits \subseteq Symbols
    BY DEF Symbols
  <2> QED
    BY <1>2, <1>11, <2>1, SeqMonotonic
<1>10. PortOf(Decimal[port]) = port
  <2> DEFINE text == Decimal[port]
  <2>1. PICK length \in Nat : length = Len(text)
    BY <1>2, <1>11
  <2>2. \A i \in 1 .. length : text[i] \in Digits
    BY <1>2, <1>11, <2>1, ElementOfSeq
  <2>3. Denotes(text, port) /\ text # <<>>
    BY <1>2, <1>11, DecimalDenotes
  <2>9. text \in Seq(Symbols)
    BY <1>9
  <2> HIDE DEF text
  <2>4. PICK size \in 0 .. length :
          /\ size = length \/ text[size + 1] \notin Digits
          /\ \E v \in ValuesOf(text, size) : NumberAt(text) = v[size]
    BY <2>1, <2>9, NumberIsValue
  <2>5. size = length
    <3>1. size # length => size + 1 \in 1 .. length
      OBVIOUS
    <3> QED
      BY <2>2, <2>4, <3>1
  <2>6. PICK v \in ValuesOf(text, length) : NumberAt(text) = v[length]
    BY <2>4, <2>5
  <2>7. NumberAt(text) = port
    BY <2>1, <2>3, <2>6 DEF Denotes
  <2>8. Signed(text) = NumberAt(text) % 2^16
    <3>1. length >= 1
      BY <2>1, <2>3, <2>9, EmptySeq
    <3>2. Head(text) = text[1] /\ text[1] \in Digits
      BY <2>1, <2>2, <2>3, <2>9, <3>1
    <3> QED
      BY <2>3, <3>2, DigitsAreNoBlanks, Zenon DEF Signed
  <2>10. Unblank(text) = 1
    <3> DEFINE I == {i \in 1 .. Len(text) : text[i] \notin {"space", "tab"}}
    <3>1. Unblank(text) = IF I # {} THEN Min(I) ELSE 0
      BY DEF SelectInSeq, Unblank
    <3>2. length >= 1
      BY <2>1, <2>3, <2>9, EmptySeq
    <3>3. 1 \in I /\ \A i \in I : i \in Nat /\ 1 <= i
      <4>1. text[1] \notin {"space", "tab"}
        BY <2>2, <3>2, DigitsAreNoBlanks
      <4>2. 1 \in I
        BY <2>1, <3>2, <4>1
      <4>3. I \subseteq 1 .. length
        BY <2>1
      <4> HIDE DEF I
      <4> QED
        BY <4>2, <4>3
    <3> HIDE DEF I
    <3>4. \A x \in I : (\A y \in I : x <= y) => x = 1
      BY <3>3
    <3>5. Min(I) = 1
      BY <3>3, <3>4 DEF Min
    <3> QED
      BY <3>1, <3>3, <3>5
  <2>11. SubSeq(text, 1, Len(text)) = text
    BY <2>9, SubSeqFull
  <2>12. PortOf(text) = Signed(text)
    <3>1. PortOf(text) = Signed(IF Unblank(text) = 0 THEN <<>>
                                ELSE SubSeq(text, Unblank(text), Len(text)))
      BY PortIsSigned
    <3>2. ~(Unblank(text) = 0)
      BY <2>10
    <3> QED
      BY <2>10, <2>11, <3>1, <3>2, Zenon
  <2>13. PortOf(text) = port
    BY <1>1, <2>7, <2>8, <2>12, SMT
  <2> QED
    BY <2>13 DEF text
<1> QED
  BY <1>2, <1>10, <1>11, <1>12

-----------------------------------------------------------------------------
(* The selector in a URL, encoded as far as there is room.                 *)

\* What the texts of a sequence are joined into, one after the other.
Flattenings(seqs, n, S) ==
    {f \in [0 .. n -> Seq(S)] :
       f[0] = <<>> /\ \A i \in 1 .. n : f[i] = f[i - 1] \o seqs[i]}

LEMMA FlatteningExists ==
    ASSUME NEW S, NEW n \in Nat, NEW seqs \in [1 .. n -> Seq(S)]
    PROVE  Flattenings(seqs, n, S) # {}
<1> DEFINE T == Seq(S)
           Step(x) == IF x[1] < n THEN x[2] \o seqs[x[1] + 1] ELSE <<>>
           h == [x \in Nat \X T |-> Step(x)]
<1>1. <<>> \in T
  BY EmptySeq
<1>2. h \in [Nat \X T -> T]
  <2>1. ASSUME NEW x \in Nat \X T PROVE Step(x) \in T
    <3>1. x[1] \in Nat /\ x[2] \in T
      OBVIOUS
    <3>2. CASE x[1] < n
      <4>1. x[1] + 1 \in 1 .. n
        BY <3>1, <3>2
      <4>2. seqs[x[1] + 1] \in Seq(S)
        BY <4>1
      <4>3. x[2] \o seqs[x[1] + 1] \in Seq(S)
        BY <3>1, <4>2, ConcatProperties
      <4> QED
        BY <3>2, <4>3
    <3>3. CASE ~(x[1] < n)
      BY <1>1, <3>3
    <3> QED
      BY <3>2, <3>3
  <2> HIDE DEF T, Step
  <2> QED
    BY <2>1
<1>3. PICK g \in Iterations(T, <<>>, h) : TRUE
  <2> HIDE DEF T, h
  <2>1. Iterations(T, <<>>, h) # {}
    BY <1>1, <1>2, RecursionOnNat
  <2> QED
    BY <2>1
<1>4. g \in [Nat -> T] /\ g[0] = <<>> /\ \A i \in Nat : g[i + 1] = h[<<i, g[i]>>]
  <2> HIDE DEF T, h
  <2> QED
    BY <1>3 DEF Iterations
<1> DEFINE f == [i \in 0 .. n |-> g[i]]
<1>5. f \in [0 .. n -> T] /\ f[0] = <<>>
  <2> HIDE DEF T
  <2> QED
    BY <1>4
<1>6. ASSUME NEW i \in 1 .. n PROVE f[i] = f[i - 1] \o seqs[i]
  <2>1. PICK k \in Nat : k = i - 1 /\ k + 1 = i /\ k < n
    OBVIOUS
  <2>2. <<k, g[k]>> \in Nat \X T
    <3> HIDE DEF T
    <3> QED
      BY <1>4
  <2>3. h[<<k, g[k]>>] = Step(<<k, g[k]>>)
    <3> HIDE DEF T, Step
    <3> QED
      BY <2>2
  <2>4. Step(<<k, g[k]>>) = g[k] \o seqs[k + 1]
    BY <2>1
  <2>5. g[k + 1] = h[<<k, g[k]>>]
    BY <1>4
  <2>6. f[i] = g[k + 1] /\ f[i - 1] = g[k]
    BY <2>1
  <2> HIDE DEF h, Step, f
  <2> QED
    BY <2>1, <2>3, <2>4, <2>5, <2>6, Zenon
<1> HIDE DEF f
<1>7. f \in Flattenings(seqs, n, S)
  BY <1>5, <1>6 DEF Flattenings
<1> QED
  BY <1>7

LEMMA FlattenIsLast ==
    ASSUME NEW S, NEW n \in Nat, NEW seqs \in [1 .. n -> Seq(S)]
    PROVE  \E f \in Flattenings(seqs, n, S) : FlattenSeq(seqs) = f[n]
<1>1. PICK f \in Flattenings(seqs, n, S) : TRUE
  BY FlatteningExists
<1>2. /\ f \in [0 .. n -> Seq(S)] /\ f[0] = <<>>
      /\ \A i \in 1 .. n : f[i] = f[i - 1] \o seqs[i]
  BY DEF Flattenings
<1>3. Len(seqs) = n /\ (n = 0 => seqs = <<>>)
  <2> DEFINE U == Seq(S)
  <2> HIDE DEF U
  <2>1. seqs \in [1 .. n -> U]
    BY DEF U
  <2>2. seqs \in Seq(U)
    BY <2>1, SeqDef
  <2>3. Len(seqs) = n
    BY <2>1, <2>2, LenProperties
  <2> QED
    BY <2>2, <2>3, EmptySeq
<1> DEFINE F(s) == [i \in 1 .. Len(seqs) |->
                      IF i = 1 THEN seqs[i] ELSE s[i - 1] \o seqs[i]]
           flatten == CHOOSE s : s = F(s)
<1>4. FlattenSeq(seqs) = IF Len(seqs) = 0 THEN seqs ELSE flatten[Len(seqs)]
  BY DEF FlattenSeq
<1>5. CASE n = 0
  <2>1. seqs = <<>>
    BY <1>3, <1>5
  <2>2. FlattenSeq(seqs) = seqs
    BY <1>3, <1>5, Zenon DEF FlattenSeq
  <2>3. f[n] = <<>>
    BY <1>2, <1>5
  <2> QED
    BY <1>1, <2>1, <2>2, <2>3, Zenon
<1>6. CASE n # 0
  <2>1. n \in 1 .. n /\ 1 \in 1 .. n
    BY <1>6
  <2>2. f[1] = seqs[1]
    <3>0. f[1] = f[1 - 1] \o seqs[1]
      BY <1>2, <2>1, Zenon
    <3>1. f[1] = f[1 - 1] \o seqs[1] /\ 1 - 1 = 0
      BY <3>0
    <3>2. <<>> \o seqs[1] = seqs[1]
      BY <2>1, ConcatEmptySeq
    <3> QED
      BY <1>2, <3>1, <3>2, Zenon
  <2> DEFINE g == [i \in 1 .. n |-> f[i]]
  <2>3. g = F(g)
    <3>1. ASSUME NEW i \in 1 .. n PROVE g[i] = F(g)[i]
      <4>1. CASE i = 1
        BY <1>3, <2>2, <4>1
      <4>2. CASE i # 1
        <5>1. i - 1 \in 1 .. n
          BY <4>2
        <5>2. g[i] = f[i] /\ g[i - 1] = f[i - 1]
          BY <5>1
        <5>3. F(g)[i] = g[i - 1] \o seqs[i]
          BY <1>3, <4>2
        <5> HIDE DEF g
        <5> QED
          BY <1>2, <5>2, <5>3
      <4> QED
        BY <4>1, <4>2
    <3> QED
      BY <1>3, <3>1
  <2>4. \E s : s = F(s)
    <3> HIDE DEF g, F
    <3> QED
      BY <2>3
  <2>5. flatten = F(flatten)
    BY <2>4
  <2> HIDE DEF flatten, g
  <2>6. /\ flatten[1] = seqs[1]
        /\ \A i \in 1 .. n : i # 1 => flatten[i] = flatten[i - 1] \o seqs[i]
    <3>1. flatten = [i \in 1 .. n |->
                       IF i = 1 THEN seqs[i] ELSE flatten[i - 1] \o seqs[i]]
      BY <1>3, <2>5
    <3> HIDE <2>5
    <3> QED
      BY <2>1, <3>1
  <2> DEFINE Good == {i \in Nat : i + 1 \in 1 .. n => flatten[i + 1] = f[i + 1]}
  <2>7. 0 \in Good
    BY <2>2, <2>6
  <2>8. ASSUME NEW i \in Nat, i \in Good PROVE i + 1 \in Good
    <3>1. SUFFICES ASSUME (i + 1) + 1 \in 1 .. n
                   PROVE  flatten[(i + 1) + 1] = f[(i + 1) + 1]
      OBVIOUS
    <3>2. PICK j \in 1 .. n : j = (i + 1) + 1
      BY <3>1
    <3>3. j - 1 = i + 1 /\ j # 1 /\ i + 1 \in 1 .. n
      BY <3>2
    <3>4. flatten[i + 1] = f[i + 1]
      BY <2>8, <3>3
    <3>5. flatten[j] = flatten[j - 1] \o seqs[j] /\ f[j] = f[j - 1] \o seqs[j]
      BY <1>2, <2>6, <3>3
    <3> QED
      BY <3>2, <3>3, <3>4, <3>5
  <2> HIDE DEF Good
  <2>9. \A i \in Nat : i \in Good
    BY <2>7, <2>8, NatSetInduction
  <2>10. PICK k \in Nat : k + 1 = n
    <3>1. n - 1 \in Nat /\ (n - 1) + 1 = n
      BY <1>6
    <3> QED
      BY <3>1
  <2>11. flatten[n] = f[n]
    BY <2>1, <2>9, <2>10 DEF Good
  <2> QED
    BY <1>1, <1>3, <1>4, <1>6, <2>11
<1> QED
  BY <1>5, <1>6

LEMMA EncodedIsText == \A c \in Symbols : Encoded(c) \in Seq(Symbols)
<1>1. <<"%", "0", "9">> \in Seq(Symbols)
  <2>1. "%" \in Symbols /\ "0" \in Symbols /\ "9" \in Symbols
    BY DEF Symbols, Digits, ToSet, DigitSeq
  <2> QED
    BY <2>1
<1> QED
  BY <1>1 DEF Encoded

LEMMA EncodedUpToText ==
    ASSUME NEW selector \in Seq(Symbols), NEW n \in 0 .. Len(selector)
    PROVE  /\ EncodedUpTo(selector, n) \in Seq(Symbols)
           /\ n = 0 => EncodedUpTo(selector, n) = <<>>
           /\ (\A i \in 1 .. n : selector[i] # "tab")
                => EncodedUpTo(selector, n) = SubSeq(selector, 1, n)
<1> DEFINE seqs == [i \in 1 .. n |-> Encoded(selector[i])]
<1>0. n \in Nat /\ \A i \in 1 .. n : i \in 1 .. Len(selector)
  BY LenProperties
<1>1. seqs \in [1 .. n -> Seq(Symbols)]
  <2>1. \A i \in 1 .. n : selector[i] \in Symbols
    BY <1>0, ElementOfSeq
  <2> QED
    BY <2>1, EncodedIsText
<1>2. EncodedUpTo(selector, n) = FlattenSeq(seqs)
  BY DEF EncodedUpTo
<1>3. \A i \in 1 .. n : selector[i] # "tab" => seqs[i] = <<selector[i]>>
  BY DEF Encoded
<1> HIDE DEF seqs
<1>4. PICK f \in Flattenings(seqs, n, Symbols) : FlattenSeq(seqs) = f[n]
  BY <1>0, <1>1, FlattenIsLast
<1>5. /\ f \in [0 .. n -> Seq(Symbols)] /\ f[0] = <<>>
      /\ \A i \in 1 .. n : f[i] = f[i - 1] \o seqs[i]
  BY <1>4 DEF Flattenings
<1>6. n \in 0 .. n
  BY <1>0
<1>7. ASSUME \A i \in 1 .. n : selector[i] # "tab"
      PROVE  f[n] = SubSeq(selector, 1, n)
  <2> DEFINE Good == {i \in Nat : i <= n => f[i] = SubSeq(selector, 1, i)}
  <2>1. 0 \in Good
    <3>1. SubSeq(selector, 1, 0) = <<>>
      BY SubSeqEmpty
    <3> QED
      BY <1>5, <3>1
  <2>2. ASSUME NEW i \in Nat, i \in Good PROVE i + 1 \in Good
    <3>1. SUFFICES ASSUME i + 1 <= n PROVE f[i + 1] = SubSeq(selector, 1, i + 1)
      OBVIOUS
    <3>2. PICK j \in 1 .. n : j = i + 1 /\ j - 1 = i
      BY <1>0, <3>1
    <3>3. f[i] = SubSeq(selector, 1, i)
      BY <1>0, <2>2, <3>1
    <3>4. f[j] = f[j - 1] \o <<selector[j]>>
      BY <1>3, <1>5, <1>7
    <3>5. j \in 1 .. Len(selector) /\ 1 \in 1 .. Len(selector) /\ j \in 1 .. Len(selector)
      <4>1. j \in 1 .. Len(selector)
        BY <1>0
      <4> QED
        BY <4>1, LenProperties
    <3>6. SubSeq(selector, 1, j) = SubSeq(selector, 1, j - 1) \o <<selector[j]>>
      BY <3>5, SubSeqRecursiveSecond
    <3> QED
      BY <3>2, <3>3, <3>4, <3>6
  <2> HIDE DEF Good
  <2>3. \A i \in Nat : i \in Good
    BY <2>1, <2>2, NatSetInduction
  <2> QED
    BY <1>0, <2>3 DEF Good
<1> QED
  BY <1>2, <1>4, <1>5, <1>6, <1>7

LEMMA EncodedFits ==
    ASSUME NEW selector \in Seq(Symbols), NEW room \in Nat
    PROVE  /\ EncodedWithin(selector, room) \in Seq(Symbols)
           /\ Len(EncodedWithin(selector, room)) <= room
           /\ Free(selector, {"tab"})
                => IF Len(selector) <= room THEN EncodedWithin(selector, room) = selector
                   ELSE Len(EncodedWithin(selector, room)) = room
<1> DEFINE fits == {n \in 0 .. Len(selector) : Len(EncodedUpTo(selector, n)) <= room}
           chosen == CHOOSE n \in fits : \A k \in fits : k <= n
<1>1. PICK size \in Nat : size = Len(selector)
  BY LenProperties
<1>2. 0 \in fits
  <2>1. EncodedUpTo(selector, 0) = <<>>
    BY <1>1, EncodedUpToText
  <2>2. Len(<<>>) = 0
    OBVIOUS
  <2> QED
    BY <1>1, <2>1, <2>2
<1>3. \E n \in fits : \A k \in fits : k <= n
  <2> DEFINE left == {size - n : n \in fits}
  <2>1. left \subseteq Nat /\ left # {}
    BY <1>1, <1>2
  <2>2. PICK m \in left : \A k \in left : m <= k
    <3> HIDE DEF left
    <3> QED
      BY <2>1, LeastNumber
  <2>3. PICK n \in fits : m = size - n
    BY <2>2
  <2>4. ASSUME NEW k \in fits PROVE k <= n
    <3>1. size - n <= size - k
      BY <2>2, <2>3
    <3> QED
      BY <1>1, <3>1
  <2> QED
    BY <2>4
<1>4. chosen \in fits /\ \A k \in fits : k <= chosen
  <2> HIDE DEF fits
  <2> QED
    BY <1>3
<1>5. EncodedWithin(selector, room) = EncodedUpTo(selector, chosen)
  BY DEF EncodedWithin
<1> HIDE DEF chosen
<1>6. chosen \in 0 .. size /\ Len(EncodedUpTo(selector, chosen)) <= room
  BY <1>1, <1>4
<1>7. EncodedUpTo(selector, chosen) \in Seq(Symbols)
  BY <1>1, <1>6, EncodedUpToText
<1>8. ASSUME Free(selector, {"tab"})
      PROVE  IF Len(selector) <= room THEN EncodedUpTo(selector, chosen) = selector
             ELSE Len(EncodedUpTo(selector, chosen)) = room
  <2>1. \A i \in 1 .. size : selector[i] # "tab"
    BY <1>1, <1>8 DEF Free
  <2>2. ASSUME NEW n \in 0 .. size
        PROVE  /\ EncodedUpTo(selector, n) = SubSeq(selector, 1, n)
               /\ Len(SubSeq(selector, 1, n)) = n
    <3>1. \A i \in 1 .. n : i \in 1 .. size
      OBVIOUS
    <3>2. \A i \in 1 .. n : selector[i] # "tab"
      BY <2>1, <3>1
    <3>3. EncodedUpTo(selector, n) = SubSeq(selector, 1, n)
      BY <1>1, <3>2, EncodedUpToText
    <3>4. \A i \in 1 .. n : selector[i] \in Symbols
      BY <1>1, <3>1, ElementOfSeq
    <3>5. Len(SubSeq(selector, 1, n)) = IF 1 <= n THEN n - 1 + 1 ELSE 0
      BY <3>4, SubSeqProperties
    <3> QED
      BY <3>3, <3>5
  <2>3. \A n \in 0 .. size : n <= room => n <= chosen
    <3>1. \A n \in 0 .. size : n <= room => n \in fits
      BY <1>1, <2>2
    <3> HIDE DEF fits
    <3> QED
      BY <1>4, <3>1
  <2>4. chosen <= room /\ Len(EncodedUpTo(selector, chosen)) = chosen
    BY <1>6, <2>2
  <2>5. CASE size <= room
    <3>1. chosen = size
      BY <1>6, <2>3, <2>5
    <3>2. SubSeq(selector, 1, size) = selector
      BY <1>1, SubSeqFull
    <3> QED
      BY <1>1, <1>6, <2>2, <2>5, <3>1, <3>2
  <2>6. CASE ~(size <= room)
    <3>1. room \in 0 .. size
      BY <2>6
    <3>2. chosen = room
      BY <1>6, <2>3, <2>4, <3>1
    <3> QED
      BY <1>1, <2>4, <2>6, <3>2
  <2> QED
    BY <2>5, <2>6
<1> QED
  BY <1>5, <1>6, <1>7, <1>8

-----------------------------------------------------------------------------
(* The URL of a location is a text that fits in its array.                 *)

LEMMA LocationsAreLocated == Locations \subseteq Located
<1> SUFFICES ASSUME NEW l \in Locations PROVE l \in Located
  OBVIOUS
<1>1. STRING \subseteq Symbols
  BY DEF Symbols
<1>2. \A t \in Seq(STRING) : t \in Seq(Symbols)
  BY <1>1, SeqMonotonic
<1>3. /\ l = [proto |-> l.proto, host |-> l.host, port |-> l.port,
              itemtype |-> l.itemtype, selector |-> l.selector]
      /\ l.proto \in DOMAIN DefaultPort /\ l.host \in Seq(STRING)
      /\ l.port \in Shorts /\ l.itemtype \in STRING /\ l.selector \in Seq(STRING)
  BY DEF Locations, Shorts
<1>4. l.proto \in Protocols
  BY <1>3, Defaults
<1>5. l.itemtype \in Symbols /\ l.host \in Seq(Symbols) /\ l.selector \in Seq(Symbols)
  BY <1>1, <1>2, <1>3
<1> QED
  BY <1>3, <1>4, <1>5 DEF Located

LEMMA DecimalIsText ==
    ASSUME NEW port \in Shorts
    PROVE  Decimal[port] \in Seq(Symbols) /\ Len(Decimal[port]) <= 5
<1>1. Digits \subseteq Symbols
  BY DEF Symbols
<1> QED
  BY <1>1, PortReadsBack, SeqMonotonic

LEMMA WithPortText ==
    ASSUME NEW l \in Located, NEW default
    PROVE  /\ WithPort(l, default) \in Seq(Symbols)
           /\ Len(WithPort(l, default)) <= Len(l.host) + 6
<1>1. l.host \in Seq(Symbols) /\ l.port \in Shorts
  BY DEF Located
<1>2. PICK h \in Nat : h = Len(l.host)
  BY <1>1, LenProperties
<1>3. CASE l.port = default
  <2>1. WithPort(l, default) = l.host
    BY <1>3 DEF WithPort
  <2> QED
    BY <1>1, <1>2, <2>1
<1>4. CASE l.port # default
  <2> DEFINE decimal == Decimal[l.port]
             front == l.host \o <<":">>
  <2>1. WithPort(l, default) = front \o decimal
    BY <1>4 DEF WithPort
  <2>2. decimal \in Seq(Symbols) /\ Len(decimal) <= 5
    BY <1>1, DecimalIsText
  <2>3. PICK d \in Nat : d = Len(decimal) /\ d <= 5
    <3> HIDE DEF decimal
    <3> QED
      BY <2>2, LenProperties
  <2>4. <<":">> \in Seq(Symbols) /\ Len(<<":">>) = 1
    BY MarksAreSymbols
  <2>5. front \in Seq(Symbols) /\ Len(front) = h + 1
    BY <1>1, <1>2, <2>4, ConcatProperties
  <2> HIDE DEF decimal, front
  <2>6. front \o decimal \in Seq(Symbols) /\ Len(front \o decimal) = (h + 1) + d
    BY <2>2, <2>3, <2>5, ConcatProperties
  <2>7. Len(front \o decimal) <= Len(l.host) + 6
    BY <1>2, <2>3, <2>6
  <2> QED
    BY <2>1, <2>6, <2>7, Zenon
<1> QED
  BY <1>3, <1>4

LEMMA PrintedFits ==
    ASSUME NEW text \in Seq(Symbols), NEW n \in Nat \ {0}
    PROVE  /\ Printed(text, n) \in Seq(Symbols) /\ Len(Printed(text, n)) <= n - 1
           /\ Len(Printed(text, n)) <= Len(text)
           /\ Len(Printed(text, n)) < n - 1 => Printed(text, n) = text
           /\ Printed(text, n) = text \/ Len(Printed(text, n)) = n - 1
<1>1. PICK size \in Nat : size = Len(text)
  BY LenProperties
<1> DEFINE m == IF size < n THEN size ELSE n - 1
<1>2. Printed(text, n) = SubSeq(text, 1, m)
  BY <1>1 DEF Printed
<1>3. m \in Nat /\ m <= size /\ m <= n - 1 /\ (m < n - 1 => m = size)
  BY <1>1
<1> HIDE DEF m
<1>4. \A i \in 1 .. m : text[i] \in Symbols
  <2>1. \A i \in 1 .. m : i \in 1 .. Len(text)
    BY <1>1, <1>3
  <2> QED
    BY <2>1, ElementOfSeq
<1>5. /\ SubSeq(text, 1, m) \in Seq(Symbols)
      /\ Len(SubSeq(text, 1, m)) = IF 1 <= m THEN m - 1 + 1 ELSE 0
  BY <1>3, <1>4, SubSeqProperties
<1>6. Len(SubSeq(text, 1, m)) = m
  BY <1>3, <1>5
<1>7. SubSeq(text, 1, size) = text
  BY <1>1, SubSeqFull
<1>8. /\ m <= n - 1 /\ m <= size /\ (m < n - 1 => SubSeq(text, 1, m) = text)
      /\ SubSeq(text, 1, m) = text \/ m = n - 1
  BY <1>3, <1>7
<1> QED
  BY <1>1, <1>2, <1>5, <1>6, <1>8

LEMMA Limits ==
    /\ MAXURLLEN \in Nat /\ MAXURLLEN >= 14 /\ MAXURLLEN - 1 \in Nat \ {0}
    /\ MAXHOSTLEN \in Nat /\ MAXSELLEN \in Nat /\ MAXHOSTLEN + 13 <= MAXURLLEN
BY UrlsAssumption DEF UrlsAssumption

\* The scheme in front of a URL.
SchemeText(proto) == <<proto, ":", "/", "/">>

LEMMA SchemeIsText ==
    \A p \in Protocols : SchemeText(p) \in Seq(Symbols) /\ Len(SchemeText(p)) = 4
<1>1. Protocols \subseteq Symbols /\ {":", "/"} \subseteq Symbols
  BY MarksAreSymbols DEF Protocols
<1> QED
  BY <1>1 DEF SchemeText

LEMMA SmallTexts ==
    /\ <<"/">> \in Seq(Symbols) /\ Len(<<"/">>) = 1
    /\ <<":">> \in Seq(Symbols) /\ Len(<<":">>) = 1
    /\ \A c \in Symbols : <<"/", c>> \in Seq(Symbols) /\ Len(<<"/", c>>) = 2
BY MarksAreSymbols

Start(location) == SchemeText("gopher") \o WithPort(location, 70)
TypedStart(location) == Start(location) \o <<"/", location.itemtype>>

LEMMA StartText ==
    ASSUME NEW l \in Located
    PROVE  /\ Start(l) \in Seq(Symbols) /\ TypedStart(l) \in Seq(Symbols)
           /\ Len(Start(l)) <= Len(l.host) + 10
           /\ Len(TypedStart(l)) = Len(Start(l)) + 2
<1>1. l.host \in Seq(Symbols) /\ l.itemtype \in Symbols
  BY DEF Located
<1>2. SchemeText("gopher") \in Seq(Symbols) /\ Len(SchemeText("gopher")) = 4
  BY SchemeIsText DEF Protocols
<1>3. WithPort(l, 70) \in Seq(Symbols) /\ Len(WithPort(l, 70)) <= Len(l.host) + 6
  BY WithPortText
<1>4. PICK h, w \in Nat : h = Len(l.host) /\ w = Len(WithPort(l, 70))
  BY <1>1, <1>3, LenProperties
<1>5. Start(l) \in Seq(Symbols) /\ Len(Start(l)) = 4 + w
  <2>1. /\ Start(l) \in Seq(Symbols)
        /\ Len(Start(l)) = Len(SchemeText("gopher")) + Len(WithPort(l, 70))
    BY <1>2, <1>3, ConcatProperties DEF Start
  <2> QED
    BY <1>2, <1>4, <2>1, Zenon
<1>6. /\ <<"/", l.itemtype>> \in Seq(Symbols) /\ Len(<<"/", l.itemtype>>) = 2
  BY <1>1, SmallTexts
<1>7. TypedStart(l) \in Seq(Symbols) /\ Len(TypedStart(l)) = Len(Start(l)) + 2
  BY <1>5, <1>6, ConcatProperties DEF TypedStart
<1>8. w <= h + 6
  BY <1>3, <1>4
<1>9. 4 + w <= h + 10
  BY <1>8
<1> QED
  BY <1>4, <1>5, <1>7, <1>9, Zenon

HttpText(location) ==
    SchemeText("http") \o WithPort(location, 80) \o <<"/">> \o location.selector
TelnetText(location) ==
    SchemeText("telnet") \o location.host \o <<":">> \o Decimal[location.port]

LEMMA LongTexts ==
    ASSUME NEW l \in Located
    PROVE  /\ HttpText(l) \in Seq(Symbols) /\ TelnetText(l) \in Seq(Symbols)
           /\ UrlWithin(l) \in Seq(Symbols)
<1>1. l.host \in Seq(Symbols) /\ l.selector \in Seq(Symbols) /\ l.port \in Shorts
  BY DEF Located
<1>2. SchemeText("http") \in Seq(Symbols) /\ SchemeText("telnet") \in Seq(Symbols)
  BY SchemeIsText DEF Protocols
<1>3. WithPort(l, 80) \in Seq(Symbols) /\ Decimal[l.port] \in Seq(Symbols)
  BY <1>1, WithPortText, DecimalIsText
<1>4. HttpText(l) \in Seq(Symbols)
  <2>1. SchemeText("http") \o WithPort(l, 80) \in Seq(Symbols)
    BY <1>2, <1>3, ConcatProperties
  <2>2. SchemeText("http") \o WithPort(l, 80) \o <<"/">> \in Seq(Symbols)
    BY <2>1, SmallTexts, ConcatProperties
  <2> QED
    BY <1>1, <2>2, ConcatProperties DEF HttpText
<1>5. TelnetText(l) \in Seq(Symbols)
  <2>1. SchemeText("telnet") \o l.host \in Seq(Symbols)
    BY <1>1, <1>2, ConcatProperties
  <2>2. SchemeText("telnet") \o l.host \o <<":">> \in Seq(Symbols)
    BY <2>1, SmallTexts, ConcatProperties
  <2> QED
    BY <1>3, <2>2, ConcatProperties DEF TelnetText
<1>6. UrlWithin(l) \in Seq(Symbols)
  <2>1. PICK size \in Nat : size = Len(l.selector)
    BY <1>1, LenProperties
  <2>2. ASSUME NEW k \in {2, 3} PROVE SubSeq(l.selector, k + 1, size) \in Seq(Symbols)
    <3>1. \A i \in k + 1 .. size : i \in 1 .. Len(l.selector)
      BY <2>1
    <3>2. \A i \in k + 1 .. size : l.selector[i] \in Symbols
      BY <1>1, <3>1, ElementOfSeq
    <3>3. k + 1 \in Int
      OBVIOUS
    <3> QED
      BY <3>2, <3>3, SubSeqProperties
  <2>3. \E k \in {2, 3} : UrlWithin(l) = SubSeq(l.selector, k + 1, size)
    BY <2>1 DEF UrlWithin
  <2> QED
    BY <2>2, <2>3
<1> QED
  BY <1>4, <1>5, <1>6

LEMMA UrlCases ==
    ASSUME NEW l
    PROVE  buildgopherurl(l) =
             IF l.proto = "http" THEN Printed(HttpText(l), MAXURLLEN - 1)
             ELSE IF HasUrl(l) THEN Printed(UrlWithin(l), MAXURLLEN - 1)
             ELSE IF l.itemtype = "8" THEN Printed(TelnetText(l), MAXURLLEN - 1)
             ELSE IF l.host = <<>> THEN SchemeText("gopher")
             ELSE IF l.itemtype = "1" /\ l.selector = <<>>
             THEN Printed(Start(l), MAXURLLEN - 1)
             ELSE Printed(TypedStart(l), MAXURLLEN - 1)
                    \o EncodedWithin(l.selector, MAXURLLEN - 1 - Len(TypedStart(l)))
BY Zenon DEF buildgopherurl, HttpText, TelnetText, SchemeText, Start, TypedStart

\* Whether a gopher URL with a type is put together.
Classic(l) ==
    /\ l.proto # "http" /\ ~HasUrl(l) /\ l.itemtype # "8" /\ l.host # <<>>
    /\ ~(l.itemtype = "1" /\ l.selector = <<>>)

\* Without an overrun there is room for the type, and it is 0 or more.
LEMMA TypeFits ==
    ASSUME NEW l \in Located, ~NotAUrl(l), ~UrlOverruns(l), Classic(l)
    PROVE  Len(TypedStart(l)) \in Nat /\ MAXURLLEN - 1 - Len(TypedStart(l)) \in Nat
<1>1. PICK s, t \in Nat : s = Len(Start(l)) /\ t = Len(TypedStart(l)) /\ t = s + 2
  BY StartText, LenProperties
<1>2. ~(s + 2 > MAXURLLEN - 1)
  <2>1. Start(l) = <<"gopher", ":", "/", "/">> \o WithPort(l, 70)
    BY DEF Start, SchemeText
  <2> QED
    BY <1>1, <2>1, Zenon DEF UrlOverruns, Classic
<1>3. MAXURLLEN - 1 - t \in Nat
  BY <1>1, <1>2, Limits
<1> QED
  BY <1>1, <1>3, Zenon

\* A URL goes beyond its array only for a host that is too long to be parsed.
LEMMA OverrunIsLong ==
    ASSUME NEW l \in Located, UrlOverruns(l)
    PROVE  Len(l.host) >= MAXHOSTLEN
<1>1. PICK h, s \in Nat : h = Len(l.host) /\ s = Len(Start(l)) /\ s <= h + 10
  <2>1. Len(l.host) \in Nat /\ Len(Start(l)) \in Nat /\ Len(Start(l)) <= Len(l.host) + 10
    BY StartText, LenProperties DEF Located
  <2> QED
    BY <2>1, Zenon
<1>2. 4 + h > MAXURLLEN - 1 \/ s + 2 > MAXURLLEN - 1
  <2>1. Start(l) = <<"gopher", ":", "/", "/">> \o WithPort(l, 70)
    BY DEF Start, SchemeText
  <2> QED
    BY <1>1, <2>1, Zenon DEF UrlOverruns
<1>3. h >= MAXHOSTLEN
  BY <1>1, <1>2, Limits
<1> QED
  BY <1>1, <1>3

LEMMA UrlFits ==
    ASSUME NEW l \in Located, ~NotAUrl(l), ~UrlOverruns(l)
    PROVE  buildgopherurl(l) \in Seq(Symbols) /\ Len(buildgopherurl(l)) < MAXURLLEN
<1> DEFINE built == buildgopherurl(l)
           room == MAXURLLEN - 1 - Len(TypedStart(l))
           Fits(text) == text \in Seq(Symbols) /\ Len(text) < MAXURLLEN
<1>1. \A text \in Seq(Symbols) : Fits(Printed(text, MAXURLLEN - 1))
  <2> SUFFICES ASSUME NEW text \in Seq(Symbols)
               PROVE  Fits(Printed(text, MAXURLLEN - 1))
    OBVIOUS
  <2>1. /\ Printed(text, MAXURLLEN - 1) \in Seq(Symbols)
        /\ Len(Printed(text, MAXURLLEN - 1)) <= MAXURLLEN - 1 - 1
    BY Limits, PrintedFits
  <2>2. PICK n \in Nat : n = Len(Printed(text, MAXURLLEN - 1))
    BY <2>1, LenProperties
  <2>3. n < MAXURLLEN
    BY <2>1, <2>2, Limits
  <2> QED
    BY <2>1, <2>2, <2>3
<1>2. l.host \in Seq(Symbols) /\ l.selector \in Seq(Symbols)
  BY DEF Located
<1>3. Start(l) \in Seq(Symbols) /\ TypedStart(l) \in Seq(Symbols)
  BY StartText
<1>4. Fits(SchemeText("gopher"))
  <2>1. SchemeText("gopher") \in Seq(Symbols) /\ Len(SchemeText("gopher")) = 4
    BY SchemeIsText DEF Protocols
  <2>2. 4 < MAXURLLEN
    BY Limits
  <2> QED
    BY <2>1, <2>2, Zenon
<1>6. ASSUME Classic(l)
      PROVE  Fits(Printed(TypedStart(l), MAXURLLEN - 1) \o EncodedWithin(l.selector, room))
  <2>1. PICK t, r \in Nat : t = Len(TypedStart(l)) /\ r = room
    BY <1>6, TypeFits, Zenon
  <2>2. r = MAXURLLEN - 1 - t
    BY <2>1
  <2> HIDE DEF room
  <2>3. /\ EncodedWithin(l.selector, r) \in Seq(Symbols)
        /\ Len(EncodedWithin(l.selector, r)) <= r
    BY <1>2, <2>1, EncodedFits
  <2> DEFINE printed == Printed(TypedStart(l), MAXURLLEN - 1)
  <2>4. printed \in Seq(Symbols) /\ Len(printed) <= t
    BY <1>3, <2>1, Limits, PrintedFits
  <2> HIDE DEF printed
  <2>5. PICK e, p \in Nat : /\ e = Len(EncodedWithin(l.selector, r)) /\ e <= r
                            /\ p = Len(printed) /\ p <= t
    BY <2>3, <2>4, LenProperties
  <2>6. /\ printed \o EncodedWithin(l.selector, r) \in Seq(Symbols)
        /\ Len(printed \o EncodedWithin(l.selector, r)) = p + e
    BY <2>3, <2>4, <2>5, ConcatProperties
  <2>7. p + e < MAXURLLEN
    BY <2>1, <2>2, <2>5, Limits
  <2> QED
    BY <2>1, <2>6, <2>7 DEF printed
<1>8. Classic(l) <=> /\ ~(l.proto = "http") /\ ~HasUrl(l) /\ ~(l.itemtype = "8")
                     /\ ~(l.host = <<>>) /\ ~(l.itemtype = "1" /\ l.selector = <<>>)
  BY Zenon DEF Classic
<1> HIDE DEF Fits, room
<1>7. Fits(built)
  BY <1>1, <1>3, <1>4, <1>6, <1>8, LongTexts, UrlCases, Zenon DEF room
<1> QED
  BY <1>7 DEF Fits

-----------------------------------------------------------------------------
(* The URL of a location leads to that location.                           *)

LEMMA Association ==
    \A s, t, u \in Seq(Symbols) : (s \o t) \o u = s \o (t \o u)
<1> SUFFICES ASSUME NEW s \in Seq(Symbols), NEW t \in Seq(Symbols),
                    NEW u \in Seq(Symbols)
             PROVE  (s \o t) \o u = s \o (t \o u)
  OBVIOUS
<1> QED
  BY ConcatAssociative

LEMMA Concatenation ==
    \A s, t \in Seq(Symbols) :
        /\ s \o t \in Seq(Symbols) /\ Len(s \o t) = Len(s) + Len(t)
        /\ \A i \in 1 .. Len(s) + Len(t) :
             (s \o t)[i] = IF i <= Len(s) THEN s[i] ELSE t[i - Len(s)]
BY ConcatProperties, Zenon

LEMMA FirstAndRest ==
    ASSUME NEW a \in Symbols, NEW rest \in Seq(Symbols), NEW all \in Seq(Symbols),
           Len(all) = Len(rest) + 1, all[1] = a,
           \A i \in 1 .. Len(rest) : all[i + 1] = rest[i]
    PROVE  <<a>> \o rest = all
<1>1. <<a>> \in Seq(Symbols) /\ Len(<<a>>) = 1 /\ <<a>>[1] = a
  OBVIOUS
<1>2. PICK n \in Nat : n = Len(rest)
  BY LenProperties
<1> DEFINE one == <<a>>
           t == one \o rest
<1> HIDE DEF one
<1>3. /\ t \in Seq(Symbols) /\ Len(t) = 1 + n
      /\ \A i \in 1 .. 1 + n : t[i] = IF i <= 1 THEN one[i] ELSE rest[i - 1]
  <2>1. one \in Seq(Symbols) /\ Len(one) = 1
    BY <1>1 DEF one
  <2>2. /\ t \in Seq(Symbols) /\ Len(t) = Len(one) + Len(rest)
        /\ \A i \in 1 .. Len(one) + Len(rest) :
             t[i] = IF i <= Len(one) THEN one[i] ELSE rest[i - Len(one)]
    BY <2>1, Concatenation
  <2> QED
    BY <1>2, <2>1, <2>2, Zenon
<1> HIDE DEF t
<1>4. one[1] = a
  BY <1>1 DEF one
<1>5. ASSUME NEW i \in 1 .. n + 1 PROVE t[i] = all[i]
  <2>1. CASE i = 1
    BY <1>3, <1>4, <2>1
  <2>2. CASE i # 1
    <3>1. i - 1 \in 1 .. n /\ (i - 1) + 1 = i /\ i \in 1 .. 1 + n /\ ~(i <= 1)
      BY <2>2
    <3>2. t[i] = rest[i - 1]
      BY <1>3, <3>1
    <3>3. all[(i - 1) + 1] = rest[i - 1]
      BY <1>2, <3>1, Zenon
    <3> QED
      BY <3>1, <3>2, <3>3
  <2> QED
    BY <2>1, <2>2
<1>6. Len(t) = n + 1 /\ Len(all) = n + 1
  BY <1>2, <1>3
<1>7. t = all
  BY <1>3, <1>5, <1>6, SeqEqual
<1> QED
  BY <1>7 DEF t, one

LEMMA SlashesCut ==
    ASSUME NEW text \in Seq(Symbols)
    PROVE  LET tail == <<"/", "/">> \o text
           IN  /\ tail \in Seq(Symbols) /\ IsPrefix(<<"/", "/">>, tail)
               /\ SubSeq(tail, 3, Len(tail)) = text
<1> DEFINE slashes == <<"/", "/">>
           tail == slashes \o text
<1>1. slashes \in Seq(Symbols) /\ Len(slashes) = 2
  BY MarksAreSymbols
<1>2. PICK n \in Nat : n = Len(text)
  BY LenProperties
<1> HIDE DEF slashes
<1>3. tail \in Seq(Symbols) /\ Len(tail) = 2 + n
  <2>1. tail \in Seq(Symbols) /\ Len(tail) = Len(slashes) + Len(text)
    BY <1>1, Concatenation
  <2> QED
    BY <1>1, <1>2, <2>1, Zenon
<1>4. SubSeq(tail, 1, 2) = SubSeq(slashes, 1, 2)
  <2>1. 1 \in 1 .. Len(slashes) /\ 2 \in 1 .. Len(slashes)
    BY <1>1
  <2> QED
    BY <1>1, <2>1, SubSeqOfConcat1
<1>5. IsPrefix(slashes, tail)
  <2>1. 2 <= 2 + n
    OBVIOUS
  <2> QED
    BY <1>1, <1>3, <1>4, <2>1, Zenon DEF IsPrefix
<1>6. SubSeq(tail, 3, 2 + n) = text
  <2>1. CASE n = 0
    <3>1. SubSeq(tail, 3, 2 + n) = <<>>
      BY <2>1, SubSeqEmpty
    <3>2. text = <<>>
      BY <1>2, <2>1, EmptySeq
    <3> QED
      BY <3>1, <3>2
  <2>2. CASE n # 0
    <3>1. PICK m \in Nat : m = 2 + n /\ m - 2 = n
      OBVIOUS
    <3>2. /\ 3 \in Len(slashes) + 1 .. Len(slashes) + Len(text)
          /\ m \in Len(slashes) + 1 .. Len(slashes) + Len(text)
      BY <1>1, <1>2, <2>2, <3>1
    <3>3. SubSeq(tail, 3, m) = SubSeq(text, 3 - Len(slashes), m - Len(slashes))
      BY <1>1, <3>2, SubSeqOfConcat2
    <3>4. SubSeq(tail, 3, 2 + n) = SubSeq(text, 1, n)
      <4>1. 3 - 2 = 1
        OBVIOUS
      <4>2. SubSeq(tail, 3, m) = SubSeq(text, 1, n)
        BY <1>1, <3>1, <3>3, <4>1, Zenon
      <4> QED
        BY <3>1, <4>2, Zenon
    <3>5. SubSeq(text, 1, n) = text
      BY <1>2, SubSeqFull
    <3> QED
      BY <3>4, <3>5
  <2> QED
    BY <2>1, <2>2
<1>7. SubSeq(tail, 3, Len(tail)) = text
  BY <1>3, <1>6, Zenon
<1> QED
  BY <1>3, <1>5, <1>7 DEF slashes

LEMMA SchemeSplit ==
    ASSUME NEW p \in Protocols, NEW text \in Seq(Symbols)
    PROVE  SchemeText(p) \o text = <<p>> \o (<<":">> \o (<<"/", "/">> \o text))
<1>1. p \in Symbols /\ ":" \in Symbols /\ "/" \in Symbols
  BY MarksAreSymbols DEF Protocols
<1>2. <<p>> \in Seq(Symbols) /\ <<":">> \in Seq(Symbols) /\ <<"/", "/">> \in Seq(Symbols)
  BY <1>1
<1>3. \A a, b, c \in Symbols : <<a>> \o <<b, c>> = <<a, b, c>>
  <2> SUFFICES ASSUME NEW a \in Symbols, NEW b \in Symbols, NEW c \in Symbols
               PROVE  <<a>> \o <<b, c>> = <<a, b, c>>
    OBVIOUS
  <2>1. /\ <<b, c>> \in Seq(Symbols) /\ <<a, b, c>> \in Seq(Symbols)
        /\ Len(<<a, b, c>>) = Len(<<b, c>>) + 1 /\ <<a, b, c>>[1] = a
        /\ \A i \in 1 .. Len(<<b, c>>) : <<a, b, c>>[i + 1] = <<b, c>>[i]
    OBVIOUS
  <2> QED
    BY <2>1, FirstAndRest
<1>4. \A a, b, c, d \in Symbols : <<a>> \o <<b, c, d>> = <<a, b, c, d>>
  <2> SUFFICES ASSUME NEW a \in Symbols, NEW b \in Symbols, NEW c \in Symbols,
                      NEW d \in Symbols
               PROVE  <<a>> \o <<b, c, d>> = <<a, b, c, d>>
    OBVIOUS
  <2>1. /\ <<b, c, d>> \in Seq(Symbols) /\ <<a, b, c, d>> \in Seq(Symbols)
        /\ Len(<<a, b, c, d>>) = Len(<<b, c, d>>) + 1 /\ <<a, b, c, d>>[1] = a
        /\ \A i \in 1 .. Len(<<b, c, d>>) : <<a, b, c, d>>[i + 1] = <<b, c, d>>[i]
    OBVIOUS
  <2> QED
    BY <2>1, FirstAndRest
<1>5. <<":", "/", "/">> \in Seq(Symbols)
  BY <1>1
<1>6. <<":">> \o (<<"/", "/">> \o text) = <<":", "/", "/">> \o text
  <2>1. (<<":">> \o <<"/", "/">>) \o text = <<":">> \o (<<"/", "/">> \o text)
    BY <1>2, Association
  <2>2. <<":">> \o <<"/", "/">> = <<":", "/", "/">>
    BY <1>1, <1>3
  <2> QED
    BY <2>1, <2>2, Zenon
<1>7. <<p>> \o (<<":", "/", "/">> \o text) = SchemeText(p) \o text
  <2>1. (<<p>> \o <<":", "/", "/">>) \o text = <<p>> \o (<<":", "/", "/">> \o text)
    BY <1>2, <1>5, Association
  <2>2. <<p>> \o <<":", "/", "/">> = SchemeText(p)
    BY <1>1, <1>4 DEF SchemeText
  <2> QED
    BY <2>1, <2>2, Zenon
<1> QED
  BY <1>6, <1>7, Zenon

LEMMA SchemeOfUrl ==
    ASSUME NEW p \in Protocols, NEW text \in Seq(Symbols)
    PROVE  Scheme(SchemeText(p) \o text) = [proto |-> p, rest |-> text]
<1> DEFINE tail == <<"/", "/">> \o text
           address == SchemeText(p) \o text
           first == Cut(address, {":", "/"})
<1>1. p \in Symbols /\ ":" \in Symbols /\ p \notin {":", "/"} /\ ":" \in {":", "/"}
  BY MarksAreSymbols DEF Protocols
<1>2. /\ tail \in Seq(Symbols) /\ IsPrefix(<<"/", "/">>, tail)
      /\ SubSeq(tail, 3, Len(tail)) = text
  BY SlashesCut
<1>3. address = <<p>> \o (<<":">> \o tail)
  BY SchemeSplit
<1>4. <<p>> \in Seq(Symbols) /\ Free(<<p>>, {":", "/"})
  BY <1>1 DEF Free
<1>5. first = [head |-> <<p>>, mark |-> ":", tail |-> tail]
  <2> HIDE DEF tail, address
  <2> QED
    BY <1>1, <1>2, <1>3, <1>4, CutIntoThree
<1>6. first.head = <<p>> /\ first.mark = ":" /\ first.tail = tail
  BY <1>5
<1> HIDE DEF first, tail, address
<1>7. Scheme(address) = [proto |-> IF \E q \in DOMAIN DefaultPort : first.head = <<q>>
                                 THEN first.head[1] ELSE "error",
                       rest |-> SubSeq(first.tail, 3, Len(first.tail))]
  BY <1>2, <1>6, Zenon DEF Scheme, first
<1>8. (\E q \in DOMAIN DefaultPort : first.head = <<q>>) /\ first.head[1] = p
  BY <1>6, Defaults
<1>9. Scheme(address) = [proto |-> p, rest |-> text]
  BY <1>2, <1>6, <1>7, <1>8, Zenon
<1> QED
  BY <1>9 DEF address

LEMMA DigitsAreNoMarks == "/" \notin Digits /\ ":" \notin Digits
BY DEF Digits, ToSet, DigitSeq

\* What is behind the host and the port: nothing, or a slash and a path.
Behind(text, path) ==
    /\ text \in Seq(Symbols) /\ path \in Seq(Symbols)
    /\ \/ text = <<>> /\ path = <<>>
       \/ text = <<"/">> \o path

LEMMA CutAtPath ==
    ASSUME NEW front \in Seq(Symbols), NEW text, NEW path, Behind(text, path),
           NEW marks, "/" \in marks, Free(front, marks)
    PROVE  /\ Cut(front \o text, marks).head = front
           /\ Cut(front \o text, marks).mark \in {"/", Unmarked}
           /\ Cut(front \o text, marks).tail = path
<1>1. CASE text = <<>> /\ path = <<>>
  <2>1. front \o text = front
    BY <1>1, ConcatEmptySeq
  <2>2. Cut(front, marks) = [head |-> front, mark |-> Unmarked, tail |-> <<>>]
    BY CutNowhere
  <2> QED
    BY <1>1, <2>1, <2>2
<1>2. CASE text = <<"/">> \o path
  <2>1. "/" \in Symbols /\ path \in Seq(Symbols)
    BY MarksAreSymbols DEF Behind
  <2>2. Cut(front \o (<<"/">> \o path), marks)
          = [head |-> front, mark |-> "/", tail |-> path]
    BY <2>1, CutIntoThree
  <2> QED
    BY <1>2, <2>2
<1> QED
  BY <1>1, <1>2 DEF Behind

LEMMA PartsOfUrl ==
    ASSUME NEW l \in Located, Free(l.host, {":", "/"}), NEW proto \in Protocols,
           NEW text, NEW path, Behind(text, path)
    PROVE  Parts(proto, WithPort(l, DefaultPort[proto]) \o text) =
             [proto |-> proto, host |-> l.host, port |-> l.port,
              itemtype |-> IF HasType(proto, path) THEN Head(path) ELSE DefaultType[proto],
              selector |-> IF HasType(proto, path) THEN Tail(path) ELSE path]
<1> DEFINE rest == WithPort(l, DefaultPort[proto]) \o text
           name == Cut(rest, {":", "/"})
           port == Cut(name.tail, {"/"})
           place == IF name.mark = ":" THEN port.tail ELSE name.tail
           number == IF name.mark = ":" THEN PortOf(port.head) ELSE DefaultPort[proto]
<1>1. /\ l.host \in Seq(Symbols) /\ l.port \in Shorts
      /\ text \in Seq(Symbols) /\ path \in Seq(Symbols)
  BY DEF Located, Behind
<1>2. Parts(proto, rest) =
        [proto |-> proto, host |-> name.head, port |-> number,
         itemtype |-> IF HasType(proto, place) THEN Head(place) ELSE DefaultType[proto],
         selector |-> IF HasType(proto, place) THEN Tail(place) ELSE place]
  BY Zenon DEF Parts
<1>3. name.head = l.host /\ number = l.port /\ place = path
  <2>1. CASE l.port = DefaultPort[proto]
    <3>1. rest = l.host \o text
      BY <2>1 DEF WithPort
    <3> HIDE DEF rest
    <3>2. "/" \in {":", "/"} /\ ":" \notin {"/", Unmarked}
      BY Marks
    <3>3. /\ name.head = l.host /\ name.mark \in {"/", Unmarked} /\ name.tail = path
      BY <1>1, <3>1, <3>2, CutAtPath
    <3> HIDE DEF name
    <3>4. name.mark # ":"
      BY <3>2, <3>3
    <3> QED
      BY <2>1, <3>3, <3>4, Zenon
  <2>2. CASE l.port # DefaultPort[proto]
    <3> DEFINE decimal == Decimal[l.port]
    <3>1. /\ decimal \in Seq(Digits) /\ decimal \in Seq(Symbols)
          /\ PortOf(decimal) = l.port
      BY <1>1, PortReadsBack, DecimalIsText
    <3>2. rest = (l.host \o <<":">> \o decimal) \o text
      BY <2>2 DEF WithPort
    <3> HIDE DEF decimal, rest
    <3>3. decimal \o text \in Seq(Symbols)
      BY <1>1, <3>1, ConcatProperties
    <3>4. rest = l.host \o (<<":">> \o (decimal \o text))
      <4>1. <<":">> \in Seq(Symbols)
        BY SmallTexts
      <4>2. l.host \o <<":">> \in Seq(Symbols)
        BY <1>1, <4>1, ConcatProperties
      <4>3. rest = (l.host \o <<":">>) \o (decimal \o text)
        BY <1>1, <3>1, <3>2, <4>2, Association, Zenon
      <4>4. (l.host \o <<":">>) \o (decimal \o text) = l.host \o (<<":">> \o (decimal \o text))
        BY <1>1, <3>3, <4>1, Association, Zenon
      <4> QED
        BY <4>3, <4>4
    <3>5. name = [head |-> l.host, mark |-> ":", tail |-> decimal \o text]
      <4>1. ":" \in Symbols /\ ":" \in {":", "/"}
        BY MarksAreSymbols
      <4> QED
        BY <1>1, <3>3, <3>4, <4>1, CutIntoThree
    <3>6. name.head = l.host /\ name.mark = ":" /\ name.tail = decimal \o text
      BY <3>5
    <3> HIDE DEF name
    <3>7. Free(decimal, {"/"})
      <4>1. \A i \in 1 .. Len(decimal) : decimal[i] \in Digits
        BY <3>1, ElementOfSeq
      <4> QED
        BY <4>1, DigitsAreNoMarks DEF Free
    <3>8. port.head = decimal /\ port.tail = path
      <4>1. "/" \in {"/"}
        OBVIOUS
      <4> QED
        BY <3>1, <3>6, <3>7, <4>1, CutAtPath
    <3> HIDE DEF port
    <3> QED
      BY <3>1, <3>6, <3>8, Zenon
  <2> QED
    BY <2>1, <2>2
<1> HIDE DEF name, port, place, number, rest
<1>4. Parts(proto, rest) =
        [proto |-> proto, host |-> l.host, port |-> l.port,
         itemtype |-> IF HasType(proto, path) THEN Head(path) ELSE DefaultType[proto],
         selector |-> IF HasType(proto, path) THEN Tail(path) ELSE path]
  BY <1>2, <1>3, Zenon
<1> QED
  BY <1>4 DEF rest

\* The type and selector of a location are what its path is parsed into.
PathOf(location, path) ==
    /\ location.itemtype = IF HasType(location.proto, path) THEN Head(path)
                           ELSE DefaultType[location.proto]
    /\ location.selector = IF HasType(location.proto, path) THEN Tail(path) ELSE path

\* The URL is put together from a scheme, a host, a port and a path.
PutTogether(location) ==
    \E text, path :
        /\ Behind(text, path) /\ PathOf(location, path)
        /\ buildgopherurl(location) =
             SchemeText(location.proto)
               \o (WithPort(location, DefaultPort[location.proto]) \o text)

LEMMA ExpressibleMeans ==
    ASSUME NEW l \in Located, Expressible(l)
    PROVE  /\ l.proto \in {"gopher", "http"} /\ l.host # <<>>
           /\ Free(l.host, {":", "/"}) /\ Free(l.selector, {"tab"})
           /\ ~HasUrl(l) /\ l.itemtype # "8" /\ (l.proto = "http" => l.itemtype = "h")
           /\ ~NotAUrl(l) /\ ~UrlOverruns(l) /\ Len(buildgopherurl(l)) < MAXURLLEN - 2
<1>1. l.host \in Seq(Symbols) /\ l.selector \in Seq(Symbols)
  BY DEF Located
<1>2. /\ \A i \in 1 .. Len(l.host) : l.host[i] \in ToSet(l.host)
      /\ \A i \in 1 .. Len(l.selector) : l.selector[i] \in ToSet(l.selector)
  BY <1>1, LenProperties DEF ToSet
<1>3. ToSet(l.host) \cap {":", "/"} = {} /\ "tab" \notin ToSet(l.selector)
  BY DEF Expressible
<1>4. Free(l.host, {":", "/"}) /\ Free(l.selector, {"tab"})
  BY <1>2, <1>3 DEF Free
<1> QED
  BY <1>4 DEF Expressible

LEMMA HttpPutTogether ==
    ASSUME NEW l \in Located, Expressible(l), l.proto = "http"
    PROVE  PutTogether(l)
<1> DEFINE text == <<"/">> \o l.selector
<1>1. /\ l.selector \in Seq(Symbols) /\ SchemeText("http") \in Seq(Symbols)
      /\ WithPort(l, 80) \in Seq(Symbols) /\ <<"/">> \in Seq(Symbols)
  BY SchemeIsText, WithPortText, SmallTexts DEF Located, Protocols
<1>2. Behind(text, l.selector)
  BY <1>1, Concatenation DEF Behind
<1>3. PathOf(l, l.selector)
  BY ExpressibleMeans, Defaults DEF PathOf, HasType
<1>4. buildgopherurl(l) = Printed(HttpText(l), MAXURLLEN - 1)
  BY UrlCases
<1>5. Printed(HttpText(l), MAXURLLEN - 1) = HttpText(l)
  <2>1. Len(Printed(HttpText(l), MAXURLLEN - 1)) < MAXURLLEN - 1 - 1
    <3>1. Len(Printed(HttpText(l), MAXURLLEN - 1)) < MAXURLLEN - 2
      BY <1>4, ExpressibleMeans
    <3>2. MAXURLLEN - 1 - 1 = MAXURLLEN - 2
      BY Limits
    <3> QED
      BY <3>1, <3>2, Zenon
  <2> QED
    BY <2>1, LongTexts, Limits, PrintedFits
<1>6. HttpText(l) = SchemeText("http") \o (WithPort(l, 80) \o text)
  <2>1. SchemeText("http") \in Seq(Symbols)
    BY <1>1
  <2>2. WithPort(l, 80) \in Seq(Symbols)
    BY <1>1
  <2>3. SchemeText("http") \o WithPort(l, 80) \in Seq(Symbols)
    BY <1>1, Concatenation
  <2>4. <<"/">> \in Seq(Symbols)
    BY <1>1
  <2>5. l.selector \in Seq(Symbols)
    BY <1>1
  <2>6. text \in Seq(Symbols)
    BY <1>1, Concatenation
  <2>7. HttpText(l) = (SchemeText("http") \o WithPort(l, 80)) \o text
    BY <2>3, <2>4, <2>5, Association, Zenon DEF HttpText
  <2>8. (SchemeText("http") \o WithPort(l, 80)) \o text
          = SchemeText("http") \o (WithPort(l, 80) \o text)
    <3> HIDE DEF text
    <3> QED
      BY <2>1, <2>2, <2>6, Association, Zenon
  <2> QED
    BY <2>7, <2>8, Zenon
<1> HIDE DEF text
<1>7. buildgopherurl(l) = SchemeText(l.proto) \o (WithPort(l, DefaultPort[l.proto]) \o text)
  BY <1>4, <1>5, <1>6, Defaults
<1> QED
  BY <1>2, <1>3, <1>7, Zenon DEF PutTogether

LEMMA GopherPutTogether ==
    ASSUME NEW l \in Located, Expressible(l), l.proto = "gopher"
    PROVE  PutTogether(l)
<1>1. /\ l.selector \in Seq(Symbols) /\ l.itemtype \in Symbols
      /\ l.host \in Seq(Symbols) /\ SchemeText("gopher") \in Seq(Symbols)
      /\ WithPort(l, 70) \in Seq(Symbols)
  BY SchemeIsText, WithPortText DEF Located, Protocols
<1>2. ~HasUrl(l) /\ l.itemtype # "8" /\ l.host # <<>> /\ l.proto # "http"
  BY ExpressibleMeans
<1>3. CASE l.itemtype = "1" /\ l.selector = <<>>
  <2>1. buildgopherurl(l) = Start(l)
    <3>1. buildgopherurl(l) = Printed(Start(l), MAXURLLEN - 1)
      BY <1>2, <1>3, UrlCases, Zenon
    <3>2. Len(Printed(Start(l), MAXURLLEN - 1)) < MAXURLLEN - 1 - 1
      <4>1. Len(Printed(Start(l), MAXURLLEN - 1)) < MAXURLLEN - 2
        BY <3>1, ExpressibleMeans
      <4>2. MAXURLLEN - 1 - 1 = MAXURLLEN - 2
        BY Limits
      <4> QED
        BY <4>1, <4>2, Zenon
    <3> QED
      BY <3>1, <3>2, StartText, Limits, PrintedFits
  <2>2. WithPort(l, 70) \o <<>> = WithPort(l, 70)
    BY <1>1, ConcatEmptySeq
  <2>3. <<>> \in Seq(Symbols)
    BY EmptySeq
  <2>4. Behind(<<>>, <<>>)
    BY <2>3 DEF Behind
  <2>5. PathOf(l, <<>>)
    BY <1>3, Defaults DEF PathOf, HasType
  <2>6. buildgopherurl(l)
          = SchemeText(l.proto) \o (WithPort(l, DefaultPort[l.proto]) \o <<>>)
    BY <2>1, <2>2, Defaults DEF Start
  <2> QED
    BY <2>4, <2>5, <2>6, Zenon DEF PutTogether
<1>4. CASE ~(l.itemtype = "1" /\ l.selector = <<>>)
  <2> DEFINE path == <<l.itemtype>> \o l.selector
             text == <<"/">> \o path
             room == MAXURLLEN - 1 - Len(TypedStart(l))
  <2>1. /\ <<l.itemtype>> \in Seq(Symbols) /\ <<"/">> \in Seq(Symbols)
        /\ path \in Seq(Symbols) /\ text \in Seq(Symbols)
    <3>1. <<l.itemtype>> \in Seq(Symbols) /\ <<"/">> \in Seq(Symbols)
      BY <1>1, SmallTexts
    <3>2. path \in Seq(Symbols)
      BY <1>1, <3>1, Concatenation
    <3> HIDE DEF path
    <3> QED
      BY <3>1, <3>2, Concatenation
  <2>2. path # <<>> /\ Head(path) = l.itemtype /\ Tail(path) = l.selector
    <3>1. PICK n \in Nat : n = Len(l.selector)
      BY <1>1, LenProperties
    <3> DEFINE one == <<l.itemtype>>
    <3>2. one \in Seq(Symbols) /\ Len(one) = 1 /\ one[1] = l.itemtype
      BY <1>1
    <3> HIDE DEF one
    <3>3. /\ Len(path) = 1 + n
          /\ \A i \in 1 .. 1 + n : path[i] = IF i <= 1 THEN one[i] ELSE l.selector[i - 1]
      <4>1. /\ Len(one \o l.selector) = Len(one) + Len(l.selector)
            /\ \A i \in 1 .. Len(one) + Len(l.selector) :
                 (one \o l.selector)[i] = IF i <= Len(one) THEN one[i]
                                          ELSE l.selector[i - Len(one)]
        BY <1>1, <3>2, Concatenation
      <4>2. path = one \o l.selector
        BY DEF one
      <4> QED
        BY <3>1, <3>2, <4>1, <4>2, Zenon
    <3> HIDE DEF path
    <3>4. path # <<>>
      BY <2>1, <3>3, EmptySeq
    <3>5. Head(path) = path[1]
      BY <2>1, <3>4
    <3>6. path[1] = l.itemtype
      BY <3>2, <3>3
    <3>7. /\ Tail(path) \in Seq(Symbols) /\ Len(Tail(path)) = Len(path) - 1
          /\ \A i \in 1 .. Len(Tail(path)) : Tail(path)[i] = path[i + 1]
      BY <2>1, <3>4, HeadTailProperties
    <3>8. Len(Tail(path)) = n
      BY <3>3, <3>7
    <3>9. ASSUME NEW i \in 1 .. n PROVE Tail(path)[i] = l.selector[i]
      <4>1. i + 1 \in 1 .. 1 + n /\ ~(i + 1 <= 1) /\ (i + 1) - 1 = i
        OBVIOUS
      <4>2. path[i + 1] = l.selector[(i + 1) - 1]
        BY <3>3, <4>1, Zenon
      <4> QED
        BY <3>7, <3>8, <4>1, <4>2, Zenon
    <3>10. Tail(path) = l.selector
      BY <1>1, <3>1, <3>7, <3>8, <3>9, SeqEqual
    <3> QED
      BY <3>4, <3>5, <3>6, <3>10
  <2>3. Behind(text, path)
    <3> HIDE DEF path
    <3> QED
      BY <2>1 DEF Behind
  <2>4. PathOf(l, path)
    <3> HIDE DEF path
    <3> QED
      BY <2>2 DEF PathOf, HasType
  <2>5. PICK t, n \in Nat : /\ t = Len(TypedStart(l)) /\ n = room
                            /\ t + n = MAXURLLEN - 1
    <3>1. Classic(l)
      BY <1>2, <1>4 DEF Classic
    <3>2. Len(TypedStart(l)) \in Nat /\ room \in Nat
      BY <3>1, ExpressibleMeans, TypeFits
    <3>3. \A t, n \in Nat : n = MAXURLLEN - 1 - t => t + n = MAXURLLEN - 1
      BY Limits
    <3> QED
      BY <3>2, <3>3, Zenon
  <2> HIDE DEF room
  <2> DEFINE printed == Printed(TypedStart(l), MAXURLLEN - 1)
             encoded == EncodedWithin(l.selector, n)
  <2>6. buildgopherurl(l) = TypedStart(l) \o l.selector
    <3>1. buildgopherurl(l) = printed \o encoded
      BY <1>2, <1>4, <2>5, UrlCases, Zenon DEF room
    <3>2. /\ printed \in Seq(Symbols) /\ Len(printed) <= t
          /\ printed = TypedStart(l) \/ Len(printed) = MAXURLLEN - 1 - 1
      BY <2>5, StartText, Limits, PrintedFits
    <3>3. /\ encoded \in Seq(Symbols)
          /\ IF Len(l.selector) <= n THEN encoded = l.selector ELSE Len(encoded) = n
      BY <1>1, <2>5, EncodedFits, ExpressibleMeans
    <3> HIDE DEF printed, encoded
    <3>4. PICK p, e, s \in Nat : p = Len(printed) /\ e = Len(encoded) /\ s = Len(l.selector)
      BY <1>1, <3>2, <3>3, LenProperties
    <3>5. Len(printed \o encoded) = p + e
      BY <3>2, <3>3, <3>4, ConcatProperties
    <3>6. p + e < MAXURLLEN - 2
      <4>1. Len(buildgopherurl(l)) < MAXURLLEN - 2
        BY ExpressibleMeans
      <4> QED
        BY <3>1, <3>5, <4>1, Zenon
    <3>7. printed = TypedStart(l)
      BY <3>2, <3>4, <3>6, Limits
    <3>8. s <= n
      <4>1. ~(s <= n) => e = n
        BY <3>3, <3>4
      <4>2. p = t
        BY <2>5, <3>4, <3>7
      <4> QED
        BY <2>5, <3>6, <4>1, <4>2, Limits
    <3>9. encoded = l.selector
      BY <3>3, <3>4, <3>8
    <3> QED
      BY <3>1, <3>7, <3>9
  <2>7. TypedStart(l) \o l.selector = SchemeText("gopher") \o (WithPort(l, 70) \o text)
    <3>1. Start(l) \in Seq(Symbols) /\ <<"/", l.itemtype>> \in Seq(Symbols)
      BY <1>1, StartText, SmallTexts
    <3>2. TypedStart(l) \o l.selector = Start(l) \o (<<"/", l.itemtype>> \o l.selector)
      <4>1. Start(l) \in Seq(Symbols)
        BY <3>1
      <4>2. <<"/", l.itemtype>> \in Seq(Symbols)
        BY <3>1
      <4>3. l.selector \in Seq(Symbols)
        BY <1>1
      <4> QED
        BY <4>1, <4>2, <4>3, Association, Zenon DEF TypedStart
    <3>3. <<"/", l.itemtype>> \o l.selector = text
      <4>1. <<"/">> \o <<l.itemtype>> = <<"/", l.itemtype>>
        <5>1. "/" \in Symbols /\ l.itemtype \in Symbols
          BY <1>1, MarksAreSymbols
        <5>2. /\ Len(<<"/", l.itemtype>>) = Len(<<l.itemtype>>) + 1
              /\ <<"/", l.itemtype>>[1] = "/"
              /\ \A i \in 1 .. Len(<<l.itemtype>>) :
                   <<"/", l.itemtype>>[i + 1] = <<l.itemtype>>[i]
          OBVIOUS
        <5> QED
          BY <2>1, <3>1, <5>1, <5>2, FirstAndRest
      <4>2. (<<"/">> \o <<l.itemtype>>) \o l.selector = <<"/">> \o (<<l.itemtype>> \o l.selector)
        BY <1>1, <2>1, Association
      <4> QED
        BY <4>1, <4>2, Zenon
    <3> HIDE DEF text
    <3>4. Start(l) \o text = SchemeText("gopher") \o (WithPort(l, 70) \o text)
      BY <1>1, <2>1, Association DEF Start
    <3> QED
      BY <3>2, <3>3, <3>4, Zenon
  <2> HIDE DEF text, path
  <2>8. buildgopherurl(l)
          = SchemeText(l.proto) \o (WithPort(l, DefaultPort[l.proto]) \o text)
    BY <2>6, <2>7, Defaults
  <2> QED
    BY <2>3, <2>4, <2>8, Zenon DEF PutTogether
<1> QED
  BY <1>3, <1>4

\* A URL that expresses a location leads to it, if its parts fit in their arrays.
THEOREM RoundTrip ==
    ASSUME NEW l \in Located, Expressible(l)
    PROVE  parsegopherurl(buildgopherurl(l)) = IF FitsArrays(l) THEN l ELSE Failure
<1>1. l.proto \in {"gopher", "http"} /\ Free(l.host, {":", "/"})
  BY ExpressibleMeans
<1>2. l.proto \in Protocols /\ l.proto # "error"
  BY <1>1 DEF Protocols
<1>3. PutTogether(l)
  BY <1>1, HttpPutTogether, GopherPutTogether
<1>4. PICK text, path :
        /\ Behind(text, path) /\ PathOf(l, path)
        /\ buildgopherurl(l)
             = SchemeText(l.proto) \o (WithPort(l, DefaultPort[l.proto]) \o text)
  BY <1>3, Zenon DEF PutTogether
<1> DEFINE rest == WithPort(l, DefaultPort[l.proto]) \o text
<1>5. rest \in Seq(Symbols)
  <2>1. WithPort(l, DefaultPort[l.proto]) \in Seq(Symbols) /\ text \in Seq(Symbols)
    BY <1>4, WithPortText DEF Behind
  <2> QED
    BY <2>1, Concatenation
<1>6. Parts(l.proto, rest) =
        [proto |-> l.proto, host |-> l.host, port |-> l.port,
         itemtype |-> IF HasType(l.proto, path) THEN Head(path) ELSE DefaultType[l.proto],
         selector |-> IF HasType(l.proto, path) THEN Tail(path) ELSE path]
  BY <1>1, <1>2, <1>4, PartsOfUrl
<1> HIDE DEF rest
<1>7. Scheme(buildgopherurl(l)) = [proto |-> l.proto, rest |-> rest]
  <2>1. Scheme(SchemeText(l.proto) \o rest) = [proto |-> l.proto, rest |-> rest]
    BY <1>2, <1>5, SchemeOfUrl
  <2> QED
    BY <1>4, <2>1, Zenon DEF rest
<1>8. Scheme(buildgopherurl(l)).proto = l.proto /\ Scheme(buildgopherurl(l)).rest = rest
  BY <1>7
<1>9. Parts(l.proto, rest) = l
  <2>1. Parts(l.proto, rest) =
          [proto |-> l.proto, host |-> l.host, port |-> l.port,
           itemtype |-> l.itemtype, selector |-> l.selector]
    BY <1>4, <1>6, Zenon DEF PathOf
  <2>2. l = [proto |-> l.proto, host |-> l.host, port |-> l.port,
             itemtype |-> l.itemtype, selector |-> l.selector]
    BY DEF Located
  <2> QED
    BY <2>1, <2>2, Zenon
<1>10. parsegopherurl(buildgopherurl(l)) =
         IF \/ l.proto = "error" \/ Len(l.host) >= MAXHOSTLEN
            \/ Len(l.selector) >= MAXSELLEN
         THEN Failure ELSE l
  BY <1>8, <1>9, Zenon DEF parsegopherurl
<1>11. FitsArrays(l) <=> ~(Len(l.host) >= MAXHOSTLEN) /\ ~(Len(l.selector) >= MAXSELLEN)
  <2>1. PICK h, s \in Nat : h = Len(l.host) /\ s = Len(l.selector)
    BY LenProperties DEF Located
  <2>2. /\ h < MAXHOSTLEN <=> ~(h >= MAXHOSTLEN)
        /\ s < MAXSELLEN <=> ~(s >= MAXSELLEN)
    BY Limits
  <2> QED
    BY <2>1, <2>2, Zenon DEF FitsArrays
<1> QED
  BY <1>2, <1>10, <1>11, Zenon

\* The inductive invariant: the text ends before the array does, it has only
\* printable characters, and the cursor is in it or behind it.
Sound ==
    /\ url \in [Index -> Chars \cup {NUL}]
    /\ urllen \in 0 .. maxlen - 1
    /\ cursorpos \in 0 .. urllen
    /\ \A i \in 0 .. urllen - 1 : url[i] \in Chars

-----------------------------------------------------------------------------
(* Texts that are parts of an array.                                       *)

Part(array, lo, hi) == [i \in 1 .. hi - lo |-> array[lo + i - 1]]

LEMMA PartIsText ==
    ASSUME NEW array, NEW lo \in Nat, NEW hi \in Nat, lo <= hi,
           \A i \in lo .. hi - 1 : array[i] \in Chars
    PROVE  /\ Part(array, lo, hi) \in Seq(Chars)
           /\ Len(Part(array, lo, hi)) = hi - lo
           /\ \A i \in 1 .. hi - lo : Part(array, lo, hi)[i] = array[lo + i - 1]
<1> DEFINE n == hi - lo
           part == Part(array, lo, hi)
<1>1. n \in Nat
    OBVIOUS
<1>2. \A i \in 1 .. n : lo + i - 1 \in lo .. hi - 1
    OBVIOUS
<1>3. \A i \in 1 .. n : array[lo + i - 1] \in Chars
    BY <1>2
<1>4. part \in [1 .. n -> Chars]
    BY <1>3 DEF Part
<1>5. part \in Seq(Chars)
    BY <1>1, <1>4, SeqDef
<1>6. DOMAIN part = 1 .. n
    BY DEF Part
<1>7. Len(part) = n
    BY <1>1, <1>5, <1>6, LenProperties
<1> QED BY <1>5, <1>7 DEF Part

\* Parts of two arrays that agree there are the same text, shifted or not.
LEMMA SamePart ==
    ASSUME NEW old, NEW new, NEW lo, NEW hi, NEW start, NEW end,
           end - start = hi - lo,
           \A i \in 1 .. hi - lo : new[start + i - 1] = old[lo + i - 1]
    PROVE  Part(new, start, end) = Part(old, lo, hi)
BY DEF Part

\* A part that is taken apart at some character, at its first, and at its last.
LEMMA PartsJoin ==
    ASSUME NEW array, NEW lo \in Nat, NEW mid \in Nat, NEW hi \in Nat,
           lo <= mid, mid <= hi,
           \A i \in lo .. hi - 1 : array[i] \in Chars
    PROVE  Part(array, lo, hi) = Part(array, lo, mid) \o Part(array, mid, hi)
<1> DEFINE whole == Part(array, lo, hi)
           front == Part(array, lo, mid)
           back  == Part(array, mid, hi)
<1>0. /\ lo <= hi
      /\ \A i \in lo .. mid - 1 : array[i] \in Chars
      /\ \A i \in mid .. hi - 1 : array[i] \in Chars
    OBVIOUS
<1>1. /\ whole \in Seq(Chars) /\ Len(whole) = hi - lo
      /\ \A i \in 1 .. hi - lo : whole[i] = array[lo + i - 1]
    BY <1>0, PartIsText, Zenon
<1>2. /\ front \in Seq(Chars) /\ Len(front) = mid - lo
      /\ \A i \in 1 .. mid - lo : front[i] = array[lo + i - 1]
    BY <1>0, PartIsText, Zenon
<1>3. /\ back \in Seq(Chars) /\ Len(back) = hi - mid
      /\ \A i \in 1 .. hi - mid : back[i] = array[mid + i - 1]
    BY <1>0, PartIsText, Zenon
<1> HIDE DEF whole, front, back
<1>4. /\ front \o back \in Seq(Chars)
      /\ Len(front \o back) = Len(front) + Len(back)
      /\ \A i \in 1 .. Len(front) + Len(back) :
           (front \o back)[i] = IF i <= Len(front) THEN front[i]
                                ELSE back[i - Len(front)]
    BY <1>2, <1>3, ConcatProperties
<1>5. Len(whole) = Len(front \o back)
    BY <1>1, <1>2, <1>3, <1>4
<1>6. ASSUME NEW i \in 1 .. Len(whole)
      PROVE  whole[i] = (front \o back)[i]
    <2>1. CASE i <= Len(front)
        BY <1>1, <1>2, <1>3, <1>4, <2>1
    <2>2. CASE ~(i <= Len(front))
        <3>1. i - Len(front) \in 1 .. hi - mid
            BY <1>1, <1>2, <2>2
        <3>2. back[i - Len(front)] = array[mid + (i - Len(front)) - 1]
            BY <1>3, <3>1
        <3>3. mid + (i - Len(front)) - 1 = lo + i - 1
            BY <1>1, <1>2
        <3>4. whole[i] = array[lo + i - 1]
            BY <1>1
        <3>5. (front \o back)[i] = back[i - Len(front)]
            BY <1>1, <1>2, <1>3, <1>4, <2>2
        <3> QED BY <3>2, <3>3, <3>4, <3>5
    <2> QED BY <2>1, <2>2
<1>7. whole = front \o back
    BY <1>1, <1>4, <1>5, <1>6, SeqEqual
<1> QED BY <1>7 DEF whole, front, back

LEMMA PartEmpty == \A array : \A i \in Nat : Part(array, i, i) = <<>>
<1> SUFFICES ASSUME NEW array, NEW i \in Nat PROVE Part(array, i, i) = <<>>
    OBVIOUS
<1>1. i <= i /\ i - i = 0 /\ i .. i - 1 = {}
    OBVIOUS
<1>2. \A j \in i .. i - 1 : array[j] \in Chars
    BY <1>1
<1>3. Part(array, i, i) \in Seq(Chars) /\ Len(Part(array, i, i)) = i - i
    BY <1>1, <1>2, PartIsText
<1> QED BY <1>1, <1>3, EmptySeq

LEMMA PartFirst ==
    ASSUME NEW array, NEW lo \in Nat, NEW hi \in Nat, lo < hi,
           \A i \in lo .. hi - 1 : array[i] \in Chars
    PROVE  /\ Part(array, lo, hi) # <<>>
           /\ Head(Part(array, lo, hi)) = array[lo]
           /\ Tail(Part(array, lo, hi)) = Part(array, lo + 1, hi)
<1> DEFINE whole == Part(array, lo, hi)
           rest  == Part(array, lo + 1, hi)
<1>1. /\ whole \in Seq(Chars) /\ Len(whole) = hi - lo
      /\ \A i \in 1 .. hi - lo : whole[i] = array[lo + i - 1]
    BY PartIsText
<1>2. /\ rest \in Seq(Chars) /\ Len(rest) = hi - (lo + 1)
      /\ \A i \in 1 .. hi - (lo + 1) : rest[i] = array[(lo + 1) + i - 1]
    BY PartIsText
<1> HIDE DEF whole, rest
<1>3. whole # <<>>
    BY <1>1, EmptySeq
<1>4. Head(whole) = array[lo]
    <2>1. Head(whole) = whole[1]
        BY <1>1, <1>3
    <2>2. 1 \in 1 .. hi - lo /\ lo + 1 - 1 = lo
        OBVIOUS
    <2> QED BY <1>1, <2>1, <2>2
<1>5. /\ Tail(whole) \in Seq(Chars) /\ Len(Tail(whole)) = Len(whole) - 1
      /\ \A i \in 1 .. Len(Tail(whole)) : Tail(whole)[i] = whole[i + 1]
    BY <1>1, <1>3, HeadTailProperties
<1>6. ASSUME NEW i \in 1 .. Len(Tail(whole))
      PROVE  Tail(whole)[i] = rest[i]
    <2>1. i \in 1 .. hi - (lo + 1) /\ i + 1 \in 1 .. hi - lo
        BY <1>1, <1>5
    <2>2. lo + (i + 1) - 1 = (lo + 1) + i - 1
        BY <2>1
    <2> QED BY <1>1, <1>2, <1>5, <2>1, <2>2
<1>7. Tail(whole) = rest
    BY <1>1, <1>2, <1>5, <1>6, SeqEqual
<1> QED BY <1>3, <1>4, <1>7 DEF whole, rest

LEMMA PartLast ==
    ASSUME NEW array, NEW lo \in Nat, NEW hi \in Nat, lo < hi,
           \A i \in lo .. hi - 1 : array[i] \in Chars
    PROVE  LET whole == Part(array, lo, hi)
           IN  /\ whole # <<>>
               /\ whole[Len(whole)] = array[hi - 1]
               /\ SubSeq(whole, 1, Len(whole) - 1) = Part(array, lo, hi - 1)
               /\ whole = Append(Part(array, lo, hi - 1), array[hi - 1])
<1> DEFINE whole == Part(array, lo, hi)
           front == Part(array, lo, hi - 1)
<1>0. /\ hi - 1 \in Nat /\ lo <= hi - 1
      /\ \A i \in lo .. (hi - 1) - 1 : array[i] \in Chars
    OBVIOUS
<1>1. /\ whole \in Seq(Chars) /\ Len(whole) = hi - lo
      /\ \A i \in 1 .. hi - lo : whole[i] = array[lo + i - 1]
    BY PartIsText
<1>2. /\ front \in Seq(Chars) /\ Len(front) = (hi - 1) - lo
      /\ \A i \in 1 .. (hi - 1) - lo : front[i] = array[lo + i - 1]
    BY <1>0, PartIsText
<1> HIDE DEF whole, front
<1>3. PICK n \in Nat : n = hi - lo /\ n >= 1 /\ lo + n - 1 = hi - 1
                       /\ (hi - 1) - lo = n - 1
    OBVIOUS
<1>4. /\ Len(whole) = n /\ \A i \in 1 .. n : whole[i] = array[lo + i - 1]
      /\ Len(front) = n - 1 /\ \A i \in 1 .. n - 1 : front[i] = array[lo + i - 1]
    BY <1>1, <1>2, <1>3
<1>5. whole # <<>>
    BY <1>1, <1>3, <1>4, EmptySeq
<1>6. whole[Len(whole)] = array[hi - 1]
    BY <1>3, <1>4
<1>7. SubSeq(whole, 1, n - 1) = front
    <2>1. \A i \in 1 .. n - 1 : whole[i] \in Chars
        BY <1>1, <1>3, <1>4, ElementOfSeq
    <2>2. /\ SubSeq(whole, 1, n - 1) \in Seq(Chars)
          /\ Len(SubSeq(whole, 1, n - 1)) = IF 1 <= n - 1 THEN (n - 1) - 1 + 1 ELSE 0
          /\ \A i \in 1 .. (n - 1) - 1 + 1 : SubSeq(whole, 1, n - 1)[i] = whole[1 + i - 1]
        BY <1>3, <2>1, SubSeqProperties
    <2>3. Len(SubSeq(whole, 1, n - 1)) = n - 1
        BY <1>3, <2>2
    <2>4. \A i \in 1 .. n - 1 : SubSeq(whole, 1, n - 1)[i] = whole[i]
        BY <1>3, <2>2
    <2>5. \A i \in 1 .. n - 1 : whole[i] = front[i]
        BY <1>3, <1>4
    <2> QED BY <1>2, <1>4, <2>2, <2>3, <2>4, <2>5, SeqEqual
<1>8. whole = Append(front, array[hi - 1])
    <2>1. array[hi - 1] \in Chars
        OBVIOUS
    <2>2. /\ Append(front, array[hi - 1]) \in Seq(Chars)
          /\ Len(Append(front, array[hi - 1])) = Len(front) + 1
          /\ \A i \in 1 .. Len(front) : Append(front, array[hi - 1])[i] = front[i]
          /\ Append(front, array[hi - 1])[Len(front) + 1] = array[hi - 1]
        BY <1>2, <2>1, AppendProperties
    <2>3. ASSUME NEW i \in 1 .. Len(whole)
          PROVE  whole[i] = Append(front, array[hi - 1])[i]
        <3>1. CASE i = n
            BY <1>3, <1>4, <1>6, <2>2, <3>1
        <3>2. CASE i # n
            <4>1. i \in 1 .. n - 1
                BY <1>3, <1>4, <3>2
            <4> QED BY <1>4, <2>2, <4>1
        <3> QED BY <3>1, <3>2
    <2>4. Len(whole) = Len(Append(front, array[hi - 1]))
        BY <1>3, <1>4, <2>2
    <2> QED BY <1>1, <2>2, <2>3, <2>4, SeqEqual
<1> QED BY <1>3, <1>4, <1>5, <1>6, <1>7, <1>8 DEF whole, front

-----------------------------------------------------------------------------
(* One turn of the loop.                                                   *)

LEMMA EditShows ==
    ASSUME Sound, NEW array \in [Index -> Chars \cup {NUL}],
           NEW length \in 0 .. maxlen - 1, NEW cursor \in 0 .. length,
           \A i \in 0 .. length - 1 : array[i] \in Chars,
           Edit(array, length, cursor)
    PROVE  /\ Sound'
           /\ Text(0, cursorpos)' = Part(array, 0, cursor)
           /\ Text(cursorpos, urllen)' = Part(array, cursor, length)
<1>1. url' = [array EXCEPT ![length] = NUL] /\ urllen' = length /\ cursorpos' = cursor
    BY DEF Edit, Terminated
<1>2. length \in Index /\ \A i \in 0 .. length - 1 : i \in Index
    BY LineEditAssumption DEF Index, LineEditAssumption
<1>3. \A i \in 0 .. length - 1 : url'[i] = array[i]
    BY <1>1, <1>2
<1>4. url' \in [Index -> Chars \cup {NUL}]
    BY <1>1
<1>5. Sound'
    BY <1>1, <1>3, <1>4 DEF Sound, Index
<1>6. ASSUME NEW lo \in 0 .. length, NEW hi \in lo .. length
      PROVE  [i \in 1 .. hi - lo |-> url'[lo + i - 1]] = Part(array, lo, hi)
    <2>1. \A i \in 1 .. hi - lo : lo + i - 1 \in 0 .. length - 1
        OBVIOUS
    <2>2. \A i \in 1 .. hi - lo : url'[lo + i - 1] = array[lo + i - 1]
        BY <1>3, <2>1
    <2> QED BY <2>2 DEF Part
<1>7. Text(0, cursorpos)' = Part(array, 0, cursor)
    BY <1>1, <1>6 DEF Text
<1>8. Text(cursorpos, urllen)' = Part(array, cursor, length)
    BY <1>1, <1>6 DEF Text
<1> QED BY <1>5, <1>7, <1>8

LEMMA LeftText ==
    ASSUME Sound
    PROVE  /\ Text(0, cursorpos) = Part(url, 0, cursorpos)
           /\ Text(cursorpos, urllen) = Part(url, cursorpos, urllen)
BY DEF Text, Part

LEMMA KeyHomeIsToStart == Sound /\ KeyHome => Sound' /\ Field!ToStart
<1> SUFFICES ASSUME Sound, KeyHome PROVE Sound' /\ Field!ToStart
    OBVIOUS
<1>1. Sound' /\ Text(0, cursorpos)' = Part(url, 0, 0)
      /\ Text(cursorpos, urllen)' = Part(url, 0, urllen)
    BY EditShows DEF KeyHome, Sound
<1>2. Part(url, 0, 0) = <<>>
    BY PartEmpty
<1>3. Part(url, 0, urllen) = Part(url, 0, cursorpos) \o Part(url, cursorpos, urllen)
    BY PartsJoin DEF Sound
<1> QED BY <1>1, <1>2, <1>3, LeftText DEF Field!ToStart, Field!Move

LEMMA KeyEndIsToEnd == Sound /\ KeyEnd => Sound' /\ Field!ToEnd
<1> SUFFICES ASSUME Sound, KeyEnd PROVE Sound' /\ Field!ToEnd
    OBVIOUS
<1>1. Sound' /\ Text(0, cursorpos)' = Part(url, 0, urllen)
      /\ Text(cursorpos, urllen)' = Part(url, urllen, urllen)
    BY EditShows DEF KeyEnd, Sound
<1>2. Part(url, urllen, urllen) = <<>>
    BY PartEmpty DEF Sound
<1>3. Part(url, 0, urllen) = Part(url, 0, cursorpos) \o Part(url, cursorpos, urllen)
    BY PartsJoin DEF Sound
<1> QED BY <1>1, <1>2, <1>3, LeftText DEF Field!ToEnd, Field!Move

LEMMA KeyLeftIsBackward == Sound /\ KeyLeft => Sound' /\ Field!Backward
<1> SUFFICES ASSUME Sound, KeyLeft PROVE Sound' /\ Field!Backward
    OBVIOUS
<1> DEFINE left == Part(url, 0, cursorpos)
           right == Part(url, cursorpos, urllen)
<1>1. /\ cursorpos - 1 \in 0 .. urllen /\ cursorpos \in Nat /\ urllen \in Nat
      /\ 0 < cursorpos /\ cursorpos <= urllen /\ cursorpos - 1 \in Nat
    BY DEF KeyLeft, Sound
<1>2. Sound' /\ Text(0, cursorpos)' = Part(url, 0, cursorpos - 1)
      /\ Text(cursorpos, urllen)' = Part(url, cursorpos - 1, urllen)
    BY <1>1, EditShows DEF KeyLeft, Sound
<1>3. /\ left # <<>> /\ left[Len(left)] = url[cursorpos - 1]
      /\ SubSeq(left, 1, Len(left) - 1) = Part(url, 0, cursorpos - 1)
    BY <1>1, PartLast DEF Sound
<1>4. Part(url, cursorpos - 1, urllen) = Part(url, cursorpos - 1, cursorpos) \o right
    BY <1>1, PartsJoin DEF Sound
<1>5. Part(url, cursorpos - 1, cursorpos) = <<url[cursorpos - 1]>>
    <2>1. \A i \in cursorpos - 1 .. cursorpos - 1 : url[i] \in Chars
        BY <1>1 DEF Sound
    <2>2. Part(url, cursorpos - 1, cursorpos)
            = Append(Part(url, cursorpos - 1, cursorpos - 1), url[cursorpos - 1])
        BY <1>1, <2>1, PartLast
    <2>3. Part(url, cursorpos - 1, cursorpos - 1) = <<>>
        BY <1>1, PartEmpty
    <2>4. Append(<<>>, url[cursorpos - 1]) = <<url[cursorpos - 1]>>
        OBVIOUS
    <2> QED BY <2>2, <2>3, <2>4
<1> QED BY <1>2, <1>3, <1>4, <1>5, LeftText DEF Field!Backward, Field!Move

LEMMA KeyRightIsForward == Sound /\ KeyRight => Sound' /\ Field!Forward
<1> SUFFICES ASSUME Sound, KeyRight PROVE Sound' /\ Field!Forward
    OBVIOUS
<1> DEFINE left == Part(url, 0, cursorpos)
           right == Part(url, cursorpos, urllen)
<1>1. /\ cursorpos + 1 \in 0 .. urllen /\ cursorpos \in Nat /\ urllen \in Nat
      /\ 0 < cursorpos + 1 /\ cursorpos < urllen /\ cursorpos + 1 \in Nat
      /\ (cursorpos + 1) - 1 = cursorpos
    BY DEF KeyRight, Sound
<1>2. Sound' /\ Text(0, cursorpos)' = Part(url, 0, cursorpos + 1)
      /\ Text(cursorpos, urllen)' = Part(url, cursorpos + 1, urllen)
    BY <1>1, EditShows DEF KeyRight, Sound
<1>3. /\ right # <<>> /\ Head(right) = url[cursorpos]
      /\ Tail(right) = Part(url, cursorpos + 1, urllen)
    BY <1>1, PartFirst DEF Sound
<1>4. Part(url, 0, cursorpos + 1) = Append(left, url[cursorpos])
    <2>1. \A i \in 0 .. (cursorpos + 1) - 1 : url[i] \in Chars
        BY <1>1 DEF Sound
    <2>2. Part(url, 0, cursorpos + 1)
            = Append(Part(url, 0, (cursorpos + 1) - 1), url[(cursorpos + 1) - 1])
        BY <1>1, <2>1, PartLast
    <2> QED BY <1>1, <2>2
<1> QED BY <1>2, <1>3, <1>4, LeftText DEF Field!Forward, Field!Move

\* Behind the cursor the bytes move to the left by one, and the text shrinks.
LEMMA KeyBackspaceIsErase == Sound /\ KeyBackspace => Sound' /\ Field!Erase
<1> SUFFICES ASSUME Sound, KeyBackspace PROVE Sound' /\ Field!Erase
    OBVIOUS
<1> DEFINE new == [i \in Index |-> IF i \in cursorpos - 1 .. urllen - 2
                                   THEN url[i + 1] ELSE url[i]]
           left == Part(url, 0, cursorpos)
<1>1. /\ cursorpos \in Nat /\ urllen \in Nat /\ urllen <= maxlen - 1
      /\ 0 < cursorpos /\ cursorpos <= urllen /\ cursorpos - 1 \in Nat
      /\ urllen - 1 \in 0 .. maxlen - 1 /\ cursorpos - 1 \in 0 .. urllen - 1
      /\ maxlen \in Nat
    BY LineEditAssumption DEF KeyBackspace, Sound, LineEditAssumption
<1>2. \A i \in Index : (i \in cursorpos - 1 .. urllen - 2 => i + 1 \in Index)
    BY <1>1 DEF Index
<1>3. new \in [Index -> Chars \cup {NUL}]
    BY <1>2 DEF Sound
<1>4. \A i \in 0 .. urllen - 2 : i \in Index /\ i + 1 \in 0 .. urllen - 1
    BY <1>1 DEF Index
<1>5. \A i \in 0 .. urllen - 2 : new[i] \in Chars
    <2>1. \A i \in 0 .. urllen - 2 : i \in 0 .. urllen - 1
        BY <1>1
    <2> QED BY <1>4, <2>1 DEF Sound
<1>6. \A i \in 0 .. (cursorpos - 1) - 1 : new[i] = url[i]
    <2>1. \A i \in 0 .. (cursorpos - 1) - 1 :
            i \in 0 .. urllen - 2 /\ i \notin cursorpos - 1 .. urllen - 2
        BY <1>1
    <2> QED BY <1>4, <2>1
<1>7. \A i \in cursorpos - 1 .. urllen - 2 : new[i] = url[i + 1]
    <2>1. \A i \in cursorpos - 1 .. urllen - 2 : i \in 0 .. urllen - 2
        BY <1>1
    <2> QED BY <1>4, <2>1
<1> HIDE DEF new
<1>8. Edit(new, urllen - 1, cursorpos - 1)
    BY DEF KeyBackspace, new
<1>9. \A i \in 0 .. (urllen - 1) - 1 : new[i] \in Chars
    BY <1>1, <1>5
<1>10. Sound' /\ Text(0, cursorpos)' = Part(new, 0, cursorpos - 1)
       /\ Text(cursorpos, urllen)' = Part(new, cursorpos - 1, urllen - 1)
    BY <1>1, <1>3, <1>8, <1>9, EditShows
<1>11. Part(new, 0, cursorpos - 1) = Part(url, 0, cursorpos - 1)
    <2>1. ASSUME NEW i \in 1 .. (cursorpos - 1) - 0
          PROVE  new[0 + i - 1] = url[0 + i - 1]
        <3>1. 0 + i - 1 \in 0 .. (cursorpos - 1) - 1
            BY <1>1
        <3> QED BY <1>6, <3>1
    <2> QED BY <2>1, SamePart
<1>12. Part(new, cursorpos - 1, urllen - 1) = Part(url, cursorpos, urllen)
    <2>1. ASSUME NEW i \in 1 .. urllen - cursorpos
          PROVE  new[(cursorpos - 1) + i - 1] = url[cursorpos + i - 1]
        <3>1. /\ (cursorpos - 1) + i - 1 \in cursorpos - 1 .. urllen - 2
              /\ ((cursorpos - 1) + i - 1) + 1 = cursorpos + i - 1
            BY <1>1
        <3> QED BY <1>7, <3>1
    <2>2. (urllen - 1) - (cursorpos - 1) = urllen - cursorpos
        BY <1>1
    <2> QED BY <2>1, <2>2, SamePart
<1>13. left # <<>> /\ SubSeq(left, 1, Len(left) - 1) = Part(url, 0, cursorpos - 1)
    BY <1>1, PartLast DEF Sound
<1> QED BY <1>10, <1>11, <1>12, <1>13, LeftText DEF Field!Erase, Field!Move

LEMMA KeyDelIsDelete == Sound /\ KeyDel => Sound' /\ Field!Delete
<1> SUFFICES ASSUME Sound, KeyDel PROVE Sound' /\ Field!Delete
    OBVIOUS
<1> DEFINE new == ShiftedLeft(cursorpos)
           right == Part(url, cursorpos, urllen)
<1>1. /\ cursorpos \in Nat /\ urllen \in Nat /\ urllen <= maxlen - 1
      /\ cursorpos < urllen /\ urllen - 1 \in 0 .. maxlen - 1
      /\ cursorpos \in 0 .. urllen - 1 /\ maxlen \in Nat
    BY LineEditAssumption DEF KeyDel, Sound, LineEditAssumption
<1>2. \A i \in Index : (i \in cursorpos .. urllen - 1 => i + 1 \in Index)
    BY <1>1 DEF Index
<1>3. new \in [Index -> Chars \cup {NUL}]
    BY <1>2 DEF Sound, ShiftedLeft
<1>4. \A i \in 0 .. urllen - 2 :
        i \in Index /\ i \in 0 .. urllen - 1 /\ i + 1 \in 0 .. urllen - 1
    BY <1>1 DEF Index
<1>5. \A i \in 0 .. urllen - 2 : new[i] \in Chars
    BY <1>4 DEF Sound, ShiftedLeft
<1>6. \A i \in 0 .. cursorpos - 1 : new[i] = url[i]
    <2>1. \A i \in 0 .. cursorpos - 1 :
            i \in 0 .. urllen - 2 /\ i \notin cursorpos .. urllen - 1
        BY <1>1
    <2> QED BY <1>4, <2>1 DEF ShiftedLeft
<1>7. \A i \in cursorpos .. urllen - 2 : new[i] = url[i + 1]
    <2>1. \A i \in cursorpos .. urllen - 2 :
            i \in 0 .. urllen - 2 /\ i \in cursorpos .. urllen - 1
        BY <1>1
    <2> QED BY <1>4, <2>1 DEF ShiftedLeft
<1> HIDE DEF new
<1>8. Edit(new, urllen - 1, cursorpos)
    BY DEF KeyDel, new
<1>9. \A i \in 0 .. (urllen - 1) - 1 : new[i] \in Chars
    BY <1>1, <1>5
<1>10. Sound' /\ Text(0, cursorpos)' = Part(new, 0, cursorpos)
       /\ Text(cursorpos, urllen)' = Part(new, cursorpos, urllen - 1)
    BY <1>1, <1>3, <1>8, <1>9, EditShows
<1>11. Part(new, 0, cursorpos) = Part(url, 0, cursorpos)
    <2>1. ASSUME NEW i \in 1 .. cursorpos - 0
          PROVE  new[0 + i - 1] = url[0 + i - 1]
        <3>1. 0 + i - 1 \in 0 .. cursorpos - 1
            BY <1>1
        <3> QED BY <1>6, <3>1
    <2> QED BY <2>1, SamePart
<1>12. Part(new, cursorpos, urllen - 1) = Part(url, cursorpos + 1, urllen)
    <2>1. ASSUME NEW i \in 1 .. urllen - (cursorpos + 1)
          PROVE  new[cursorpos + i - 1] = url[(cursorpos + 1) + i - 1]
        <3>1. /\ cursorpos + i - 1 \in cursorpos .. urllen - 2
              /\ (cursorpos + i - 1) + 1 = (cursorpos + 1) + i - 1
            BY <1>1
        <3> QED BY <1>7, <3>1
    <2>2. (urllen - 1) - cursorpos = urllen - (cursorpos + 1)
        BY <1>1
    <2> QED BY <2>1, <2>2, SamePart
<1>13. right # <<>> /\ Tail(right) = Part(url, cursorpos + 1, urllen)
    BY <1>1, PartFirst DEF Sound
<1> QED BY <1>10, <1>11, <1>12, <1>13, LeftText DEF Field!Delete, Field!Move

LEMMA TypeCharIsType ==
    ASSUME NEW c \in Typed, Sound, TypeChar(c)
    PROVE  Sound' /\ c \in Chars /\ Field!Type(c)
<1> DEFINE new == [ShiftedRight(cursorpos) EXCEPT ![cursorpos] = c]
           left == Part(url, 0, cursorpos)
           right == Part(url, cursorpos, urllen)
<1>1. /\ cursorpos \in Nat /\ urllen \in Nat /\ urllen < maxlen - 1
      /\ cursorpos <= urllen /\ urllen + 1 \in 0 .. maxlen - 1
      /\ cursorpos + 1 \in 0 .. urllen + 1 /\ maxlen \in Nat
    BY LineEditAssumption DEF TypeChar, Sound, LineEditAssumption
<1>2. c \in Chars
    BY LineEditAssumption DEF LineEditAssumption
<1>3. cursorpos \in Index
      /\ \A i \in Index : (i \in cursorpos + 1 .. urllen => i - 1 \in Index)
    BY <1>1 DEF Index
<1>4. new \in [Index -> Chars \cup {NUL}]
    BY <1>2, <1>3 DEF Sound, ShiftedRight
<1>5. \A i \in 0 .. urllen : i \in Index
    BY <1>1 DEF Index
<1>6. \A i \in 0 .. cursorpos - 1 : new[i] = url[i]
    <2>1. \A i \in 0 .. cursorpos - 1 :
            i \in 0 .. urllen /\ i \notin cursorpos + 1 .. urllen /\ i # cursorpos
        BY <1>1
    <2> QED BY <1>5, <2>1 DEF ShiftedRight
<1>7. new[cursorpos] = c
    BY <1>3 DEF ShiftedRight
<1>8. \A i \in cursorpos + 1 .. urllen : new[i] = url[i - 1]
    <2>1. \A i \in cursorpos + 1 .. urllen : i \in 0 .. urllen /\ i # cursorpos
        BY <1>1
    <2> QED BY <1>5, <2>1 DEF ShiftedRight
<1> HIDE DEF new
<1>9. \A i \in 0 .. (urllen + 1) - 1 : new[i] \in Chars
    <2>1. ASSUME NEW i \in 0 .. (urllen + 1) - 1
          PROVE  new[i] \in Chars
        <3>1. CASE i < cursorpos
            <4>1. i \in 0 .. cursorpos - 1 /\ i \in 0 .. urllen - 1
                BY <1>1, <3>1
            <4> QED BY <1>6, <4>1 DEF Sound
        <3>2. CASE i = cursorpos
            BY <1>2, <1>7, <3>2
        <3>3. CASE i > cursorpos
            <4>1. i \in cursorpos + 1 .. urllen /\ i - 1 \in 0 .. urllen - 1
                BY <1>1, <3>3
            <4> QED BY <1>8, <4>1 DEF Sound
        <3> QED BY <1>1, <3>1, <3>2, <3>3
    <2> QED BY <2>1
<1>10. Edit(new, urllen + 1, cursorpos + 1)
    BY DEF TypeChar, new
<1>11. Sound' /\ Text(0, cursorpos)' = Part(new, 0, cursorpos + 1)
       /\ Text(cursorpos, urllen)' = Part(new, cursorpos + 1, urllen + 1)
    BY <1>1, <1>4, <1>9, <1>10, EditShows
<1>12. Part(new, 0, cursorpos + 1) = Append(left, c)
    <2>1. /\ cursorpos + 1 \in Nat /\ 0 < cursorpos + 1 /\ (cursorpos + 1) - 1 = cursorpos
          /\ \A i \in 0 .. (cursorpos + 1) - 1 : i \in 0 .. (urllen + 1) - 1
        BY <1>1
    <2>2. \A i \in 0 .. (cursorpos + 1) - 1 : new[i] \in Chars
        BY <1>9, <2>1
    <2>3. Part(new, 0, cursorpos + 1)
            = Append(Part(new, 0, (cursorpos + 1) - 1), new[(cursorpos + 1) - 1])
        BY <2>1, <2>2, PartLast
    <2>4. ASSUME NEW i \in 1 .. cursorpos - 0
          PROVE  new[0 + i - 1] = url[0 + i - 1]
        <3>1. 0 + i - 1 \in 0 .. cursorpos - 1
            BY <1>1
        <3> QED BY <1>6, <3>1
    <2>5. Part(new, 0, cursorpos) = left
        BY <2>4, SamePart
    <2> QED BY <1>7, <2>1, <2>3, <2>5
<1>13. Part(new, cursorpos + 1, urllen + 1) = right
    <2>1. ASSUME NEW i \in 1 .. urllen - cursorpos
          PROVE  new[(cursorpos + 1) + i - 1] = url[cursorpos + i - 1]
        <3>1. /\ (cursorpos + 1) + i - 1 \in cursorpos + 1 .. urllen
              /\ ((cursorpos + 1) + i - 1) - 1 = cursorpos + i - 1
            BY <1>1
        <3> QED BY <1>8, <3>1
    <2>2. (urllen + 1) - (cursorpos + 1) = urllen - cursorpos
        BY <1>1
    <2> QED BY <2>1, <2>2, SamePart
<1>14. Len(left) + Len(right) < maxlen - 1
    <2>0. 0 \in Nat /\ 0 <= cursorpos /\ \A i \in 0 .. cursorpos - 1 : url[i] \in Chars
        BY <1>1 DEF Sound
    <2>1. Len(left) = cursorpos - 0
        BY <1>1, <2>0, PartIsText
    <2>2. Len(right) = urllen - cursorpos
        BY <1>1, PartIsText DEF Sound
    <2> QED BY <1>1, <2>1, <2>2
<1> QED BY <1>2, <1>11, <1>12, <1>13, <1>14, LeftText DEF Field!Type, Field!Move

LEMMA PagesAndLinks ==
    /\ \A p \in Pages : p \in Located
    /\ \A l \in Links : l \in Located
BY LocationsAreLocated, AddressesAssumption, Zenon DEF AddressesAssumption

LEMMA PageHasUrl ==
    ASSUME NEW p \in Pages, ~NotAUrl(p), ~UrlOverruns(p)
    PROVE  buildgopherurl(p) \in Seq(Chars) /\ Len(buildgopherurl(p)) < maxlen
<1>1. buildgopherurl(p) \in Seq(Chars) /\ maxlen = MAXURLLEN
  BY AddressesAssumption, Zenon DEF AddressesAssumption
<1>2. Len(buildgopherurl(p)) < MAXURLLEN
  BY PagesAndLinks, UrlFits
<1> QED
  BY <1>1, <1>2

-----------------------------------------------------------------------------
(* The whole of it: edit_url() and the choice of a link.                   *)

LEMMA InitIsSound == Init => Sound /\ Field!Init
<1> SUFFICES ASSUME Init PROVE Sound /\ Field!Init
    OBVIOUS
<1>1. PICK text \in Seq(Chars) : Len(text) < maxlen /\ Begin(text)
    <2>1. CASE turn = "edit"
        <3>1. /\ from \in Pages /\ ~NotAUrl(from) /\ ~UrlOverruns(from)
              /\ Begin(buildgopherurl(from))
            BY <2>1 DEF Init
        <3>2. buildgopherurl(from) \in Seq(Chars) /\ Len(buildgopherurl(from)) < maxlen
            BY <3>1, PageHasUrl
        <3> QED BY <3>1, <3>2
    <2>2. CASE turn \in {"menu", "overrun"}
        <3>1. <<>> \in Seq(Chars) /\ Len(<<>>) < maxlen
            BY LineEditAssumption DEF LineEditAssumption
        <3> QED BY <2>2, <3>1 DEF Init
    <2> QED BY <2>1, <2>2 DEF Init
<1>2. /\ urllen = Len(text) /\ cursorpos = urllen
      /\ url = [i \in Index |-> IF i < urllen THEN text[i + 1] ELSE NUL]
    BY <1>1 DEF Begin
<1>3. /\ urllen \in Nat /\ urllen \in 0 .. maxlen - 1 /\ maxlen \in Nat
      /\ \A i \in 0 .. urllen - 1 : i \in Index /\ i + 1 \in 1 .. Len(text) /\ i < urllen
    BY <1>1, <1>2, LineEditAssumption, LenProperties DEF Index, LineEditAssumption
<1>4. \A i \in 0 .. urllen - 1 : url[i] \in Chars
    BY <1>1, <1>2, <1>3, ElementOfSeq
<1>5. url \in [Index -> Chars \cup {NUL}]
    <2>1. ASSUME NEW i \in Index, i < urllen PROVE text[i + 1] \in Chars
        <3>1. i + 1 \in 1 .. Len(text)
            BY <1>2, <1>3, <2>1 DEF Index
        <3> QED BY <1>1, <3>1, ElementOfSeq
    <2> QED BY <1>2, <2>1
<1>6. Sound
    BY <1>2, <1>3, <1>4, <1>5 DEF Sound
<1>7. Part(url, 0, urllen) \in Seq(Chars) /\ Len(Part(url, 0, urllen)) = urllen - 0
    <2>1. 0 \in Nat /\ 0 <= urllen
        BY <1>3
    <2> QED BY <1>3, <1>4, <2>1, PartIsText
<1>8. Part(url, urllen, urllen) = <<>>
    BY <1>3, PartEmpty
<1>9. urllen - 0 <= maxlen - 1
    BY <1>3
<1> QED BY <1>2, <1>6, <1>7, <1>8, <1>9, LeftText DEF Field!Init

LEMMA StillSound ==
    Sound /\ UNCHANGED <<url, urllen, cursorpos>> =>
        /\ Sound'
        /\ UNCHANGED <<Text(0, cursorpos), Text(cursorpos, urllen)>>
BY DEF Sound, Text, Index

LEMMA NextIsSound ==
    Sound /\ [Next]_allvars =>
        Sound' /\ [Field!Next]_<<Text(0, cursorpos), Text(cursorpos, urllen)>>
<1> SUFFICES ASSUME Sound, [Next]_allvars
             PROVE  Sound' /\ [Field!Next]_<<Text(0, cursorpos), Text(cursorpos, urllen)>>
    OBVIOUS
<1>1. CASE MoveCursor
    <2>1. CASE KeyHome
        BY <2>1, KeyHomeIsToStart DEF Field!Next
    <2>2. CASE KeyEnd
        BY <2>2, KeyEndIsToEnd DEF Field!Next
    <2>3. CASE KeyLeft
        BY <2>3, KeyLeftIsBackward DEF Field!Next
    <2>4. CASE KeyRight
        BY <2>4, KeyRightIsForward DEF Field!Next
    <2> QED BY <1>1, <2>1, <2>2, <2>3, <2>4 DEF MoveCursor, Move
<1>2. CASE ChangeText
    <2>1. CASE KeyBackspace
        BY <2>1, KeyBackspaceIsErase DEF Field!Next
    <2>2. CASE KeyDel
        BY <2>2, KeyDelIsDelete DEF Field!Next
    <2>3. CASE \E c \in Typed : TypeChar(c)
        BY <2>3, TypeCharIsType DEF Field!Next
    <2> QED BY <1>2, <2>1, <2>2, <2>3 DEF ChangeText, Change
<1>3. CASE Enter \/ Cancel \/ FollowLink \/ SaveLink \/ AskFilename
    BY <1>3, StillSound DEF Enter, Cancel, FollowLink, SaveLink, AskFilename, Leave
<1>4. CASE UNCHANGED allvars
    BY <1>4, StillSound DEF allvars
<1> QED BY <1>1, <1>2, <1>3, <1>4 DEF Next

LEMMA AlwaysSound == Spec => []Sound
<1>1. Init => Sound
    BY InitIsSound
<1>2. Sound /\ [Next]_allvars => Sound'
    BY NextIsSound
<1> QED BY <1>1, <1>2, PTL DEF Spec

\* The cursor of the URL bar is drawn inside of its field, however long the
\* text and however wide the screen is.
THEOREM CursorStaysInField == Spec => []CursorInField
<1>1. Sound => CursorInField
    BY LineEditAssumption DEF LineEditAssumption, Sound, CursorInField, displayoffset
<1> QED BY <1>1, AlwaysSound, PTL

\* editstring(), which shifts the bytes of an array in place, implements the
\* text and cursor of TextField: no key loses, doubles or swaps a character.
THEOREM EditorIsTextField == Spec => IsTextField
<1>1. Init => Field!Init
    BY InitIsSound
<1>2. Sound /\ [Next]_allvars =>
        [Field!Next]_<<Text(0, cursorpos), Text(cursorpos, urllen)>>
    BY NextIsSound
<1> QED BY <1>1, <1>2, AlwaysSound, PTL DEF Spec, IsTextField, Field!Spec

-----------------------------------------------------------------------------
(* Where the user comes from, and where they are led.                      *)

Whole == Text(0, urllen)

\* The URL that is edited is that of the page until it is changed.
Shown ==
    /\ changes \in Nat
    /\ \/ turn = "edit" /\ from \in Pages /\ ~NotAUrl(from) /\ ~UrlOverruns(from)
       \/ turn = "menu" /\ from \in Links /\ ~UrlOverruns(from)
       \/ turn = "overrun" /\ from \in Pages \cup Links /\ UrlOverruns(from)
    /\ turn = "edit" /\ changes = 0 => Whole = buildgopherurl(from)

\* Where the user is led is what a text was parsed into.
Led ==
    /\ result = "entered" => turn = "edit" /\ there = parsegopherurl(Whole)
    /\ result \in {"followed", "saved"} => turn = "menu" /\ Target.proto # "error"
    /\ result = "followed" => there = Target
    /\ result = "saved" => there = [Target EXCEPT !.itemtype = "9"]
    /\ result \in {"prompted", "nameoverrun"} => there.selector \in Seq(Symbols)
    /\ result = "prompted" =>
         \E text \in NamedAfter(there.selector) :
            ~NameOverruns(MAXNAMELEN, text) /\ filename = genfnamefromselector(MAXNAMELEN, text)
    /\ result = "nameoverrun" =>
         \E text \in NamedAfter(there.selector) : NameOverruns(MAXNAMELEN, text)

LEMMA WholeIsText == Sound => Whole \in Seq(Chars) /\ Whole \in Seq(Symbols)
<1> SUFFICES ASSUME Sound PROVE Whole \in Seq(Chars) /\ Whole \in Seq(Symbols)
  OBVIOUS
<1>1. urllen \in Nat /\ 0 \in Nat /\ 0 <= urllen /\ \A i \in 0 .. urllen - 1 : url[i] \in Chars
  BY LineEditAssumption DEF Sound, LineEditAssumption
<1>2. Part(url, 0, urllen) \in Seq(Chars)
  BY <1>1, PartIsText
<1>3. Whole = Part(url, 0, urllen)
  BY DEF Whole, Text, Part
<1>4. Chars \subseteq Symbols
  BY AddressesAssumption, Zenon DEF AddressesAssumption, Symbols
<1> QED
  BY <1>2, <1>3, <1>4, SeqMonotonic

LEMMA BegunWhole ==
    ASSUME NEW text \in Seq(Chars), Len(text) < maxlen, Begin(text)
    PROVE  Whole = text
<1>1. PICK n \in Nat : n = Len(text)
  BY LenProperties
<1>2. urllen = n /\ url = [i \in Index |-> IF i < urllen THEN text[i + 1] ELSE NUL]
  BY <1>1 DEF Begin
<1>3. ASSUME NEW i \in 1 .. n PROVE url[0 + i - 1] = text[i]
  <2>1. 0 + i - 1 \in Index /\ 0 + i - 1 < n /\ (0 + i - 1) + 1 = i
    BY <1>1, LineEditAssumption DEF Index, LineEditAssumption
  <2> QED
    BY <1>2, <2>1
<1>4. Whole = [i \in 1 .. n |-> url[0 + i - 1]]
  <2>1. n - 0 = n
    OBVIOUS
  <2> QED
    BY <1>2, <2>1, Zenon DEF Whole, Text
<1>5. text = [i \in 1 .. n |-> text[i]]
  BY <1>1, LenProperties
<1> QED
  BY <1>3, <1>4, <1>5

LEMMA InitShown == Init => Shown /\ Led
<1> SUFFICES ASSUME Init PROVE Shown /\ Led
  OBVIOUS
<1>1. changes \in Nat /\ changes = 0 /\ result = "editing"
  BY DEF Init, Begin
<1>2. \/ /\ turn = "edit" /\ from \in Pages /\ ~NotAUrl(from) /\ ~UrlOverruns(from)
         /\ Begin(buildgopherurl(from))
      \/ turn = "menu" /\ from \in Links /\ ~UrlOverruns(from)
      \/ turn = "overrun" /\ from \in Pages \cup Links /\ UrlOverruns(from)
  BY DEF Init
<1>3. ASSUME turn = "edit" PROVE Whole = buildgopherurl(from)
  <2>1. /\ from \in Pages /\ ~NotAUrl(from) /\ ~UrlOverruns(from)
        /\ Begin(buildgopherurl(from))
    BY <1>2, <1>3
  <2> QED
    BY <2>1, PageHasUrl, BegunWhole
<1> QED
  BY <1>1, <1>2, <1>3 DEF Shown, Led

LEMMA MovedWhole ==
    ASSUME Sound, NEW cursor, Edit(url, urllen, cursor)
    PROVE  Whole' = Whole
<1>1. url' = [url EXCEPT ![urllen] = NUL] /\ urllen' = urllen
  BY DEF Edit, Terminated
<1>2. urllen \in Nat /\ url \in [Index -> Chars \cup {NUL}]
  BY LineEditAssumption DEF Sound, LineEditAssumption
<1>3. ASSUME NEW i \in 1 .. urllen - 0 PROVE url'[0 + i - 1] = url[0 + i - 1]
  <2>1. 0 + i - 1 # urllen
    BY <1>2
  <2>2. 0 + i - 1 \in Index
    BY <1>2, LineEditAssumption DEF Sound, Index, LineEditAssumption
  <2> QED
    BY <1>1, <1>2, <2>1, <2>2
<1> QED
  BY <1>1, <1>3 DEF Whole, Text

LEMMA NextShown ==
    Sound /\ Shown /\ Led /\ [Next]_allvars => Shown' /\ Led'
<1> SUFFICES ASSUME Sound, Shown, Led, [Next]_allvars PROVE Shown' /\ Led'
  OBVIOUS
<1>1. CASE MoveCursor
  <2>1. \E cursor : Edit(url, urllen, cursor)
    BY <1>1 DEF MoveCursor, Move, KeyHome, KeyEnd, KeyLeft, KeyRight
  <2>2. Whole' = Whole
    BY <2>1, MovedWhole
  <2>3. result = "editing" /\ result' = "editing"
    BY <2>1 DEF Edit
  <2>4. UNCHANGED <<from, there, turn, filename, changes>>
    BY <1>1 DEF MoveCursor
  <2>5. Shown'
    BY <2>2, <2>4 DEF Shown
  <2>6. Led'
    BY <2>3 DEF Led
  <2> QED
    BY <2>5, <2>6
<1>2. CASE ChangeText
  <2>1. result' = "editing"
    BY <1>2 DEF ChangeText, Change, KeyBackspace, KeyDel, TypeChar, Edit
  <2>2. UNCHANGED <<from, turn>> /\ changes' = changes + 1
    BY <1>2 DEF ChangeText
  <2>3. changes' \in Nat /\ changes' # 0
    BY <2>2 DEF Shown
  <2>4. Shown'
    BY <2>2, <2>3 DEF Shown
  <2>5. Led'
    BY <2>1 DEF Led
  <2> QED
    BY <2>4, <2>5
<1>3. ASSUME UNCHANGED <<url, urllen, from, turn, changes>>
      PROVE  Whole' = Whole /\ Shown' /\ Target' = Target
  <2>1. Whole' = Whole
    BY <1>3 DEF Whole, Text
  <2>2. Target' = Target
    BY <1>3 DEF Target, CurUrl
  <2>3. Shown'
    BY <1>3, <2>1 DEF Shown
  <2> QED
    BY <2>1, <2>2, <2>3
<1>4. CASE Enter
  <2>1. UNCHANGED <<url, urllen, from, turn, changes>> /\ result' = "entered"
        /\ turn = "edit" /\ there' = parsegopherurl(Whole)
    BY <1>4 DEF Enter, Leave, Whole
  <2>2. Whole' = Whole /\ Shown'
    BY <1>3, <2>1
  <2>3. Led'
    BY <2>1, <2>2 DEF Led
  <2> QED
    BY <2>2, <2>3
<1>5. CASE Cancel
  <2>1. UNCHANGED <<url, urllen, from, turn, changes>> /\ result' = "cancelled"
    BY <1>5 DEF Cancel, Leave
  <2>2. Led'
    BY <2>1 DEF Led
  <2> QED
    BY <1>3, <2>1, <2>2
<1>6. CASE FollowLink
  <2>1. UNCHANGED <<url, urllen, from, turn, changes>> /\ result' = "followed"
        /\ turn = "menu" /\ there' = Target /\ Target.proto # "error"
    BY <1>6 DEF FollowLink, Leave
  <2>2. Target' = Target /\ Shown'
    BY <1>3, <2>1
  <2>3. Led'
    BY <2>1, <2>2 DEF Led
  <2> QED
    BY <2>2, <2>3
<1>7. CASE SaveLink
  <2>1. UNCHANGED <<url, urllen, from, turn, changes>> /\ result' = "saved"
        /\ turn = "menu" /\ there' = [Target EXCEPT !.itemtype = "9"]
        /\ Target.proto # "error"
    BY <1>7 DEF SaveLink, Leave
  <2>2. Target' = Target /\ Shown'
    BY <1>3, <2>1
  <2>3. Led'
    BY <2>1, <2>2 DEF Led
  <2> QED
    BY <2>2, <2>3
<1>8. CASE AskFilename
  <2>1. UNCHANGED <<url, urllen, from, there, turn, changes>>
        /\ result' \in {"prompted", "nameoverrun"} /\ result \in {"followed", "saved"}
    BY <1>8 DEF AskFilename
  <2>2. /\ result' = "prompted" =>
             \E text \in NamedAfter(there.selector) :
                /\ ~NameOverruns(MAXNAMELEN, text)
                /\ filename' = genfnamefromselector(MAXNAMELEN, text)
        /\ result' = "nameoverrun" =>
             \E text \in NamedAfter(there.selector) : NameOverruns(MAXNAMELEN, text)
    BY <1>8 DEF AskFilename
  <2>3. there.selector \in Seq(Symbols)
    <3>1. from \in Located /\ ~UrlOverruns(from)
      BY <2>1, PagesAndLinks DEF Led, Shown
    <3>2. CurUrl \in Seq(Symbols)
      <4>1. <<>> \in Seq(Symbols)
        BY EmptySeq
      <4> QED
        BY <3>1, <4>1, UrlFits DEF CurUrl
    <3>3. Target \in Located
      <4>1. Target = parsegopherurl(CurUrl)
        BY DEF Target
      <4>2. Target # Failure
        BY <2>1 DEF Led, Failure
      <4> QED
        BY <3>2, <4>1, <4>2, ParsedIsNameable DEF Nameable
    <3>4. there = Target \/ there = [Target EXCEPT !.itemtype = "9"]
      BY <2>1 DEF Led
    <3>5. there.selector = Target.selector
      <4>1. [Target EXCEPT !.itemtype = "9"].selector = Target.selector
        BY <3>3 DEF Located
      <4> QED
        BY <3>4, <4>1
    <3> QED
      BY <3>3, <3>5 DEF Located
  <2>4. NamedAfter(there.selector)' = NamedAfter(there.selector)
    BY <2>1
  <2>5. Led'
    <3>1. /\ result' = "prompted" =>
                \E text \in NamedAfter(there'.selector) :
                   /\ ~NameOverruns(MAXNAMELEN, text)
                   /\ filename' = genfnamefromselector(MAXNAMELEN, text)
          /\ result' = "nameoverrun" =>
                \E text \in NamedAfter(there'.selector) : NameOverruns(MAXNAMELEN, text)
      BY <2>1, <2>2
    <3>2. there'.selector \in Seq(Symbols)
      BY <2>1, <2>3
    <3> QED
      BY <2>1, <3>1, <3>2 DEF Led
  <2> QED
    BY <1>3, <2>1, <2>5
<1>9. CASE UNCHANGED allvars
  <2>1. UNCHANGED <<url, urllen, from, turn, changes>> /\ UNCHANGED <<result, there, filename>>
    BY <1>9 DEF allvars
  <2>2. Whole' = Whole /\ Target' = Target /\ Shown'
    BY <1>3, <2>1
  <2>3. Led'
    BY <2>1, <2>2 DEF Led
  <2> QED
    BY <2>2, <2>3
<1> QED
  BY <1>1, <1>2, <1>4, <1>5, <1>6, <1>7, <1>8, <1>9 DEF Next

LEMMA AlwaysLed == Spec => [](Sound /\ Shown /\ Led)
<1>1. Init => Sound /\ Shown /\ Led
  BY InitIsSound, InitShown
<1>2. Sound /\ Shown /\ Led /\ [Next]_allvars => (Sound /\ Shown /\ Led)'
  BY NextIsSound, NextShown
<1> QED
  BY <1>1, <1>2, PTL DEF Spec

\* A URL that is shown and entered again leads to the location it was made of,
\* when its host and its selector are short enough to be parsed; when they are
\* not, it is refused: edit_url() parses what buildgopherurl() prints.
THEOREM UrlLeadsBack == Spec => []EnteredAgain
<1>1. Sound /\ Shown /\ Led => EnteredAgain
  <2> SUFFICES ASSUME Sound, Shown, Led, result = "entered"
               PROVE  /\ Expressible(there) => parsegopherurl(buildgopherurl(there)) = there
                      /\ changes = 0 /\ Expressible(from) =>
                           there = IF FitsArrays(from) THEN from ELSE Failure
    BY DEF EnteredAgain, FitsArrays
  <2>1. turn = "edit" /\ there = parsegopherurl(Whole) /\ from \in Pages
    BY DEF Led, Shown
  <2>2. ASSUME Expressible(there) PROVE parsegopherurl(buildgopherurl(there)) = there
    <3>1. there # Failure
      BY <2>2 DEF Expressible, Failure
    <3>2. there \in Located /\ FitsArrays(there)
      BY <2>1, <3>1, WholeIsText, ParsedIsNameable DEF Nameable
    <3> QED
      BY <2>2, <3>2, RoundTrip
  <2>3. ASSUME changes = 0, Expressible(from)
        PROVE  there = IF FitsArrays(from) THEN from ELSE Failure
    <3>1. there = parsegopherurl(buildgopherurl(from))
      BY <2>1, <2>3 DEF Shown
    <3> QED
      BY <2>1, <2>3, <3>1, PagesAndLinks, RoundTrip
  <2> QED
    BY <2>2, <2>3
<1> QED
  BY <1>1, AlwaysLed, PTL

\* A link of a menu leads to the item it is about, or saves that one: the URL
\* that main() makes of a link says all there is to say about it.  A server may
\* send a host of any length; only for one that is too long to be parsed is the
\* URL written beyond its array.
THEOREM LinkLeadsToItem == Spec => []LinkLeadsThere
<1>1. Shown /\ Led => LinkLeadsThere
  <2> SUFFICES ASSUME Shown, Led
               PROVE  /\ Expressible(from) /\ result \in {"followed", "saved"} =>
                           Target = from
                      /\ turn = "overrun" => Len(from.host) >= MAXHOSTLEN
    BY DEF LinkLeadsThere, Led
  <2>1. ASSUME Expressible(from), result \in {"followed", "saved"} PROVE Target = from
    <3>1. from \in Links /\ Target.proto # "error"
      BY <2>1 DEF Led, Shown
    <3>2. from \in Located
      BY <3>1, PagesAndLinks
    <3>3. ~NotAUrl(from)
      BY <2>1 DEF Expressible
    <3>4. Target = parsegopherurl(buildgopherurl(from))
      BY <3>3 DEF Target, CurUrl
    <3>5. Target # Failure
      BY <3>1 DEF Failure
    <3> QED
      BY <2>1, <3>2, <3>4, <3>5, RoundTrip
  <2>2. ASSUME turn = "overrun" PROVE Len(from.host) >= MAXHOSTLEN
    <3>1. from \in Located /\ UrlOverruns(from)
      BY <2>2, PagesAndLinks DEF Shown
    <3> QED
      BY <3>1, OverrunIsLong
  <2> QED
    BY <2>1, <2>2
<1> QED
  BY <1>1, AlwaysLed, PTL

LEMMA PathDoesNotEndInSlash ==
    ASSUME NEW selector \in Seq(Symbols), Path(selector)
    PROVE  NamedAfter(selector) = {selector}
<1>1. PICK n \in Nat : n = Len(selector)
  BY LenProperties
<1>2. ASSUME selector # <<>>, Last(selector) = "/" PROVE FALSE
  <2>1. n \in 0 .. n /\ selector[n] = "/" /\ \A i \in n + 1 .. n : selector[i] # "/"
    BY <1>1, <1>2 DEF Last
  <2>2. SelectLastInSeq(selector, LAMBDA x : x = "/") = n
    <3>1. n = 0 \/ selector[n] = "/"
      BY <2>1
    <3> QED
      BY <1>1, <2>1, <3>1, LastIndex
  <2>3. LastPart(selector) = SubSeq(selector, n + 1, n)
    BY <1>1, <2>2 DEF LastPart
  <2>4. SubSeq(selector, n + 1, n) = <<>>
    BY SubSeqEmpty
  <2> QED
    BY <2>3, <2>4 DEF Path
<1> QED
  BY <1>2 DEF NamedAfter

\* A name that does not fit has an extension that does not fit.
LEMMA OverrunsByExtension ==
    ASSUME NEW selector \in Seq(Symbols), NEW n \in Nat \ {0}, n <= 2^16,
           NameOverruns(n, selector)
    PROVE  Len(Extension(selector)) >= n
<1>1. PICK start, dot, size \in Nat :
        start = Scan(selector).start /\ dot = Scan(selector).dot
        /\ size = Len(selector)
  BY ScanFinds, LenProperties DEF Scans
<1>2. Stem(selector) \in Seq(Symbols) /\ Extension(selector) \in Seq(Symbols)
  BY <1>1, NameParts DEF InTwoParts
<1>3. PICK s \in Nat : s = Len(Stem(selector))
  BY <1>2, LenProperties
<1>4. PICK e \in Nat : e = Len(Extension(selector))
  BY <1>2, LenProperties
<1>5. Copied(n, selector) = CopiedOf(s, e, n)
  BY <1>3, <1>4, Zenon DEF Copied, CopiedOf
<1>6. Copied(n, selector) + e >= n
  BY <1>4 DEF NameOverruns
<1>7. e >= n
  BY <1>5, <1>6, CopiedRoom
<1> QED
  BY <1>4, <1>7

\* The name that genfnamefromselector() suggests can be created: it is short and
\* harmless.  When the extension leaves room for something in front of it, it is
\* the name of the file or keeps its extension; it is written beyond the array
\* only when the extension itself does not fit there.
THEOREM NamesAreGood == Spec => []GoodName
<1>1. Led => GoodName
  <2> DEFINE selector == there.selector
             part == LastPart(selector)
             dot  == SelectLastInSeq(part, LAMBDA c : c = ".")
             ext  == IF dot \in {0, Len(part)} THEN <<>> ELSE SubSeq(part, dot, Len(part))
  <2> SUFFICES ASSUME Led
               PROVE  /\ result = "prompted" =>
                           /\ Len(filename) < MAXNAMELEN
                           /\ ToSet(filename) \cap Shady = {}
                           /\ Path(selector) /\ Len(ext) < MAXNAMELEN - 1 =>
                                /\ filename # <<>>
                                /\ Len(part) < MAXNAMELEN /\ Last(part) # "." =>
                                     filename = Replaced(part)
                                /\ IsSuffix(Replaced(ext), filename)
                      /\ result = "nameoverrun" /\ Path(selector) =>
                           Len(ext) >= MAXNAMELEN
    BY Zenon DEF GoodName
  <2>1. /\ MAXNAMELEN \in Nat \ {0} /\ MAXNAMELEN <= 2^16
        /\ Memory \subseteq Seq(STRING) /\ Substitute \notin Shady
    BY AddressesAssumption, Zenon DEF AddressesAssumption, Substitute
  <2>2. result \in {"prompted", "nameoverrun"} => selector \in Seq(Symbols)
    BY DEF Led
  <2>3. ASSUME selector \in Seq(Symbols), Path(selector)
        PROVE  ext = Extension(selector) /\ NamedAfter(selector) = {selector}
    <3>1. ext = Extension(selector)
      BY <2>3, PathExtension, Zenon
    <3> QED
      BY <2>3, <3>1, PathDoesNotEndInSlash
  <2> HIDE DEF ext, dot
  <2>4. ASSUME result = "prompted"
        PROVE  /\ Len(filename) < MAXNAMELEN
               /\ ToSet(filename) \cap Shady = {}
               /\ Path(selector) /\ Len(ext) < MAXNAMELEN - 1 =>
                    /\ filename # <<>>
                    /\ Len(part) < MAXNAMELEN /\ Last(part) # "." =>
                         filename = Replaced(part)
                    /\ IsSuffix(Replaced(ext), filename)
    <3>1. PICK text \in NamedAfter(selector) :
            /\ ~NameOverruns(MAXNAMELEN, text)
            /\ filename = genfnamefromselector(MAXNAMELEN, text)
      BY <2>4 DEF Led
    <3>2. text \in Seq(Symbols)
      <4>1. STRING \subseteq Symbols
        BY DEF Symbols
      <4>2. \A t \in Memory : t \in Seq(Symbols)
        BY <2>1, <4>1, SeqMonotonic
      <4> QED
        BY <2>2, <2>4, <3>1, <4>2 DEF NamedAfter
    <3>3. Len(filename) < MAXNAMELEN /\ ToSet(filename) \cap Shady = {}
      BY <2>1, <3>1, <3>2, NameIsCreatable
    <3>4. ASSUME Path(selector), Len(ext) < MAXNAMELEN - 1
          PROVE  /\ filename # <<>>
                 /\ Len(part) < MAXNAMELEN /\ Last(part) # "." => filename = Replaced(part)
                 /\ IsSuffix(Replaced(ext), filename)
      <4>1. selector \in Seq(Symbols)
        BY <2>2, <2>4
      <4>2. ext = Extension(selector) /\ NamedAfter(selector) = {selector}
        BY <2>3, <3>4, <4>1
      <4>3. filename = genfnamefromselector(MAXNAMELEN, selector)
        BY <3>1, <4>2
      <4>4. MAXNAMELEN \in Nat /\ Len(Extension(selector)) < MAXNAMELEN - 1
        BY <2>1, <3>4, <4>2
      <4> QED
        BY <2>1, <3>4, <4>1, <4>2, <4>3, <4>4, PathNamed, Zenon DEF part
    <3> QED
      BY <3>3, <3>4
  <2>5. ASSUME result = "nameoverrun", Path(selector) PROVE Len(ext) >= MAXNAMELEN
    <3>1. selector \in Seq(Symbols)
      BY <2>2, <2>5
    <3>2. ext = Extension(selector) /\ NamedAfter(selector) = {selector}
      BY <2>3, <2>5, <3>1
    <3>3. NameOverruns(MAXNAMELEN, selector)
      BY <2>5, <3>2 DEF Led
    <3> QED
      BY <2>1, <3>1, <3>2, <3>3, OverrunsByExtension
  <2> QED
    BY <2>4, <2>5
<1> QED
  BY <1>1, AlwaysLed, PTL
=============================================================================
