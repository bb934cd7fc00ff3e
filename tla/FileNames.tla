------------------------------ MODULE FileNames ------------------------------
(***************************************************************************)
(* genfnamefromselector(): the name under which a selector is saved.       *)
(***************************************************************************)
EXTENDS Integers, Sequences, SequencesExt

CONSTANT Shady    \* characters that are replaced in a name, the slash included

\* The scan for the last part of the selector and the last dot in it (0 when
\* there is none).  Behind a slash the loop goes on one character too far: what
\* starts the part is not looked at.
Scanned(scan, at, c) ==
    IF at = scan.start /\ at > 1 THEN scan
    ELSE IF c = "/" THEN [start |-> at + 1, dot |-> 0]
    ELSE IF c = "." THEN [scan EXCEPT !.dot = at]
    ELSE scan

Scan(selector) ==
    LET scan[n \in 0 .. Len(selector)] ==
            IF n = 0 THEN [start |-> 1, dot |-> 0]
            ELSE Scanned(scan[n - 1], n, selector[n])
    IN  scan[Len(selector)]

\* The part in front of the dot, and the extension: the dot and what follows
\* it.  A dot at the end goes with neither.
Stem(selector) ==
    LET scan == Scan(selector) IN
    SubSeq(selector, scan.start, IF scan.dot = 0 THEN Len(selector) ELSE scan.dot - 1)

Extension(selector) ==
    LET dot == Scan(selector).dot IN
    IF dot \in {0, Len(selector)} THEN <<>> ELSE SubSeq(selector, dot, Len(selector))

Replaced(text) == [i \in DOMAIN text |-> IF text[i] \in Shady THEN "_" ELSE text[i]]

\* A mistaken version: the extension is what is cut off.
genfnameCutAtEnd(maxlen, selector) ==
    LET text == Stem(selector) \o Extension(selector) IN
    Replaced(SubSeq(text, 1, IF Len(text) < maxlen THEN Len(text) ELSE maxlen - 1))

\* The characters of the stem that are copied: all of them, or as many as the
\* extension leaves room for in an array of maxlen, in 16 bits.
Copied(maxlen, selector) ==
    LET stem == Len(Stem(selector))
        ext  == Len(Extension(selector))
    IN  IF stem + ext < maxlen THEN stem ELSE (maxlen - 1 - ext) % 2^16

\* Whether the name and its end go beyond the array.
NameOverruns(maxlen, selector) ==
    Copied(maxlen, selector) + Len(Extension(selector)) >= maxlen

\* Otherwise a name of at most maxlen - 1 characters; when none of the stem is
\* left, there is no name.
genfnamefromselector(maxlen, selector) ==
    LET flen == Copied(maxlen, selector) IN
    IF flen < 1 THEN <<>>
    ELSE Replaced(SubSeq(Stem(selector), 1, flen) \o Extension(selector))
=============================================================================
