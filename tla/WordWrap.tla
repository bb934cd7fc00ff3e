------------------------------- MODULE WordWrap -------------------------------
(***************************************************************************)
(* wordwrap(): cuts one screen line off a text.  A text is a sequence of   *)
(* characters, positions count from 1, and whatever lies behind the last   *)
(* character reads as NUL.  A character is a member of a small set: only   *)
(* the separators below are told apart by the code.                        *)
(***************************************************************************)
EXTENDS Integers, Sequences, FiniteSetsExt

NUL == "nul"
TAB == "tab"
CR == "cr"
LF == "lf"
SPACE == "space"

At(str, i) == IF i <= Len(str) THEN str[i] ELSE NUL

\* The first position at or after i whose character is in chars, and the
\* first whose character is not.
FirstIn(str, i, chars) == CHOOSE j \in i .. Len(str) + 1 :
    /\ At(str, j) \in chars
    /\ \A k \in i .. j - 1 : At(str, k) \notin chars
FirstNotIn(str, i, chars) == CHOOSE j \in i .. Len(str) + 1 :
    /\ At(str, j) \notin chars
    /\ \A k \in i .. j - 1 : At(str, k) \in chars

\* n characters of str from position i, as they are put into *line.
Piece(str, i, n) ==
    [k \in 1 .. n |-> IF str[i + k - 1] = TAB THEN SPACE ELSE str[i + k - 1]]

\* Where the scan of a line stops: where the text ends, at the width, or at a
\* line feed, tested in this order.
Stop(str, i, width) == Min({FirstIn(str, i, {NUL, LF}), i + width})

\* Where it may be cut: a space in the first column does not count.
NoSpaces(str, i, stop) == {}
Spaces(str, i, stop) == {j \in i + 1 .. stop : At(str, j) \in {SPACE, TAB}}

\* The cut within a word; next = 0 stands for the NULL returned.
CutForgets(str, i, stop) ==
    [line |-> Piece(str, i, stop - i), next |-> stop + 1]
CutWord(str, i, stop) == [line |-> Piece(str, i, stop - i), next |-> stop]

CutAtSpace(str, i, j) ==
    LET rest == FirstNotIn(str, j, {SPACE})
    IN  [line |-> Piece(str, i, j - i),
         next |-> IF At(str, rest) = NUL THEN 0 ELSE rest]

wordwrap(str, i, width) ==
    LET stop == Stop(str, i, width)
        spaces == Spaces(str, i, stop)
        cr == IF stop > i /\ At(str, stop - 1) = CR THEN 1 ELSE 0
    IN  IF At(str, stop) = NUL
        THEN [line |-> Piece(str, i, stop - i), next |-> 0]
        ELSE IF stop < i + width
        THEN [line |-> Piece(str, i, stop - i - cr), next |-> stop + 1]
        ELSE IF spaces = {} THEN CutWord(str, i, stop)
        ELSE CutAtSpace(str, i, Max(spaces))

\* The lines of a text, in the order in which repeated calls cut them.
Wrapped(str, width) ==
    LET from[i \in 1 .. Len(str) + 1] ==
            LET w == wordwrap(str, i, width)
            IN  <<w.line>> \o (IF w.next = 0 THEN <<>> ELSE from[w.next])
    IN  from[1]
=============================================================================
