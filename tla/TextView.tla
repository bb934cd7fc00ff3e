------------------------------- MODULE TextView -------------------------------
(***************************************************************************)
(* The display-control loop of display_text(): a text is wrapped to the    *)
(* width of the screen and the user pages through its lines.  Lines count  *)
(* from 0, as in the code.                                                 *)
(***************************************************************************)
EXTENDS WordWrap, Selection

CONSTANTS
    Rows,       \* ui_getrowcount(): URL bar, text and status bar
    Width,      \* screenw
    Texts       \* contents of the buffer when the loop starts: the first half
                \* of display_text() leaves no TAB and no CR in it

ASSUME TextViewAssumption ==
    /\ Rows \in Nat /\ Rows >= 4
    /\ Width \in Nat \ {0}
    /\ Texts # {} /\ Texts \subseteq Seq(STRING)
    /\ \A t \in Texts : ToSet(t) \cap {NUL, TAB, CR} = {}

VARIABLES
    text,       \* buffer
    count,      \* ghost: the number of lines the text wraps to
    firstline, lastline, eof_flag,
    seen,       \* ghost: the lines drawn since the text was opened
    key,        \* ghost: the last key pressed
    before      \* ghost: firstline when it was pressed

vars == <<text, count, firstline, lastline, eof_flag, seen, key, before>>

Page == Rows - 3

\* One turn of the loop up to getfunckey(): the lines of the window are
\* drawn, and the end of the text is noticed when there are too few of them.
Draw(first, last) ==
    /\ firstline' = first
    /\ lastline' = last
    /\ eof_flag' = (count <= last)
    /\ seen' = seen \cup {y \in first .. last : y < count}

Init ==
    /\ text \in Texts
    /\ count = Len(Wrapped(text, Width))
    /\ firstline = 0
    /\ lastline = Rows - 3
    /\ eof_flag = (count <= Rows - 3)
    /\ seen = {y \in 0 .. Rows - 3 : y < count}
    /\ key = "none"
    /\ before = 0

Press(k) == key' = k /\ before' = firstline /\ UNCHANGED <<text, count>>
Nothing == UNCHANGED <<firstline, lastline, eof_flag, seen>>

KeyUp ==
    /\ Press("UP")
    /\ IF firstline > 0 THEN Draw(firstline - 1, lastline - 1) ELSE Nothing

KeyDown ==
    /\ Press("DOWN")
    /\ IF ~eof_flag THEN Draw(firstline + 1, lastline + 1) ELSE Nothing

KeyHome ==
    /\ Press("HOME")
    /\ Draw(0, lastline - firstline)

\* A mistaken version: the last line of a window is not repeated.
PgUpWhole ==
    /\ Press("PGUP")
    /\ IF firstline > 0
       THEN LET first == Max({firstline - Rows + 2, 0})
            IN  Draw(first, first + Page)
       ELSE Nothing

KeyPgUp ==
    /\ Press("PGUP")
    /\ IF firstline > 0
       THEN LET first == Max({firstline - Page, 0})
            IN  Draw(first, first + Page)
       ELSE Nothing

KeyEnd ==
    /\ Press("END")
    /\ Nothing

\* A mistaken version: a page as long as the screen, bars included.
PgDownScreen ==
    /\ Press("PGDOWN")
    /\ IF ~eof_flag THEN Draw(firstline + Rows, lastline + Rows) ELSE Nothing

KeyPgDown ==
    /\ Press("PGDOWN")
    /\ IF ~eof_flag THEN Draw(firstline + Page, lastline + Page) ELSE Nothing

Next ==
    \/ KeyUp \/ KeyDown \/ KeyHome \/ KeyEnd \/ KeyPgUp \/ KeyPgDown

Spec == Init /\ [][Next]_vars

-----------------------------------------------------------------------------

\* When "Reached end of file" is all that forward keys answer, every line of
\* the text has been on the screen: no way of paging forward skips one.
EndMeansAllSeen == eof_flag => seen = 0 .. count - 1

\* A page up takes back the page down before it, also near the end of the
\* text, unless that page down did not move.
PageUpUndoes ==
    [][key = "PGDOWN" /\ firstline # before /\ key' = "PGUP"
          => firstline' = before]_vars

-----------------------------------------------------------------------------
(* The wrapped lines against the text they come from.                      *)

Separators == {SPACE, TAB, LF, CR}
Visible(str) == NotAmong(str, Separators)

\* How many visible characters stand before each separator.
Gaps(str) == {Len(Visible(SubSeq(str, 1, i))) :
                 i \in {j \in 1 .. Len(str) : str[j] \in Separators}}

Joined ==
    LET shown == Wrapped(text, Width)
    IN  FlattenSeq([n \in DOMAIN shown |-> shown[n] \o <<LF>>])

\* Every visible character of the text is shown, once and in order.
NothingLost == Visible(Joined) = Visible(text)

\* Words of a text without indented lines that fit on a line are neither cut
\* nor run together.
Indented == \E i \in 1 .. Len(text) :
    text[i] \in {SPACE, TAB} /\ (i = 1 \/ text[i - 1] = LF)
LongWord == \E i \in 1 .. Len(text) - Width :
    \A j \in i .. i + Width : text[j] \notin Separators
WordsWhole ==
    ~Indented /\ ~LongWord =>
        Gaps(Joined) \ {Len(Visible(text))} = Gaps(text) \ {Len(Visible(text))}

\* What the lines of the page say is what the text says.
WrapFaithful == NothingLost /\ WordsWhole
=============================================================================
