------------------------------- MODULE LineEdit -------------------------------
(***************************************************************************)
(* editstring(): the URL bar and the prompts.  The text is an array of     *)
(* maxlen bytes that is shifted in place.  Offsets count from 0.           *)
(***************************************************************************)
EXTENDS Integers, Sequences

CONSTANTS
    Chars,          \* printable characters
    Typed,          \* those of them that are typed
    maxlen,         \* size of the array
    maxdisplaylen,  \* columns on the screen
    MARGIN          \* columns kept to the left of the cursor, 8 in the code

ASSUME LineEditAssumption ==
    /\ Typed \subseteq Chars
    /\ maxlen \in Nat \ {0}
    /\ MARGIN \in Nat /\ maxdisplaylen \in Nat /\ maxdisplaylen > MARGIN

NUL == "nul"

VARIABLES
    url, urllen, cursorpos,
    result      \* "editing", "entered" or "cancelled"

vars == <<url, urllen, cursorpos, result>>

Index == 0 .. maxlen - 1

\* What the loop does before a key is read: the text is terminated.
Terminated(array, length) == [array EXCEPT ![length] = NUL]

\* The editor is called with a text.  Whatever the array held behind it is NUL
\* here.
Begin(text) ==
    /\ urllen = Len(text)
    /\ url = [i \in Index |-> IF i < urllen THEN text[i + 1] ELSE NUL]
    /\ cursorpos = urllen
    /\ result = "editing"

Edit(array, length, cursor) ==
    /\ result = "editing"
    /\ url' = Terminated(array, length)
    /\ urllen' = length
    /\ cursorpos' = cursor
    /\ UNCHANGED result

KeyHome == Edit(url, urllen, 0)
KeyEnd == Edit(url, urllen, urllen)
KeyLeft == cursorpos > 0 /\ Edit(url, urllen, cursorpos - 1)

KeyRight == cursorpos < urllen /\ Edit(url, urllen, cursorpos + 1)

\* The array with the bytes behind from, up to the end of the text, moved one
\* to the left, and with those from there on moved one to the right.
ShiftedLeft(from) ==
    [i \in Index |-> IF i \in from .. urllen - 1 THEN url[i + 1] ELSE url[i]]
ShiftedRight(from) ==
    [i \in Index |-> IF i \in from + 1 .. urllen THEN url[i - 1] ELSE url[i]]

KeyBackspace ==
    /\ cursorpos > 0
    /\ Edit([i \in Index |-> IF i \in cursorpos - 1 .. urllen - 2
                             THEN url[i + 1] ELSE url[i]],
            urllen - 1, cursorpos - 1)

\* A mistaken version: the byte before the cursor is overwritten.
DelBefore ==
    /\ 0 < cursorpos /\ cursorpos < urllen
    /\ Edit(ShiftedLeft(cursorpos - 1), urllen - 1, cursorpos)

KeyDel ==
    /\ cursorpos < urllen
    /\ Edit(ShiftedLeft(cursorpos), urllen - 1, cursorpos)

TypeChar(c) ==
    /\ urllen < maxlen - 1
    /\ Edit([ShiftedRight(cursorpos) EXCEPT ![cursorpos] = c],
            urllen + 1, cursorpos + 1)

\* ENTER, and ESC or TAB
Leave(how) ==
    /\ result = "editing"
    /\ result' = how
    /\ UNCHANGED <<url, urllen, cursorpos>>

Move == KeyHome \/ KeyEnd \/ KeyLeft \/ KeyRight
Change == KeyBackspace \/ KeyDel \/ \E c \in Typed : TypeChar(c)

-----------------------------------------------------------------------------
(* The part of the text that is drawn.                                     *)

\* A mistaken version: the end of the text is always in view.
offset_at_end ==
    IF urllen > maxdisplaylen - 1 THEN urllen - (maxdisplaylen - 1) ELSE 0

displayoffset ==
    LET atend == IF urllen > maxdisplaylen - 1
                 THEN urllen - (maxdisplaylen - 1) ELSE 0
    IN  IF atend <= cursorpos - MARGIN THEN atend
        ELSE IF cursorpos >= MARGIN THEN cursorpos - MARGIN ELSE 0

-----------------------------------------------------------------------------

\* The cursor is drawn inside of its field, on the character it stands on.
CursorInField ==
    /\ displayoffset \in 0 .. urllen
    /\ cursorpos - displayoffset \in 0 .. maxdisplaylen - 1

\* The characters from the one at from up to the one before to.
Text(from, to) == [i \in 1 .. to - from |-> url[from + i - 1]]
\* The editor is a text field of maxlen - 1 characters.
Field == INSTANCE TextField WITH
    Limit <- maxlen - 1,
    left <- Text(0, cursorpos),
    right <- Text(cursorpos, urllen)
IsTextField == Field!Spec
=============================================================================
