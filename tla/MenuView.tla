------------------------------- MODULE MenuView -------------------------------
(***************************************************************************)
(* The keys of display_menu() that move the selection and the window over  *)
(* a menu, which menu_explode() has cut into lines.  Of a line only         *)
(* matters whether it can be selected.  Lines count from 0; the arrays keep *)
(* what was trimmed from the end of the menu behind linecount, and behind    *)
(* what this menu_explode() filled the bytes that were there before.         *)
(***************************************************************************)
EXTENDS Integers, FiniteSetsExt

CONSTANTS
    Rows,       \* ui_getrowcount(): URL bar, menu and status bar
    MaxLines    \* bound on the lines of a menu, the trimmed ones included

ASSUME MenuViewAssumption ==
    /\ Rows \in Nat /\ Rows >= 4
    /\ MaxLines \in Nat

VARIABLES
    inherited,          \* the selection kept from an earlier copy, or -1
    filled,             \* entries of line_itemtype[] menu_explode() wrote
    selectable,         \* those of them isitemtypeselectable() accepts
    leftover,           \* those behind them it would accept, too: whatever
                        \* byte is there, most of them count as selectable
    linecount,
    selectedline,       \* displaymemory[0], -1 when nothing is selected
    screenlineoffset    \* displaymemory[1], the first line on the screen

vars == <<inherited, filled, selectable, leftover, linecount, selectedline,
          screenlineoffset>>

firstlinkline == IF selectable = {} THEN -1 ELSE Min(selectable)
lastlinkline == IF selectable = {} THEN -1 ELSE Max(selectable)

Height == Rows - 2
Window(off) == off .. off + Height - 1

\* The first time a menu is shown the history has no position for it.  Later
\* it has the one from the last time, though the page may have been loaded
\* anew since and may be another one.
Open ==
    /\ selectedline = IF inherited < 0 THEN firstlinkline ELSE inherited
    /\ screenlineoffset \in 0 .. MaxLines

Init ==
    /\ filled \in 0 .. MaxLines
    /\ linecount \in 0 .. filled
    /\ selectable \in SUBSET (0 .. filled - 1)
    /\ leftover \in SUBSET (filled .. MaxLines - 1)
    /\ inherited \in -1 .. MaxLines - 1
    /\ Open

\* What a key makes of the view: the selected line and the first line shown.
View(sel, off) == [sel |-> sel, off |-> off]

Up1(off) == IF off > 0 THEN off - 1 ELSE off

\* A mistaken version: the bars are counted as lines of the menu.
Down1Early(off) == IF off < linecount - Rows THEN off + 1 ELSE off
Down1(off) == IF off < linecount - (Rows - 3) THEN off + 1 ELSE off

\* KEY_HOME
Home(v) == View(IF v.sel >= 0 THEN firstlinkline ELSE v.sel, 0)

\* KEY_UP: the link before is selected if it is not above the screen, for
\* which the screen moves by one line at most.  The search takes the entries
\* as they are: from a selection behind those filled it stops at a leftover
\* byte.  In a menu without links, where only such a selection comes to this,
\* it ends at some byte in front of the table, which is not on the screen.
PrevLink(sel) == Max({l \in selectable \cup leftover : l < sel} \cup {-1})

\* A mistaken version: the screen does not follow.
UpOnScreen(v) ==
    IF v.sel > firstlinkline
    THEN LET prev == PrevLink(v.sel)
         IN  View(IF prev >= v.off THEN prev ELSE v.sel, v.off)
    ELSE View(v.sel, Up1(v.off))

Up(v) ==
    IF v.sel > firstlinkline
    THEN LET prev == PrevLink(v.sel)
             off == IF prev >= v.off THEN v.off ELSE Up1(v.off)
         IN  View(IF prev >= off THEN prev ELSE v.sel, off)
    ELSE View(v.sel, Up1(v.off))

\* KEY_PGUP: a selection that is left below the screen becomes the last link
\* of the new screen, if it has one.
PgUp(v) ==
    LET off == IF v.off >= Rows - 2 THEN v.off - (Rows - 2) ELSE 0
        shown == {l \in selectable : l \in Window(off) /\ l < linecount}
    IN  View(IF v.sel >= off + Rows - 2 /\ shown # {} THEN Max(shown)
             ELSE v.sel, off)

\* A mistaken version: the last line is taken for the last link.
EndLastLine(v) == View(IF v.sel >= 0 THEN linecount - 1 ELSE v.sel,
                       Max({linecount - (Rows - 3), 0}))

\* KEY_END
End(v) == View(IF v.sel >= 0 THEN lastlinkline ELSE v.sel,
               Max({linecount - (Rows - 3), 0}))

\* KEY_DOWN: a selection below the screen waits until the screen gets there;
\* otherwise the next link is selected if it is on the screen, for which the
\* screen moves by one line at most.
NextLink(sel) == Min({l \in selectable : l > sel})

\* A mistaken version: the next link is selected wherever it is.
DownAnywhere(v) ==
    IF v.sel < lastlinkline THEN View(NextLink(v.sel), v.off)
    ELSE View(v.sel, Down1(v.off))

Down(v) ==
    IF v.sel > v.off + Rows - 3 THEN View(v.sel, v.off + 1)
    ELSE IF v.sel < lastlinkline
    THEN LET next == NextLink(v.sel)
             off == IF next \in Window(v.off) THEN v.off ELSE Down1(v.off)
         IN  View(IF next \in Window(off) THEN next ELSE v.sel, off)
    ELSE View(v.sel, Down1(v.off))

\* KEY_PGDOWN: a selection that is left above the screen becomes the first
\* link of the new screen, if it has one.
PgDown(v) ==
    LET off == IF v.off < linecount - (Rows - 2) THEN v.off + Rows - 2
               ELSE v.off
        shown == {l \in selectable : l \in Window(off) /\ l < linecount}
    IN  View(IF v.sel < off /\ shown # {} THEN Min(shown) ELSE v.sel, off)

Press(v) ==
    /\ selectedline' = v.sel /\ screenlineoffset' = v.off
    /\ UNCHANGED <<inherited, filled, selectable, leftover, linecount>>

view == View(selectedline, screenlineoffset)

KeyHome == Press(Home(view))
KeyUp == Press(Up(view))
KeyPgUp == Press(PgUp(view))
KeyEnd == Press(End(view))
KeyDown == Press(Down(view))
KeyPgDown == Press(PgDown(view))

Next ==
    \/ KeyHome \/ KeyUp \/ KeyPgUp \/ KeyEnd \/ KeyDown \/ KeyPgDown

Spec == Init /\ [][Next]_vars

-----------------------------------------------------------------------------

\* The selection is a link or still the one inherited from an earlier copy.
\* Only if that one is behind the entries of this copy, KEY_UP may also select
\* one in front of it that was never filled.  Whatever is selected, HOME and
\* END select a link, so that ENTER and the other keys that use the selection
\* find one under it.  There is a selection as soon as the menu has a link.
SelectedIsLink ==
    /\ \/ selectedline \in selectable \cup {inherited, -1}
       \/ filled <= selectedline /\ selectedline < inherited
    /\ selectable # {} =>
         /\ selectedline >= 0
         /\ Home(view).sel \in selectable /\ End(view).sel \in selectable

\* Links that were trimmed, because they have no description, are still
\* counted by firstlinkline and lastlinkline.
Trimmed == {l \in selectable : l >= linecount}

\* n presses of the same key, and how many it takes to get everywhere.
Holding(Key(_), v) ==
    LET held[n \in Nat] == IF n = 0 THEN v ELSE Key(held[n - 1])
    IN  held
Enough == 2 * MaxLines + Rows

\* From everywhere, holding UP leads to the top of the menu and, unless the
\* selection is above it, to the first link, and holding DOWN to its last
\* line.  (DOWN need not lead to the last link: a selection that a page down
\* left above the screen is stuck when the next link is above the screen, too.)
ArrowsReachEnds ==
    LET up == Holding(Up, view)[Enough]
        down == Holding(Down, view)[Enough]
    IN  /\ firstlinkline \in 0 .. selectedline => up.sel = firstlinkline
        /\ up.off = 0
        /\ down.off + Height >= linecount

\* From the top, DOWN selects every link that has a description, each while
\* it is on the screen.
DownSelectsAll ==
    LET held == Holding(Down, Home(view))
    IN  \A l \in selectable \ Trimmed : \E n \in 0 .. Enough :
           held[n].sel = l /\ l \in Window(held[n].off)
=============================================================================
