---------------------------- MODULE MenuViewProofs ----------------------------
(***************************************************************************)
(* In menus of any length, on screens of any height, whatever the entries  *)
(* behind the menu hold, the selection of MenuView is a link unless it came *)
(* from an earlier copy of the menu, and the arrow keys lead everywhere.   *)
(***************************************************************************)
EXTENDS MenuView, Induction, TLAPS

(* The smallest and the largest line of a set of lines.                    *)

LEMMA MinIsFirst ==
    ASSUME NEW S, S \subseteq Nat, S # {}
    PROVE  Min(S) \in S /\ \A l \in S : Min(S) <= l
<1>1. \E m \in S : \A l \in S : m <= l
    BY LeastNumber
<1> QED BY <1>1 DEF Min

LEMMA MaxIsLast ==
    ASSUME NEW S, NEW n \in Nat, S \subseteq 0 .. n, S # {}
    PROVE  Max(S) \in S /\ \A l \in S : Max(S) >= l
<1> DEFINE Mirror == {n - l : l \in S}
<1>1. Mirror \subseteq Nat /\ Mirror # {}
    <2>1. \A l \in S : n - l \in Nat
        OBVIOUS
    <2>2. PICK l \in S : TRUE
        OBVIOUS
    <2>3. n - l \in Mirror
        OBVIOUS
    <2> QED BY <2>1, <2>3
<1>2. Min(Mirror) \in Mirror /\ \A k \in Mirror : Min(Mirror) <= k
    BY <1>1, MinIsFirst
<1>3. PICK m \in S : Min(Mirror) = n - m
    BY <1>2
<1>4. \A l \in S : n - m <= n - l
    BY <1>2, <1>3
<1>5. \A l \in S : m >= l
    BY <1>4
<1> QED BY <1>5 DEF Max
-----------------------------------------------------------------------------
(* The inductive invariant: what SelectedIsLink says of the selection, and *)
(* the shapes of the variables.                                            *)

\* The entries never filled that KEY_UP can get to.
Strays == {l \in leftover : l < inherited}

Chosen == selectable \cup {inherited, -1} \cup Strays

Sound ==
    /\ selectable \in SUBSET Nat /\ selectable \subseteq 0 .. MaxLines
    /\ leftover \in SUBSET Nat /\ leftover \subseteq 0 .. MaxLines
    /\ filled \in Nat
    /\ \A l \in selectable : l < filled
    /\ \A l \in leftover : filled <= l
    /\ linecount \in Nat
    /\ inherited \in Int /\ inherited >= -1
    /\ selectedline \in Chosen
    /\ selectable # {} => selectedline >= 0
    /\ screenlineoffset \in Nat

\* A view that may be on the screen.
GoodView(v) ==
    /\ v.sel \in Chosen
    /\ selectable # {} => v.sel >= 0
    /\ v.off \in Nat

LEMMA LinkLines ==
    ASSUME Sound, selectable # {}
    PROVE  /\ firstlinkline \in selectable /\ lastlinkline \in selectable
           /\ \A l \in selectable : firstlinkline <= l /\ l <= lastlinkline
<1>1. Min(selectable) \in selectable /\ \A l \in selectable : Min(selectable) <= l
    BY MinIsFirst DEF Sound
<1>2. Max(selectable) \in selectable /\ \A l \in selectable : Max(selectable) >= l
    BY MaxIsLast, MenuViewAssumption DEF Sound, MenuViewAssumption
<1> QED BY <1>1, <1>2 DEF firstlinkline, lastlinkline, Sound

LEMMA NoLinkLines ==
    selectable = {} => firstlinkline = -1 /\ lastlinkline = -1
BY DEF firstlinkline, lastlinkline

\* The screen moves within the natural numbers.
LEMMA ScreenMoves ==
    ASSUME Sound, NEW off \in Nat
    PROVE  Up1(off) \in Nat /\ Down1(off) \in Nat
BY DEF Up1, Down1, Sound

\* The selection stays, or it becomes a link or one of the strays, or nothing
\* where there is no link.
Follows(sel) ==
    \/ sel \in selectable \cup {selectedline} \cup Strays
    \/ selectable = {} /\ sel = -1

LEMMA FollowsSound ==
    ASSUME Sound, NEW sel, Follows(sel), NEW off \in Nat
    PROVE  GoodView(View(sel, off))
<1>1. sel \in Chosen
    BY DEF Sound, Follows, Chosen
<1>2. selectable # {} => sel >= 0
    <2>1. sel \in selectable \cup Strays => sel >= 0
        BY DEF Sound, Strays
    <2> QED BY <2>1 DEF Sound, Follows
<1>3. View(sel, off).sel = sel /\ View(sel, off).off = off
    BY DEF View
<1> QED BY <1>1, <1>2, <1>3 DEF GoodView

LEMMA FirstAndLast == Sound => Follows(firstlinkline) /\ Follows(lastlinkline)
BY LinkLines, NoLinkLines DEF Follows

LEMMA Stays == Follows(selectedline)
BY DEF Follows

LEMMA HomeSound == Sound => GoodView(Home(view))
<1> SUFFICES ASSUME Sound PROVE GoodView(Home(view))
    OBVIOUS
<1>1. CASE selectedline >= 0
    <2>1. Home(view) = View(firstlinkline, 0)
        BY <1>1 DEF Home, view, View
    <2> QED BY <2>1, FirstAndLast, FollowsSound
<1>2. CASE ~(selectedline >= 0)
    <2>1. Home(view) = View(selectedline, 0)
        BY <1>2 DEF Home, view, View
    <2> QED BY <2>1, Stays, FollowsSound
<1> QED BY <1>1, <1>2

LEMMA EndSound == Sound => GoodView(End(view))
<1> SUFFICES ASSUME Sound PROVE GoodView(End(view))
    OBVIOUS
<1> DEFINE off == Max({linecount - (Rows - 3), 0})
<1>1. off \in Nat
    <2>1. \E x \in {linecount - (Rows - 3), 0} :
            \A y \in {linecount - (Rows - 3), 0} : x >= y
        BY MenuViewAssumption DEF Sound, MenuViewAssumption
    <2>2. off \in {linecount - (Rows - 3), 0} /\ off >= 0
        BY <2>1 DEF Max
    <2> QED BY <2>2, MenuViewAssumption DEF Sound, MenuViewAssumption
<1>2. CASE selectedline >= 0
    <2>1. End(view) = View(lastlinkline, off)
        BY <1>2 DEF End, view, View
    <2> HIDE DEF off
    <2> QED BY <1>1, <2>1, FirstAndLast, FollowsSound
<1>3. CASE ~(selectedline >= 0)
    <2>1. End(view) = View(selectedline, off)
        BY <1>3 DEF End, view, View
    <2> HIDE DEF off
    <2> QED BY <1>1, <2>1, Stays, FollowsSound
<1> QED BY <1>2, <1>3

LEMMA ChosenFacts == Sound => \A l \in Chosen : l \in Int /\ l >= -1
BY DEF Sound, Chosen, Strays

\* The entry before a line that counts as selectable.
LEMMA LinkBefore ==
    ASSUME Sound, NEW sel \in Int
    PROVE  \/ /\ PrevLink(sel) = -1
              /\ \A l \in selectable \cup leftover : ~(l < sel)
           \/ /\ PrevLink(sel) \in selectable \cup leftover /\ PrevLink(sel) < sel
              /\ \A l \in selectable \cup leftover : l < sel => l <= PrevLink(sel)
<1> DEFINE Before == {l \in selectable \cup leftover : l < sel}
<1>1. CASE Before = {}
    <2>1. PrevLink(sel) = Max({-1})
        BY <1>1 DEF PrevLink
    <2>2. Max({-1}) \in {-1}
        BY DEF Max
    <2> QED BY <1>1, <2>1, <2>2
<1>2. CASE Before # {}
    <2>1. Before \subseteq 0 .. MaxLines
        BY DEF Sound
    <2>2. Max(Before) \in Before /\ \A l \in Before : Max(Before) >= l
        BY <1>2, <2>1, MaxIsLast, MenuViewAssumption DEF MenuViewAssumption
    <2>3. \E m \in Before \cup {-1} : \A l \in Before \cup {-1} : m >= l
        BY <2>1, <2>2
    <2>4. /\ PrevLink(sel) \in Before \cup {-1}
          /\ \A l \in Before \cup {-1} : PrevLink(sel) >= l
        BY <2>3 DEF Max, PrevLink
    <2>5. PICK m \in Before : TRUE
        BY <1>2
    <2>6. PrevLink(sel) # -1
        BY <2>1, <2>4, <2>5
    <2>7. PrevLink(sel) \in Before
        BY <2>4, <2>6
    <2>8. \A l \in Before : l <= PrevLink(sel)
        BY <2>1, <2>4, <2>7
    <2> QED BY <2>7, <2>8
<1> QED BY <1>1, <1>2

\* It was never filled only if the selection was inherited from a longer menu.
LEMMA PrevLinkFound ==
    ASSUME Sound, NEW sel \in Chosen
    PROVE  PrevLink(sel) \in selectable \cup Strays \cup {-1}
<1>1. sel \in Int
    BY ChosenFacts
<1>2. CASE PrevLink(sel) \in leftover /\ PrevLink(sel) < sel
    <2>1. PICK p \in leftover : p = PrevLink(sel) /\ p \in Nat /\ filled <= p /\ p < sel
        BY <1>2 DEF Sound
    <2>2. sel \notin selectable /\ sel # -1
        BY <1>1, <2>1 DEF Sound
    <2>3. sel <= inherited
        BY <2>2 DEF Chosen, Strays, Sound
    <2>4. p < inherited
        BY <1>1, <2>1, <2>3 DEF Sound
    <2> QED BY <2>1, <2>4 DEF Strays
<1> QED BY <1>1, <1>2, LinkBefore

\* A key that selects a line only if that is on the screen.
LEMMA LinkOrStays ==
    ASSUME NEW link, link \in selectable, NEW shown \in BOOLEAN
    PROVE  Follows(IF shown THEN link ELSE selectedline)
BY DEF Follows

LEMMA UpSound == Sound => GoodView(Up(view))
<1> SUFFICES ASSUME Sound PROVE GoodView(Up(view))
    OBVIOUS
<1> DEFINE prev == PrevLink(selectedline)
           off  == IF prev >= screenlineoffset THEN screenlineoffset
                   ELSE Up1(screenlineoffset)
<1>1. Up1(screenlineoffset) \in Nat
    BY ScreenMoves DEF Sound
<1>2. prev \in selectable \cup Strays \cup {-1}
    BY PrevLinkFound DEF Sound
<1>3. off \in Nat
    BY <1>1 DEF Sound
<1>4. CASE selectedline > firstlinkline
    <2>1. Up(view) = View(IF prev >= off THEN prev ELSE selectedline, off)
        BY <1>4 DEF Up, view, View
    <2>2. prev >= off => prev \in selectable \cup Strays
        <3> HIDE DEF prev, off
        <3> QED BY <1>2, <1>3
    <2>3. Follows(IF prev >= off THEN prev ELSE selectedline)
        BY <2>2 DEF Follows
    <2> HIDE DEF prev, off
    <2> QED BY <1>3, <2>1, <2>3, FollowsSound
<1>5. CASE ~(selectedline > firstlinkline)
    <2>1. Up(view) = View(selectedline, Up1(screenlineoffset))
        BY <1>5 DEF Up, view, View
    <2> QED BY <1>1, <2>1, Stays, FollowsSound
<1> QED BY <1>4, <1>5

\* The link behind a line.
LEMMA LinkAfter ==
    ASSUME Sound, NEW sel \in Int, \E l \in selectable : l > sel
    PROVE  /\ NextLink(sel) \in selectable /\ NextLink(sel) > sel
           /\ \A l \in selectable : l > sel => NextLink(sel) <= l
<1> DEFINE after == {l \in selectable : l > sel}
<1>1. after \subseteq Nat /\ after # {}
    BY DEF Sound
<1>2. Min(after) \in after /\ \A l \in after : Min(after) <= l
    BY <1>1, MinIsFirst
<1> QED BY <1>2 DEF NextLink

LEMMA NextLinkFound ==
    ASSUME Sound, selectedline < lastlinkline
    PROVE  NextLink(selectedline) \in selectable
<1>1. selectable # {} /\ selectedline \in Int
    BY NoLinkLines, ChosenFacts DEF Sound
<1>2. lastlinkline \in selectable /\ lastlinkline > selectedline
    BY <1>1, LinkLines DEF Sound
<1> QED BY <1>1, <1>2, LinkAfter

LEMMA DownSound == Sound => GoodView(Down(view))
<1> SUFFICES ASSUME Sound PROVE GoodView(Down(view))
    OBVIOUS
<1> DEFINE next == NextLink(selectedline)
           off  == IF next \in Window(screenlineoffset) THEN screenlineoffset
                   ELSE Down1(screenlineoffset)
           waits == selectedline > screenlineoffset + Rows - 3
<1>1. Down1(screenlineoffset) \in Nat /\ screenlineoffset + 1 \in Nat
    BY ScreenMoves DEF Sound
<1>2. off \in Nat
    BY <1>1 DEF Sound
<1>3. CASE waits
    <2>1. Down(view) = View(selectedline, screenlineoffset + 1)
        BY <1>3 DEF Down, view, View
    <2> QED BY <1>1, <2>1, Stays, FollowsSound
<1>4. CASE ~waits /\ selectedline < lastlinkline
    <2>1. Down(view) = View(IF next \in Window(off) THEN next ELSE selectedline, off)
        BY <1>4 DEF Down, view, View
    <2>2. next \in selectable
        BY <1>4, NextLinkFound
    <2>3. Follows(IF next \in Window(off) THEN next ELSE selectedline)
        BY <2>2 DEF Follows
    <2> HIDE DEF next, off
    <2> QED BY <1>2, <2>1, <2>3, FollowsSound
<1>5. CASE ~waits /\ ~(selectedline < lastlinkline)
    <2>1. Down(view) = View(selectedline, Down1(screenlineoffset))
        BY <1>5 DEF Down, view, View
    <2> QED BY <1>1, <2>1, Stays, FollowsSound
<1> QED BY <1>3, <1>4, <1>5

\* What a page key selects is on the new screen.
LEMMA ShownLink ==
    ASSUME Sound, NEW off \in Nat,
           {l \in selectable : l \in Window(off) /\ l < linecount} # {}
    PROVE  LET shown == {l \in selectable : l \in Window(off) /\ l < linecount}
           IN  Min(shown) \in selectable /\ Max(shown) \in selectable
<1> DEFINE shown == {l \in selectable : l \in Window(off) /\ l < linecount}
<1>1. shown \subseteq Nat /\ shown \subseteq 0 .. MaxLines
    BY DEF Sound
<1>2. Min(shown) \in shown
    BY <1>1, MinIsFirst
<1>3. Max(shown) \in shown
    BY <1>1, MaxIsLast, MenuViewAssumption DEF MenuViewAssumption
<1> QED BY <1>2, <1>3

LEMMA PgUpSound == Sound => GoodView(PgUp(view))
<1> SUFFICES ASSUME Sound PROVE GoodView(PgUp(view))
    OBVIOUS
<1> DEFINE off == IF screenlineoffset >= Rows - 2 THEN screenlineoffset - (Rows - 2)
                  ELSE 0
           shown == {l \in selectable : l \in Window(off) /\ l < linecount}
           sel == IF selectedline >= off + Rows - 2 /\ shown # {} THEN Max(shown)
                  ELSE selectedline
<1>1. off \in Nat
    BY MenuViewAssumption DEF Sound, MenuViewAssumption
<1>2. PgUp(view) = View(sel, off)
    BY DEF PgUp, view, View
<1>3. shown # {} => Max(shown) \in selectable
    <2> HIDE DEF off
    <2> QED BY <1>1, ShownLink
<1>4. Follows(sel)
    <2> HIDE DEF shown, off
    <2> QED BY <1>3 DEF Follows
<1> HIDE DEF sel, off
<1> QED BY <1>1, <1>2, <1>4, FollowsSound

LEMMA PgDownSound == Sound => GoodView(PgDown(view))
<1> SUFFICES ASSUME Sound PROVE GoodView(PgDown(view))
    OBVIOUS
<1> DEFINE off == IF screenlineoffset < linecount - (Rows - 2)
                  THEN screenlineoffset + Rows - 2 ELSE screenlineoffset
           shown == {l \in selectable : l \in Window(off) /\ l < linecount}
           sel == IF selectedline < off /\ shown # {} THEN Min(shown) ELSE selectedline
<1>1. off \in Nat
    BY MenuViewAssumption DEF Sound, MenuViewAssumption
<1>2. PgDown(view) = View(sel, off)
    BY DEF PgDown, view, View
<1>3. shown # {} => Min(shown) \in selectable
    <2> HIDE DEF off
    <2> QED BY <1>1, ShownLink
<1>4. Follows(sel)
    <2> HIDE DEF shown, off
    <2> QED BY <1>3 DEF Follows
<1> HIDE DEF sel, off
<1> QED BY <1>1, <1>2, <1>4, FollowsSound

-----------------------------------------------------------------------------
LEMMA InitSound == Init => Sound
<1> SUFFICES ASSUME Init PROVE Sound
    OBVIOUS
<1>1. /\ selectable \subseteq 0 .. MaxLines /\ linecount \in Nat
      /\ leftover \subseteq 0 .. MaxLines /\ filled \in Nat
      /\ selectable \in SUBSET Nat /\ leftover \in SUBSET Nat
      /\ \A l \in selectable : l < filled
      /\ \A l \in leftover : filled <= l
      /\ inherited \in Int /\ inherited >= -1 /\ screenlineoffset \in Nat
    BY MenuViewAssumption DEF Init, Open, MenuViewAssumption
<1>2. CASE inherited >= 0
    BY <1>1, <1>2 DEF Init, Open, Sound, Chosen
<1>3. CASE inherited < 0 /\ selectable = {}
    BY <1>1, <1>3, NoLinkLines DEF Init, Open, Sound, Chosen
<1>4. CASE inherited < 0 /\ selectable # {}
    <2>1. selectable \subseteq Nat
        BY <1>1
    <2>2. Min(selectable) \in selectable
        BY <1>4, <2>1, MinIsFirst
    <2>3. selectedline = Min(selectable)
        BY <1>4 DEF Init, Open, firstlinkline
    <2>4. selectedline \in selectable /\ selectedline >= 0
        <3>1. selectedline \in selectable
            BY <2>2, <2>3
        <3>2. selectedline \in Nat
            BY <2>1, <3>1
        <3> QED BY <3>1, <3>2
    <2>5. selectedline \in Chosen
        BY <2>4 DEF Chosen
    <2> QED BY <1>1, <2>4, <2>5 DEF Sound
<1> QED BY <1>1, <1>2, <1>3, <1>4

\* A key that shows a good view keeps the invariant.
LEMMA PressSound ==
    ASSUME Sound, NEW v, GoodView(v), Press(v)
    PROVE  Sound'
BY DEF Sound, GoodView, Press, Chosen, Strays

LEMMA NextSound == Sound /\ [Next]_vars => Sound'
<1> SUFFICES ASSUME Sound, [Next]_vars PROVE Sound'
    OBVIOUS
<1>1. CASE KeyHome
    BY <1>1, HomeSound, PressSound DEF KeyHome
<1>2. CASE KeyUp
    BY <1>2, UpSound, PressSound DEF KeyUp
<1>3. CASE KeyPgUp
    BY <1>3, PgUpSound, PressSound DEF KeyPgUp
<1>4. CASE KeyEnd
    BY <1>4, EndSound, PressSound DEF KeyEnd
<1>5. CASE KeyDown
    BY <1>5, DownSound, PressSound DEF KeyDown
<1>6. CASE KeyPgDown
    BY <1>6, PgDownSound, PressSound DEF KeyPgDown
<1>7. CASE UNCHANGED vars
    BY <1>7 DEF vars, Sound, Chosen, Strays
<1> QED BY <1>1, <1>2, <1>3, <1>4, <1>5, <1>6, <1>7 DEF Next

LEMMA SoundIsLink == Sound => SelectedIsLink
<1> SUFFICES ASSUME Sound PROVE SelectedIsLink
    OBVIOUS
<1>1. ASSUME selectable # {}
      PROVE  Home(view).sel \in selectable /\ End(view).sel \in selectable
    <2>1. selectedline >= 0
        BY <1>1 DEF Sound
    <2>2. Home(view).sel = firstlinkline /\ End(view).sel = lastlinkline
        BY <2>1 DEF Home, End, view, View
    <2> QED BY <1>1, <2>2, LinkLines
<1>2. \/ selectedline \in selectable \cup {inherited, -1}
      \/ filled <= selectedline /\ selectedline < inherited
    BY DEF Sound, Chosen, Strays
<1>3. selectable # {} => selectedline >= 0
    BY DEF Sound
<1> QED BY <1>1, <1>2, <1>3 DEF SelectedIsLink

\* Whatever keys are pressed, in any menu and from any position kept from an
\* earlier copy of it, the selection is that one or a link, or, if that one is
\* behind the entries of this menu, one in front of it that was never filled;
\* HOME and END make it a link (display_menu()).
THEOREM SelectionIsLink == Spec => []SelectedIsLink
<1>1. Spec => []Sound
    BY InitSound, NextSound, PTL DEF Spec
<1> QED BY <1>1, SoundIsLink, PTL

-----------------------------------------------------------------------------
(* Holding a key.                                                          *)

Views == [sel : Chosen, off : Nat]

LEMMA ViewFacts ==
    ASSUME Sound, NEW v \in Views
    PROVE  v.sel \in Int /\ v.sel >= -1 /\ v.off \in Nat
<1>1. v.sel \in Chosen /\ v.off \in Nat
    BY DEF Views
<1> QED BY <1>1, ChosenFacts

LEMMA ViewIsView ==
    ASSUME NEW sel \in Chosen, NEW off \in Nat
    PROVE  /\ View(sel, off) \in Views
           /\ View(sel, off).sel = sel /\ View(sel, off).off = off
BY DEF Views, View

AtTop(v) == v.off = 0 /\ (v.sel <= firstlinkline \/ selectable = {})

\* Every press of UP moves the selection or the screen, until it is at the top.
LEMMA UpMoves ==
    ASSUME Sound, NEW v \in Views
    PROVE  /\ Up(v) \in Views
           /\ firstlinkline \in 0 .. v.sel => firstlinkline \in 0 .. Up(v).sel
           /\ AtTop(v) => AtTop(Up(v))
           /\ AtTop(v) \/ Up(v).off + Up(v).sel < v.off + v.sel
<1> DEFINE prev == PrevLink(v.sel)
           off  == IF prev >= v.off THEN v.off ELSE Up1(v.off)
<1>1. v.sel \in Int /\ v.sel >= -1 /\ v.off \in Nat
      /\ v.sel \in Chosen
    BY ViewFacts DEF Views
<1>2. Up1(v.off) = IF v.off > 0 THEN v.off - 1 ELSE v.off
    BY DEF Up1
<1>3. CASE v.sel > firstlinkline /\ selectable # {}
    <2>1. firstlinkline \in selectable /\ firstlinkline \in Nat
        BY <1>3, LinkLines DEF Sound
    <2>2. prev \in selectable \cup Strays /\ prev < v.sel /\ firstlinkline <= prev
        BY <1>1, <1>3, <2>1, LinkBefore, PrevLinkFound
    <2>3. prev \in Nat
        BY <2>2 DEF Sound, Strays
    <2>4. /\ off \in Nat
          /\ off = v.off \/ (off = v.off - 1 /\ v.off > 0 /\ ~(prev >= v.off))
          /\ prev >= v.off => off = v.off
          /\ ~(prev >= v.off) => off = v.off - 1
        <3> HIDE DEF prev
        <3> QED BY <1>1, <1>2, <2>3
    <2>5. Up(v) = View(IF prev >= off THEN prev ELSE v.sel, off)
        BY <1>3 DEF Up
    <2> HIDE DEF prev, off
    <2>6. (IF prev >= off THEN prev ELSE v.sel) \in Chosen
        BY <1>1, <2>2 DEF Chosen
    <2>7. /\ Up(v) \in Views /\ Up(v).off = off
          /\ Up(v).sel = IF prev >= off THEN prev ELSE v.sel
        BY <2>4, <2>5, <2>6, ViewIsView
    <2>8. ~AtTop(v)
        BY <1>1, <1>3, <2>1 DEF AtTop
    <2>9. Up(v).off + Up(v).sel < v.off + v.sel
        BY <1>1, <2>2, <2>3, <2>4, <2>7
    <2>10. firstlinkline \in 0 .. Up(v).sel
        BY <1>1, <1>3, <2>1, <2>2, <2>3, <2>7
    <2> QED BY <2>7, <2>8, <2>9, <2>10
<1>4. CASE v.sel > firstlinkline /\ selectable = {}
    <2>1. firstlinkline = -1
        BY <1>4, NoLinkLines
    <2>2. prev \in Strays \cup {-1} /\ (prev = -1 \/ prev < v.sel)
        BY <1>1, <1>4, LinkBefore, PrevLinkFound
    <2>3. prev \in Int /\ prev >= -1
        <3>1. \A l \in Strays \cup {-1} : l \in Int /\ l >= -1
            BY DEF Strays, Sound
        <3> HIDE DEF prev
        <3> QED BY <2>2, <3>1
    <2>4. /\ off \in Nat
          /\ off = v.off \/ (off = v.off - 1 /\ v.off > 0)
          /\ prev >= v.off => off = v.off
          /\ ~(prev >= v.off) => off = Up1(v.off)
        <3> HIDE DEF prev
        <3> QED BY <1>1, <1>2, <2>3
    <2>5. Up(v) = View(IF prev >= off THEN prev ELSE v.sel, off)
        BY <1>4 DEF Up
    <2> HIDE DEF prev, off
    <2>6. (IF prev >= off THEN prev ELSE v.sel) \in Chosen
        BY <1>1, <2>2 DEF Chosen
    <2>7. /\ Up(v) \in Views /\ Up(v).off = off
          /\ Up(v).sel = IF prev >= off THEN prev ELSE v.sel
        BY <2>4, <2>5, <2>6, ViewIsView
    <2>8. AtTop(v) => AtTop(Up(v))
        BY <1>1, <1>4, <2>4, <2>7 DEF AtTop
    <2>9. AtTop(v) \/ Up(v).off + Up(v).sel < v.off + v.sel
        <3>1. CASE v.off = 0
            BY <1>4, <3>1 DEF AtTop
        <3>2. CASE v.off > 0
            BY <1>1, <1>2, <2>2, <2>3, <2>4, <2>7, <3>2
        <3> QED BY <1>1, <3>1, <3>2
    <2> QED BY <1>1, <2>1, <2>7, <2>8, <2>9
<1>5. CASE ~(v.sel > firstlinkline)
    <2>1. Up(v) = View(v.sel, Up1(v.off))
        BY <1>5 DEF Up
    <2>2. Up1(v.off) \in Nat
        BY <1>1, <1>2
    <2>3. Up(v) \in Views /\ Up(v).off = Up1(v.off) /\ Up(v).sel = v.sel
        BY <1>1, <2>1, <2>2 DEF View, Views
    <2>4. firstlinkline \in Int
        <3>1. CASE selectable = {}
            BY <3>1, NoLinkLines
        <3>2. CASE selectable # {}
            <4>1. firstlinkline \in selectable /\ selectable \subseteq Nat
                BY <3>2, LinkLines DEF Sound
            <4> QED BY <4>1
        <3> QED BY <3>1, <3>2
    <2>5. v.sel <= firstlinkline
        BY <1>1, <1>5, <2>4
    <2> QED BY <1>1, <1>2, <2>3, <2>5 DEF AtTop
<1> QED BY <1>3, <1>4, <1>5

\* Every press of DOWN moves the selection or the screen, until the last line
\* is on it.
LEMMA DownMoves ==
    ASSUME Sound, NEW v \in Views
    PROVE  /\ Down(v) \in Views
           /\ v.off + Height >= linecount => Down(v).off + Height >= linecount
           /\ \/ v.off + Height >= linecount
              \/ Down(v).off + Down(v).sel >= v.off + v.sel + 1
<1> DEFINE next == NextLink(v.sel)
           off  == IF next \in Window(v.off) THEN v.off ELSE Down1(v.off)
<1>1. /\ v.sel \in Int /\ v.sel >= -1 /\ v.off \in Nat
      /\ v.sel \in Chosen
      /\ Rows \in Nat /\ Rows >= 4 /\ linecount \in Nat
    BY ViewFacts, MenuViewAssumption DEF Views, MenuViewAssumption, Sound
<1>2. /\ Height \in Nat /\ Height = Rows - 2
      /\ Down1(v.off) \in Nat /\ Down1(v.off) >= v.off
      /\ v.off + Height < linecount => Down1(v.off) = v.off + 1
    BY <1>1 DEF Down1, Height
<1>3. CASE v.sel > v.off + Rows - 3
    <2>1. Down(v) = View(v.sel, v.off + 1) /\ v.off + 1 \in Nat
        BY <1>1, <1>3 DEF Down
    <2>2. Down(v) \in Views /\ Down(v).off = v.off + 1 /\ Down(v).sel = v.sel
        BY <1>1, <2>1 DEF View, Views
    <2> QED BY <1>1, <1>2, <2>2
<1>4. CASE ~(v.sel > v.off + Rows - 3) /\ v.sel < lastlinkline
    <2>1. next \in selectable /\ next > v.sel
        <3>1. selectable # {}
            BY <1>1, <1>4, NoLinkLines
        <3>2. lastlinkline \in selectable /\ lastlinkline > v.sel
            BY <1>1, <1>4, <3>1, LinkLines DEF Sound
        <3> QED BY <1>1, <3>2, LinkAfter
    <2>2. next \in Nat
        BY <2>1 DEF Sound
    <2>3. /\ off \in Nat /\ off >= v.off
          /\ next \in Window(off) \/ off = Down1(v.off)
        <3> HIDE DEF next
        <3> QED BY <1>1, <1>2
    <2>4. Down(v) = View(IF next \in Window(off) THEN next ELSE v.sel, off)
        BY <1>4 DEF Down
    <2> HIDE DEF next, off
    <2>5. (IF next \in Window(off) THEN next ELSE v.sel) \in Chosen
        BY <1>1, <2>1 DEF Chosen
    <2>6. /\ Down(v) \in Views /\ Down(v).off = off
          /\ Down(v).sel = IF next \in Window(off) THEN next ELSE v.sel
        BY <2>3, <2>4, <2>5, ViewIsView
    <2>7. CASE next \in Window(off)
        <3>1. Down(v).sel = next
            BY <2>6, <2>7
        <3> QED BY <1>1, <1>2, <2>1, <2>2, <2>3, <2>6, <3>1
    <2>8. CASE ~(next \in Window(off))
        <3>1. Down(v).sel = v.sel /\ Down(v).off = Down1(v.off)
            BY <2>3, <2>6, <2>8
        <3> QED BY <1>1, <1>2, <2>6, <3>1
    <2> QED BY <2>7, <2>8
<1>5. CASE ~(v.sel > v.off + Rows - 3) /\ ~(v.sel < lastlinkline)
    <2>1. Down(v) = View(v.sel, Down1(v.off))
        BY <1>5 DEF Down
    <2>2. Down(v) \in Views /\ Down(v).off = Down1(v.off) /\ Down(v).sel = v.sel
        BY <1>1, <1>2, <2>1 DEF View, Views
    <2> QED BY <1>1, <1>2, <2>2
<1> QED BY <1>3, <1>4, <1>5

\* The views while a key is held.
LEMMA HoldingUp ==
    ASSUME Sound, NEW v \in Views
    PROVE  /\ Holding(Up, v)[0] = v
           /\ \A n \in Nat : Holding(Up, v)[n + 1] = Up(Holding(Up, v)[n])
<1> DEFINE Presses(s) == [n \in Nat |-> IF n = 0 THEN v ELSE Up(s[n - 1])]
           step == [p \in Nat \X Views |-> Up(p[2])]
           chosen == CHOOSE s : s = Presses(s)
<1>1. step \in [Nat \X Views -> Views]
    BY UpMoves
<1>2. \A n \in Nat, w \in Views : step[<<n, w>>] = Up(w)
    OBVIOUS
<1>3. PICK f \in [Nat -> Views] :
        f[0] = v /\ \A n \in Nat : f[n + 1] = step[<<n, f[n]>>]
    <2> HIDE DEF step
    <2>1. Iterations(Views, v, step) # {}
        BY <1>1, RecursionOnNat
    <2> QED BY <2>1 DEF Iterations
<1> HIDE DEF step
<1>4. f = Presses(f)
    <2>1. ASSUME NEW n \in Nat
          PROVE  f[n] = IF n = 0 THEN v ELSE Up(f[n - 1])
        <3>1. CASE n = 0
            BY <1>3, <3>1
        <3>2. CASE n # 0
            <4>1. PICK m \in Nat : m = n - 1 /\ n = m + 1
                BY <3>2
            <4>2. f[m + 1] = Up(f[m])
                BY <1>2, <1>3
            <4> QED BY <3>2, <4>1, <4>2
        <3> QED BY <3>1, <3>2
    <2> QED BY <1>3, <2>1
<1>5. Presses(chosen) = chosen
    <2> HIDE DEF Presses
    <2> QED BY <1>4
<1>6. Holding(Up, v) = chosen
    BY DEF Holding
<1>7. \A n \in Nat : chosen[n] = IF n = 0 THEN v ELSE Up(chosen[n - 1])
    <2> HIDE DEF chosen
    <2> QED BY <1>5
<1> HIDE DEF chosen
<1>8. ASSUME NEW n \in Nat PROVE chosen[n + 1] = Up(chosen[n])
    <2>1. PICK m \in Nat : m = n + 1 /\ m # 0 /\ m - 1 = n
        OBVIOUS
    <2> QED BY <1>7, <2>1
<1> QED BY <1>6, <1>7, <1>8

LEMMA HoldingDown ==
    ASSUME Sound, NEW v \in Views
    PROVE  /\ Holding(Down, v)[0] = v
           /\ \A n \in Nat : Holding(Down, v)[n + 1] = Down(Holding(Down, v)[n])
<1> DEFINE Presses(s) == [n \in Nat |-> IF n = 0 THEN v ELSE Down(s[n - 1])]
           step == [p \in Nat \X Views |-> Down(p[2])]
           chosen == CHOOSE s : s = Presses(s)
<1>1. step \in [Nat \X Views -> Views]
    BY DownMoves
<1>2. \A n \in Nat, w \in Views : step[<<n, w>>] = Down(w)
    OBVIOUS
<1>3. PICK f \in [Nat -> Views] :
        f[0] = v /\ \A n \in Nat : f[n + 1] = step[<<n, f[n]>>]
    <2> HIDE DEF step
    <2>1. Iterations(Views, v, step) # {}
        BY <1>1, RecursionOnNat
    <2> QED BY <2>1 DEF Iterations
<1> HIDE DEF step
<1>4. f = Presses(f)
    <2>1. ASSUME NEW n \in Nat
          PROVE  f[n] = IF n = 0 THEN v ELSE Down(f[n - 1])
        <3>1. CASE n = 0
            BY <1>3, <3>1
        <3>2. CASE n # 0
            <4>1. PICK m \in Nat : m = n - 1 /\ n = m + 1
                BY <3>2
            <4>2. f[m + 1] = Down(f[m])
                BY <1>2, <1>3
            <4> QED BY <3>2, <4>1, <4>2
        <3> QED BY <3>1, <3>2
    <2> QED BY <1>3, <2>1
<1>5. Presses(chosen) = chosen
    <2> HIDE DEF Presses
    <2> QED BY <1>4
<1>6. Holding(Down, v) = chosen
    BY DEF Holding
<1>7. \A n \in Nat : chosen[n] = IF n = 0 THEN v ELSE Down(chosen[n - 1])
    <2> HIDE DEF chosen
    <2> QED BY <1>5
<1> HIDE DEF chosen
<1>8. ASSUME NEW n \in Nat PROVE chosen[n + 1] = Down(chosen[n])
    <2>1. PICK m \in Nat : m = n + 1 /\ m # 0 /\ m - 1 = n
        OBVIOUS
    <2> QED BY <1>7, <2>1
<1> QED BY <1>6, <1>7, <1>8

-----------------------------------------------------------------------------
(* The bounds that make Enough presses enough.                             *)

Ranges ==
    /\ linecount <= MaxLines /\ inherited <= MaxLines
    /\ screenlineoffset <= MaxLines

LEMMA InitRanges == Init => Ranges
BY MenuViewAssumption DEF Init, Open, Ranges, MenuViewAssumption

LEMMA ChosenInRange == Sound /\ Ranges => \A l \in Chosen : l <= MaxLines
BY MenuViewAssumption DEF Sound, Ranges, MenuViewAssumption, Chosen, Strays

LEMMA NextRanges == Sound /\ Ranges /\ [Next]_vars => Ranges'
<1> SUFFICES ASSUME Sound, Ranges, [Next]_vars PROVE Ranges'
    OBVIOUS
<1>1. /\ Rows \in Nat /\ Rows >= 4 /\ MaxLines \in Nat
      /\ linecount \in Nat /\ linecount <= MaxLines
      /\ screenlineoffset \in Nat /\ screenlineoffset <= MaxLines
      /\ selectedline \in Int /\ selectedline <= MaxLines
    <2>1. \A l \in Chosen : l \in Int /\ l <= MaxLines
        BY ChosenInRange, ChosenFacts
    <2> QED BY <2>1, MenuViewAssumption DEF Sound, Ranges, MenuViewAssumption
<1>2. /\ Up1(screenlineoffset) <= MaxLines /\ Down1(screenlineoffset) <= MaxLines
    BY <1>1 DEF Up1, Down1
<1>3. ASSUME NEW v, Press(v), v.off <= MaxLines PROVE Ranges'
    BY <1>3 DEF Press, Ranges
<1>4. \A s : View(s, screenlineoffset).off = screenlineoffset
    BY DEF View
<1>5. CASE KeyHome
    <2>1. Home(view).off = 0
        BY DEF Home, View
    <2> QED BY <1>1, <1>3, <1>5, <2>1 DEF KeyHome
<1>6. CASE KeyUp
    <2>1. Up(view).off \in {screenlineoffset, Up1(screenlineoffset)}
        BY DEF Up, view, View
    <2>2. Up(view).off <= MaxLines
        BY <1>1, <1>2, <2>1
    <2> QED BY <1>3, <1>6, <2>2 DEF KeyUp
<1>7. CASE KeyPgUp
    <2>1. PgUp(view).off = IF screenlineoffset >= Rows - 2
                           THEN screenlineoffset - (Rows - 2) ELSE 0
        BY DEF PgUp, view, View
    <2>2. PgUp(view).off <= MaxLines
        BY <1>1, <2>1
    <2> QED BY <1>3, <1>7, <2>2 DEF KeyPgUp
<1>8. CASE KeyEnd
    <2>1. End(view).off = Max({linecount - (Rows - 3), 0})
        BY DEF End, view, View
    <2>2. \E m \in {linecount - (Rows - 3), 0} :
            \A l \in {linecount - (Rows - 3), 0} : m >= l
        BY <1>1
    <2>3. Max({linecount - (Rows - 3), 0}) \in {linecount - (Rows - 3), 0}
        BY <2>2 DEF Max
    <2>4. End(view).off <= MaxLines
        BY <1>1, <2>1, <2>3
    <2> QED BY <1>3, <1>8, <2>4 DEF KeyEnd
<1>9. CASE KeyDown
    <2>1. \/ Down(view).off \in {screenlineoffset, Down1(screenlineoffset)}
          \/ /\ selectedline > screenlineoffset + Rows - 3
             /\ Down(view).off = screenlineoffset + 1
        BY DEF Down, view, View
    <2>2. Down(view).off <= MaxLines
        BY <1>1, <1>2, <2>1
    <2> QED BY <1>3, <1>9, <2>2 DEF KeyDown
<1>10. CASE KeyPgDown
    <2>1. PgDown(view).off = IF screenlineoffset < linecount - (Rows - 2)
                             THEN screenlineoffset + Rows - 2
                             ELSE screenlineoffset
        BY DEF PgDown, view, View
    <2>2. PgDown(view).off <= MaxLines
        BY <1>1, <2>1
    <2> QED BY <1>3, <1>10, <2>2 DEF KeyPgDown
<1>11. CASE UNCHANGED vars
    BY <1>11 DEF vars, Ranges
<1> QED BY <1>5, <1>6, <1>7, <1>8, <1>9, <1>10, <1>11 DEF Next

\* What is on the screen is a view within the bounds.
LEMMA ViewInRange ==
    ASSUME Sound, Ranges
    PROVE  /\ view \in Views /\ view.sel = selectedline /\ view.off = screenlineoffset
           /\ \A v \in Views : v.sel <= MaxLines
           /\ linecount \in Nat /\ linecount <= MaxLines
           /\ Enough \in Nat /\ Enough > 2 * MaxLines + 3
           /\ Height \in Nat /\ Height >= 2
<1>1. view \in Views /\ view.sel = selectedline /\ view.off = screenlineoffset
    BY DEF Sound, view, View, Views
<1>2. ASSUME NEW v \in Views PROVE v.sel <= MaxLines
    <2>1. \A l \in Chosen : l <= MaxLines
        BY ChosenInRange
    <2>2. v.sel \in Chosen
        BY DEF Views
    <2> QED BY <2>1, <2>2
<1>3. Enough \in Nat /\ Enough > 2 * MaxLines + 3 /\ Height \in Nat /\ Height >= 2
    BY MenuViewAssumption DEF Enough, Height, MenuViewAssumption
<1> QED BY <1>1, <1>2, <1>3 DEF Sound, Ranges

LEMMA UpReachesTop ==
    ASSUME Sound, Ranges
    PROVE  LET up == Holding(Up, view)[Enough]
           IN  /\ firstlinkline \in 0 .. selectedline => up.sel = firstlinkline
               /\ up.off = 0
<1> DEFINE held == Holding(Up, view)
           S == {n \in Nat :
                   /\ held[n] \in Views
                   /\ firstlinkline \in 0 .. selectedline
                        => firstlinkline \in 0 .. held[n].sel
                   /\ \/ AtTop(held[n])
                      \/ held[n].off + held[n].sel + n <= screenlineoffset + selectedline}
<1>1. /\ view \in Views /\ view.sel = selectedline /\ view.off = screenlineoffset
      /\ \A v \in Views : v.sel <= MaxLines
      /\ Enough \in Nat /\ Enough > 2 * MaxLines + 3 /\ MaxLines \in Nat
      /\ screenlineoffset \in Nat /\ screenlineoffset <= MaxLines
      /\ selectedline \in Int /\ selectedline <= MaxLines
    BY ViewInRange, ViewFacts, MenuViewAssumption DEF Sound, Ranges, MenuViewAssumption
<1>2. held[0] = view /\ \A n \in Nat : held[n + 1] = Up(held[n])
    BY <1>1, HoldingUp
<1> HIDE DEF held
<1>3. 0 \in S
    BY <1>1, <1>2
<1>4. ASSUME NEW n \in Nat, n \in S PROVE n + 1 \in S
    <2>1. /\ held[n] \in Views
          /\ firstlinkline \in 0 .. selectedline
               => firstlinkline \in 0 .. held[n].sel
          /\ \/ AtTop(held[n])
             \/ held[n].off + held[n].sel + n <= screenlineoffset + selectedline
        BY <1>4
    <2>2. PICK w : w = held[n + 1] /\ w = Up(held[n])
        BY <1>2
    <2>3. PICK m \in Nat : m = n + 1
        OBVIOUS
    <2>4. /\ w \in Views
          /\ firstlinkline \in 0 .. selectedline => firstlinkline \in 0 .. w.sel
          /\ AtTop(w) \/ w.off + w.sel < held[n].off + held[n].sel
        BY <2>1, <2>2, UpMoves
    <2>5. AtTop(w) \/ w.off + w.sel + m <= screenlineoffset + selectedline
        <3>1. CASE AtTop(w)
            BY <3>1
        <3>2. CASE ~AtTop(w)
            <4>1. ~AtTop(held[n])
                BY <2>1, <2>2, <3>2, UpMoves
            <4>2. /\ w.off \in Nat /\ w.sel \in Int
                  /\ held[n].off \in Nat /\ held[n].sel \in Int
                BY <2>1, <2>4, ViewFacts
            <4>3. PICK a \in Int, b \in Int :
                    a = w.off + w.sel /\ b = held[n].off + held[n].sel
                BY <4>2
            <4>4. a < b /\ b + n <= screenlineoffset + selectedline
                BY <2>1, <2>4, <3>2, <4>1, <4>3
            <4>5. a + m <= screenlineoffset + selectedline
                BY <1>1, <2>3, <4>4
            <4> QED BY <4>3, <4>5
        <3> QED BY <3>1, <3>2
    <2>6. m \in S
        BY <2>2, <2>3, <2>4, <2>5, Zenon
    <2> QED BY <2>3, <2>6
<1>5. Enough \in S
    <2> HIDE DEF S
    <2> QED BY <1>1, <1>3, <1>4, NatSetInduction
<1>6. PICK up \in Views : up = held[Enough]
    BY <1>5
<1>7. up.sel \in Int /\ up.sel >= -1 /\ up.off \in Nat
    BY <1>6, ViewFacts
<1>8. AtTop(up)
    <2>1. AtTop(up) \/ up.off + up.sel + Enough <= screenlineoffset + selectedline
        BY <1>5, <1>6
    <2> QED BY <1>1, <1>7, <2>1
<1>9. firstlinkline \in 0 .. selectedline => firstlinkline \in 0 .. up.sel
    BY <1>5, <1>6
<1>10. firstlinkline \in 0 .. selectedline => selectable # {}
    BY NoLinkLines
<1> QED BY <1>6, <1>7, <1>8, <1>9, <1>10 DEF AtTop, held

LEMMA DownReachesEnd ==
    ASSUME Sound, Ranges
    PROVE  Holding(Down, view)[Enough].off + Height >= linecount
<1> DEFINE held == Holding(Down, view)
           S == {n \in Nat :
                   /\ held[n] \in Views
                   /\ \/ held[n].off + Height >= linecount
                      \/ held[n].off + held[n].sel >= n - 1}
<1>1. /\ view \in Views /\ view.sel >= -1 /\ view.sel \in Int /\ view.off \in Nat
      /\ \A v \in Views : v.sel <= MaxLines
      /\ Enough \in Nat /\ Enough > 2 * MaxLines + 3 /\ MaxLines \in Nat
      /\ linecount \in Nat /\ linecount <= MaxLines
      /\ Height \in Nat /\ Height >= 2
    BY ViewInRange, ViewFacts, MenuViewAssumption DEF MenuViewAssumption
<1>2. held[0] = view /\ \A n \in Nat : held[n + 1] = Down(held[n])
    BY <1>1, HoldingDown
<1> HIDE DEF held
<1>3. 0 \in S
    BY <1>1, <1>2
<1>4. ASSUME NEW n \in Nat, n \in S PROVE n + 1 \in S
    <2>1. /\ held[n] \in Views
          /\ \/ held[n].off + Height >= linecount
             \/ held[n].off + held[n].sel >= n - 1
        BY <1>4
    <2>2. PICK w : w = held[n + 1] /\ w = Down(held[n])
        BY <1>2
    <2>3. PICK m \in Nat : m = n + 1
        OBVIOUS
    <2>4. /\ w \in Views
          /\ held[n].off + Height >= linecount => w.off + Height >= linecount
          /\ \/ held[n].off + Height >= linecount
             \/ w.off + w.sel >= held[n].off + held[n].sel + 1
        BY <2>1, <2>2, DownMoves
    <2>5. w.off + Height >= linecount \/ w.off + w.sel >= m - 1
        <3>1. CASE held[n].off + Height >= linecount
            BY <2>4, <3>1
        <3>2. CASE ~(held[n].off + Height >= linecount)
            <4>1. /\ w.off \in Nat /\ w.sel \in Int
                  /\ held[n].off \in Nat /\ held[n].sel \in Int
                BY <2>1, <2>4, ViewFacts
            <4>2. PICK a \in Int, b \in Int :
                    a = w.off + w.sel /\ b = held[n].off + held[n].sel
                BY <4>1
            <4>3. a >= b + 1 /\ b >= n - 1
                BY <2>1, <2>4, <3>2, <4>2
            <4>4. a >= m - 1
                BY <2>3, <4>3
            <4> QED BY <4>2, <4>4
        <3> QED BY <3>1, <3>2
    <2>6. m \in S
        BY <2>2, <2>3, <2>4, <2>5, Zenon
    <2> QED BY <2>3, <2>6
<1>5. Enough \in S
    <2> HIDE DEF S
    <2> QED BY <1>1, <1>3, <1>4, NatSetInduction
<1>6. PICK down \in Views : down = held[Enough]
    BY <1>5
<1>7. down.sel \in Int /\ down.sel <= MaxLines /\ down.off \in Nat
    BY <1>1, <1>6, ViewFacts
<1>8. down.off + Height >= linecount \/ down.off + down.sel >= Enough - 1
    BY <1>5, <1>6
<1>9. down.off + Height >= linecount
    BY <1>1, <1>7, <1>8
<1> QED BY <1>6, <1>9 DEF held

-----------------------------------------------------------------------------
(* No link is left out on the way down.                                    *)

\* While DOWN is held, a link that was not yet selected on the screen is below
\* the selection, or it is the selection, which is still below the screen; no
\* link below the selection is above the screen.
Pending(link, v, n) ==
    /\ v.sel \in selectable
    /\ \A l \in selectable : l > v.sel => l >= v.off
    /\ v.off + v.sel >= n
    /\ link > v.sel \/ (link = v.sel /\ link >= v.off + Height)

LEMMA PendingStep ==
    ASSUME Sound, NEW v \in Views, NEW link \in selectable, link < linecount,
           NEW n \in Nat, Pending(link, v, n)
    PROVE  \/ Down(v).sel = link /\ link \in Window(Down(v).off)
           \/ Pending(link, Down(v), n + 1)
<1> DEFINE next == NextLink(v.sel)
           off  == IF next \in Window(v.off) THEN v.off ELSE Down1(v.off)
<1>1. /\ v.sel \in selectable /\ v.sel \in Nat /\ v.off \in Nat
      /\ link \in Nat /\ linecount \in Nat
      /\ \A l \in selectable : l \in Nat
      /\ Rows \in Nat /\ Rows >= 4
      /\ Height \in Nat /\ Height >= 2 /\ Height = Rows - 2
    BY ViewFacts, MenuViewAssumption DEF MenuViewAssumption, Sound, Pending, Height
<1>2. /\ \A l \in selectable : l > v.sel => l >= v.off
      /\ v.off + v.sel >= n
      /\ link > v.sel \/ (link = v.sel /\ link >= v.off + Height)
    BY DEF Pending
<1>3. \A o \in Nat, l \in Nat : l \in Window(o) <=> o <= l /\ l < o + Height
    BY <1>1 DEF Window
<1>4. CASE v.sel > v.off + Rows - 3
    <2>1. PICK o \in Nat : o = v.off + 1
        BY <1>1
    <2>2. Down(v) = View(v.sel, o)
        BY <1>4, <2>1 DEF Down
    <2>3. Down(v).sel = v.sel /\ Down(v).off = o
        BY <2>2 DEF View
    <2>4. o <= v.sel /\ o + v.sel >= n + 1
        BY <1>1, <1>2, <1>4, <2>1
    <2>5. \A l \in selectable : l > v.sel => l >= o
        BY <1>1, <2>4
    <2>6. \/ link > v.sel \/ (link = v.sel /\ link >= o + Height)
          \/ link = v.sel /\ link \in Window(o)
        BY <1>1, <1>2, <1>3, <2>4
    <2> QED BY <1>1, <2>3, <2>4, <2>5, <2>6 DEF Pending
<1>5. CASE ~(v.sel > v.off + Rows - 3)
    <2>1. link > v.sel
        BY <1>1, <1>2, <1>5
    <2>2. /\ next \in selectable /\ next > v.sel /\ next <= link
          /\ \A l \in selectable : l > v.sel => next <= l
        BY <1>1, <2>1, LinkAfter
    <2>3. v.sel < lastlinkline
        <3>1. link <= lastlinkline /\ lastlinkline \in selectable
            BY LinkLines
        <3> QED BY <1>1, <2>1, <3>1
    <2>4. Down(v) = View(IF next \in Window(off) THEN next ELSE v.sel, off)
        BY <1>5, <2>3 DEF Down
    <2>5. next \in Nat /\ next >= v.off
        BY <1>1, <1>2, <2>2
    <2>6. /\ off \in Nat /\ off >= v.off /\ off <= next
          /\ off = v.off => next \in Window(off)
          /\ off # v.off => off = v.off + 1
        <3> HIDE DEF next
        <3>1. CASE next \in Window(v.off)
            BY <1>1, <2>5, <3>1
        <3>2. CASE ~(next \in Window(v.off))
            <4>1. next >= v.off + Height
                BY <1>1, <1>3, <2>5, <3>2
            <4>2. v.off < linecount - (Rows - 3)
                BY <1>1, <2>2, <2>5, <4>1
            <4>3. off = v.off + 1
                BY <3>2, <4>2 DEF Down1
            <4> QED BY <1>1, <2>5, <4>1, <4>3
        <3> QED BY <3>1, <3>2
    <2> HIDE DEF next, off
    <2>7. CASE next \in Window(off)
        <3>1. Down(v).sel = next /\ Down(v).off = off
            BY <2>4, <2>7 DEF View
        <3>2. off + next >= n + 1
            BY <1>1, <1>2, <2>2, <2>5, <2>6
        <3>3. \A l \in selectable : l > next => l >= off
            BY <1>1, <2>5, <2>6
        <3>4. link > next \/ link = next
            BY <1>1, <2>2, <2>5
        <3> QED BY <2>2, <2>7, <3>1, <3>2, <3>3, <3>4 DEF Pending
    <2>8. CASE ~(next \in Window(off))
        <3>1. Down(v).sel = v.sel /\ Down(v).off = off
            BY <2>4, <2>8 DEF View
        <3>2. off = v.off + 1
            BY <2>6, <2>8
        <3>3. off + v.sel >= n + 1
            BY <1>1, <1>2, <3>2
        <3>4. \A l \in selectable : l > v.sel => l >= off
            BY <1>1, <2>2, <2>5, <2>6
        <3> QED BY <1>1, <2>1, <3>1, <3>3, <3>4 DEF Pending
    <2> QED BY <2>7, <2>8
<1> QED BY <1>4, <1>5

LEMMA DownSelects ==
    ASSUME Sound, Ranges, NEW link \in selectable, link < linecount
    PROVE  LET held == Holding(Down, Home(view))
           IN  \E n \in 0 .. Enough :
                  held[n].sel = link /\ link \in Window(held[n].off)
<1> DEFINE held == Holding(Down, Home(view))
           Seen(n) == \E m \in 0 .. n :
                         held[m].sel = link /\ link \in Window(held[m].off)
           S == {n \in Nat : /\ held[n] \in Views
                             /\ Seen(n) \/ Pending(link, held[n], n)}
<1>1. /\ \A v \in Views : v.sel <= MaxLines
      /\ Enough \in Nat /\ Enough > 2 * MaxLines + 3 /\ MaxLines \in Nat
      /\ linecount \in Nat /\ linecount <= MaxLines
      /\ Height \in Nat /\ Height >= 2
      /\ \A l \in selectable : l \in Nat
    BY ViewInRange, MenuViewAssumption DEF MenuViewAssumption, Sound
<1>2. /\ firstlinkline \in selectable /\ firstlinkline <= link
      /\ \A l \in selectable : firstlinkline <= l
    BY LinkLines
<1>3. Home(view) = View(firstlinkline, 0)
    <2>1. selectedline >= 0
        BY DEF Sound
    <2> QED BY <2>1 DEF Home, view, View
<1>4. /\ Home(view) \in Views
      /\ Home(view).sel = firstlinkline /\ Home(view).off = 0
    BY <1>2, <1>3, ViewIsView DEF Chosen
<1>5. held[0] = Home(view) /\ \A n \in Nat : held[n + 1] = Down(held[n])
    BY <1>4, HoldingDown
<1> HIDE DEF held
<1>6. 0 \in S
    <2>1. Pending(link, held[0], 0) \/ (link = firstlinkline /\ link \in Window(0))
        BY <1>1, <1>2, <1>4, <1>5 DEF Pending, Window
    <2>2. 0 \in 0 .. 0 /\ 0 \in Nat
        OBVIOUS
    <2> QED BY <1>4, <1>5, <2>1, <2>2
<1>7. ASSUME NEW n \in Nat, n \in S PROVE n + 1 \in S
    <2>1. held[n] \in Views /\ (Seen(n) \/ Pending(link, held[n], n))
        BY <1>7
    <2>2. PICK m \in Nat : m = n + 1
        OBVIOUS
    <2>3. held[m] = Down(held[n])
        BY <1>5, <2>2
    <2>4. held[m] \in Views
        BY <2>1, <2>3, DownMoves
    <2>5. Seen(m) \/ Pending(link, held[m], m)
        <3>1. CASE Seen(n)
            <4>1. \A k \in 0 .. n : k \in 0 .. m
                BY <2>2
            <4> QED BY <3>1, <4>1
        <3>2. CASE Pending(link, held[n], n)
            <4>1. \/ held[m].sel = link /\ link \in Window(held[m].off)
                  \/ Pending(link, held[m], m)
                BY <2>1, <2>2, <2>3, <3>2, PendingStep
            <4>2. m \in 0 .. m
                BY <2>2
            <4> QED BY <4>1, <4>2
        <3> QED BY <2>1, <3>1, <3>2
    <2>6. m \in S
        BY <2>2, <2>4, <2>5
    <2> QED BY <2>2, <2>6
<1>8. Enough \in S
    <2> HIDE DEF S
    <2> QED BY <1>1, <1>6, <1>7, NatSetInduction
<1>9. ~Pending(link, held[Enough], Enough)
    <2>1. PICK v \in Views : v = held[Enough]
        BY <1>8
    <2>2. v.sel \in Int /\ v.sel <= MaxLines /\ v.off \in Nat
        BY <1>1, ViewFacts
    <2>3. ASSUME Pending(link, v, Enough) PROVE FALSE
        <3>1. link >= v.off /\ link \in Nat /\ v.off + v.sel >= Enough
            BY <1>1, <2>2, <2>3 DEF Pending
        <3> QED BY <1>1, <2>2, <3>1
    <2> QED BY <2>1, <2>3
<1>10. Seen(Enough)
    BY <1>8, <1>9
<1> QED BY <1>10 DEF held

-----------------------------------------------------------------------------
LEMMA RangesAlways == Spec => [](Sound /\ Ranges)
<1>1. Init => Sound /\ Ranges
    BY InitSound, InitRanges
<1>2. (Sound /\ Ranges) /\ [Next]_vars => (Sound /\ Ranges)'
    BY NextSound, NextRanges
<1> QED BY <1>1, <1>2, PTL DEF Spec

\* From wherever the keys have led, holding UP shows the top of the menu and,
\* if it is not below the selection, selects the first link; holding DOWN shows
\* the last line (display_menu()).
THEOREM ArrowsLeadEverywhere == Spec => []ArrowsReachEnds
<1>1. Sound /\ Ranges => ArrowsReachEnds
    BY UpReachesTop, DownReachesEnd DEF ArrowsReachEnds
<1> QED BY <1>1, RangesAlways, PTL

\* Holding DOWN from the top selects every link that has a description, while
\* it is on the screen (display_menu()).
THEOREM NoLinkIsLeftOut == Spec => []DownSelectsAll
<1>1. Sound /\ Ranges => DownSelectsAll
    <2> SUFFICES ASSUME Sound, Ranges, NEW link \in selectable \ Trimmed
                 PROVE  LET held == Holding(Down, Home(view))
                        IN  \E n \in 0 .. Enough :
                               held[n].sel = link /\ link \in Window(held[n].off)
        BY DEF DownSelectsAll
    <2>1. link < linecount
        BY DEF Sound, Trimmed
    <2> QED BY <2>1, DownSelects
<1> QED BY <1>1, RangesAlways, PTL
=============================================================================
