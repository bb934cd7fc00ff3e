----------------------------- MODULE MenuExplode -----------------------------
(***************************************************************************)
(* menu_explode(): a gopher menu is cut into the lines that display_menu() *)
(* draws.  The buffer is changed in place: separators become NUL, and the  *)
(* table keeps pointers into it, so what a line says is known only when    *)
(* the whole buffer has been gone through.                                 *)
(***************************************************************************)
EXTENDS WordWrap, Selection

CONSTANTS
    SCREENW,        \* ui_getcolcount()
    MAXMENULINES,   \* maxlines
    OFFSETS,        \* 2^16: line_selector and line_host are unsigned shorts
    COLIDS,         \* 256: colid is an unsigned char
    Sources,        \* source lines, without their ends: sequences of characters
    Ends,           \* how the lines of a menu may end: sequences of characters
    MaxSources      \* bound on the number of source lines

ASSUME MenuExplodeAssumption ==
    /\ SCREENW \in Nat /\ SCREENW > 4
    /\ MAXMENULINES \in Nat \ {0}
    /\ OFFSETS \in Nat \ {0} /\ COLIDS \in Nat \ {0}
    /\ Ends \subseteq {<<LF>>, <<CR, LF>>}
    /\ Sources \subseteq Seq(STRING)
    /\ \A src \in Sources : ToSet(src) \cap {NUL, LF, CR} = {}
    /\ MaxSources \in Nat

VARIABLES
    menu,           \* ghost: the source lines, and how they end
    buf,            \* buffer
    cursor,         \* start of the next source line
    pc,             \* "line", "wrap", "dot", "trim", "done" or "overrun"
    entry,          \* the source line being wrapped: type and columns
    wrapptr, firstiteration,
    lines,          \* the first linecount elements of the line_... arrays
    firstlinkline, lastlinkline,    \* count from 0; -1 if there is none
    truncated       \* whether "Too many lines" was reported

found == <<firstlinkline, lastlinkline, truncated>>
explodevars == <<menu, buf, cursor, pc, entry, wrapptr, firstiteration, lines,
                 found>>

MenuBytes(m) == FlattenSeq([i \in 1 .. Len(m.sources) |-> m.sources[i] \o m.end])

isitemtypeselectable(type) == type \notin {"i", "3", "dot"}

NoEntry == [type |-> "i", selector |-> 0, host |-> 0, port |-> 0]

ExplodeInit ==
    /\ menu \in [sources : BoundedSeq(Sources, MaxSources), end : Ends]
    /\ buf = MenuBytes(menu)
    /\ cursor = 1 /\ pc = "line" /\ entry = NoEntry
    /\ wrapptr = 1 /\ firstiteration = TRUE
    /\ lines = <<>>
    /\ firstlinkline = -1 /\ lastlinkline = -1 /\ truncated = FALSE

-----------------------------------------------------------------------------
(* Advancing to the next source line.                                      *)

LineEnd == IF \E j \in cursor .. Len(buf) : buf[j] = LF
           THEN FirstIn(buf, cursor, {LF}) ELSE Len(buf)

\* The byte after the cursor is looked at for CR, so the first byte of the
\* buffer never is.
Separated == [j \in 1 .. Len(buf) |->
    IF \/ j \in cursor .. LineEnd /\ buf[j] \in {TAB, LF}
       \/ j \in cursor + 1 .. LineEnd + 1 /\ buf[j] = CR
    THEN NUL ELSE buf[j]]

Tabs(str, i, j) == {k \in i .. j : str[k] = TAB}

\* Where the column with this id starts, 0 if there is none.  Ids wrap around:
\* the last TAB that has the id counts.
Column(id) ==
    LET its == {j \in Tabs(buf, cursor, LineEnd) :
                  Cardinality(Tabs(buf, cursor, j - 1)) % COLIDS = id}
    IN  IF its = {} THEN 0 ELSE Max(its) + 1

ItemType == IF Separated[cursor] = NUL THEN "i" ELSE Separated[cursor]

Entry == [type |-> ItemType, selector |-> Column(0), host |-> Column(1),
          port |-> Column(2)]

LinkFound ==
    /\ firstlinkline' = IF firstlinkline < 0 THEN Len(lines) ELSE firstlinkline
    /\ lastlinkline' = Len(lines)

ExplodeLine ==
    /\ pc = "line" /\ cursor <= Len(buf) /\ Len(lines) < MAXMENULINES
    /\ entry' = Entry
    /\ buf' = Separated
    /\ wrapptr' = cursor + 1 /\ firstiteration' = TRUE
    /\ cursor' = LineEnd + 1
    /\ pc' = "wrap"
    /\ IF isitemtypeselectable(ItemType)
       THEN LinkFound
       ELSE UNCHANGED <<firstlinkline, lastlinkline>>
    /\ UNCHANGED <<menu, lines, truncated>>

TooManyLines ==
    /\ pc = "line" /\ cursor <= Len(buf) /\ Len(lines) >= MAXMENULINES
    /\ truncated' = TRUE /\ pc' = "dot"
    /\ UNCHANGED <<menu, buf, cursor, entry, wrapptr, firstiteration,
                   lines, firstlinkline, lastlinkline>>

EndOfMenu ==
    /\ pc = "line" /\ cursor > Len(buf)
    /\ pc' = "dot"
    /\ UNCHANGED <<menu, buf, cursor, entry, wrapptr, firstiteration,
                   lines, found>>

-----------------------------------------------------------------------------
(* One turn of the line-wrapping loop.                                     *)

WrapLen == IF entry.type = "i" THEN SCREENW ELSE SCREENW - 4

\* What display_menu() finds for a column: it is kept as an offset from the
\* piece, which is 0 for a column that is not there.
Reached(column) ==
    IF column = 0 THEN wrapptr ELSE wrapptr + ((column - wrapptr) % OFFSETS)

\* Later pieces of a line are marked, so that they cannot be selected.
PieceUnmarked(continued) ==
    [text |-> wrapptr, selector |-> Reached(entry.selector),
     host |-> Reached(entry.host), port |-> entry.port, type |-> entry.type,
     continued |-> FALSE]
PieceOf(continued) ==
    [text |-> wrapptr, selector |-> Reached(entry.selector),
     host |-> Reached(entry.host), port |-> entry.port, type |-> entry.type,
     continued |-> continued]

\* The piece is terminated in the buffer, where its text or the separator
\* after it was.
WrapLine ==
    LET w == wordwrap(buf, wrapptr, WrapLen)
        end == wrapptr + Len(w.line)
    IN  /\ pc = "wrap" /\ Len(lines) < MAXMENULINES
        /\ lines' = Append(lines, PieceOf(~firstiteration))
        /\ buf' = IF end <= Len(buf) THEN [buf EXCEPT ![end] = NUL] ELSE buf
        /\ IF w.next = 0 THEN pc' = "line" /\ UNCHANGED wrapptr
           ELSE wrapptr' = w.next /\ UNCHANGED pc
        /\ firstiteration' = FALSE
        /\ UNCHANGED <<menu, cursor, entry, found>>

\* The number of lines is looked at once per source line: here the arrays
\* are left, and nothing is said of what follows.
Overrun ==
    /\ pc = "wrap" /\ Len(lines) >= MAXMENULINES
    /\ pc' = "overrun"
    /\ UNCHANGED <<menu, buf, cursor, entry, wrapptr, firstiteration,
                   lines, found>>

-----------------------------------------------------------------------------
(* Trimming the end; firstlinkline and lastlinkline stay as they are.      *)

\* The string at a pointer into the buffer.
Str(ptr) == IF ptr > Len(buf) THEN <<>>
            ELSE SubSeq(buf, ptr, FirstIn(buf, ptr, {NUL}) - 1)
LastLine == lines[Len(lines)]
EndsEmpty == lines # <<>> /\ Str(LastLine.text) = <<>>

TrimDot ==
    /\ pc = "dot"
    /\ lines' = IF /\ lines # <<>>
                   /\ LastLine.type = "dot" /\ ~LastLine.continued
                THEN Front(lines) ELSE lines
    /\ pc' = "trim"
    /\ UNCHANGED <<menu, buf, cursor, entry, wrapptr, firstiteration, found>>

TrimEmpty ==
    /\ pc = "trim" /\ EndsEmpty
    /\ lines' = Front(lines)
    /\ UNCHANGED <<menu, buf, cursor, pc, entry, wrapptr, firstiteration,
                   found>>

TrimDone ==
    /\ pc = "trim" /\ ~EndsEmpty
    /\ pc' = "done"
    /\ UNCHANGED <<menu, buf, cursor, entry, wrapptr, firstiteration, lines,
                   found>>

ExplodeNext ==
    \/ ExplodeLine \/ TooManyLines \/ EndOfMenu \/ WrapLine \/ Overrun
    \/ TrimDot \/ TrimEmpty \/ TrimDone

ExplodeSpec == ExplodeInit /\ [][ExplodeNext]_explodevars

-----------------------------------------------------------------------------

Complete == pc = "done" /\ ~truncated

\* A source line as the protocol has it: a type, a description and columns.
\* Its n-th column is src[i .. j].
SourceType(src) == IF src = <<>> THEN "i" ELSE src[1]
IsColumn(src, n, i, j) ==
    /\ i \in 2 .. Len(src) + 1 /\ j \in i - 1 .. Len(src)
    /\ Cardinality(Tabs(src, 1, i - 1)) = n /\ src[i - 1] = TAB
    /\ Tabs(src, i, j) = {} /\ (j < Len(src) => src[j + 1] = TAB)
Description(src) ==
    LET cuts == Tabs(src, 1, Len(src))
    IN  SubSeq(src, 2, IF cuts = {} THEN Len(src) ELSE Min(cuts) - 1)
SourceLink(src) == isitemtypeselectable(SourceType(src))
LinksOf(sources) == FlattenSeq([i \in 1 .. Len(sources) |->
    IF SourceLink(sources[i]) THEN <<sources[i]>> ELSE <<>>])
SourceLinks == LinksOf(menu.sources)

\* The links drawn, and those that were trimmed from the end because they
\* have no description.
Selectable(l) == isitemtypeselectable(l.type) /\ ~l.continued
Links == FlattenSeq([i \in 1 .. Len(lines) |->
    IF Selectable(lines[i]) THEN <<lines[i]>> ELSE <<>>])
Nameless(src) == Description(src) = <<>>

\* What a line leads to, when it has a selector and a host.  A column is out
\* of reach when its distance to the description does not fit an offset, or
\* when the line has so many TABs that their ids wrap around.
InReach(src, i) ==
    i - 2 < OFFSETS /\ Cardinality(Tabs(src, 1, Len(src))) <= COLIDS
LeadsTo(l, src) ==
    /\ l.type = SourceType(src)
    /\ \A i \in 2 .. Len(src) + 1, j \in 1 .. Len(src) :
          InReach(src, i) =>
             /\ IsColumn(src, 1, i, j) => Str(l.selector) = SubSeq(src, i, j)
             /\ IsColumn(src, 2, i, j) => Str(l.host) = SubSeq(src, i, j)

\* What the table can be compared with: not menus with a line that has no
\* type, nor those with an empty line whose remains are taken for something
\* else.  With CR LF this is the first line, whose CR becomes an item type;
\* with LF alone it is any, whose description is the line after it.
Usual ==
    \A i \in 1 .. Len(menu.sources) :
        IF menu.sources[i] = <<>> THEN menu.end # <<LF>> /\ i > 1
        ELSE menu.sources[i][1] # TAB

\* firstlinkline and lastlinkline are the ends of the selectable lines, as
\* long as no link was trimmed: then lastlinkline is behind the table.
LinksBounded ==
    /\ \A i \in 1 .. Len(lines) :
          Selectable(lines[i]) => i - 1 \in firstlinkline .. lastlinkline
    /\ \A i \in {firstlinkline, lastlinkline} \cap 0 .. Len(lines) - 1 :
          Selectable(lines[i + 1])

\* Every link of the menu, up to where it is truncated, is in the table once,
\* in order, and leads to its own selector and host as far as they are in
\* reach, however its description was wrapped; and the keys find all of them
\* between the first and the last link.  Nothing is said of a menu whose lines
\* overrun the table.
EveryLinkListed ==
    pc = "done" =>
        /\ LinksBounded
        /\ Usual =>
             /\ Len(Links) <= Len(SourceLinks)
             /\ \A i \in 1 .. Len(Links) : LeadsTo(Links[i], SourceLinks[i])
             /\ truncated \/ \A i \in Len(Links) + 1 .. Len(SourceLinks) :
                                Nameless(SourceLinks[i])

\* No visible character of a description is lost by wrapping it, when its
\* words fit on a line, the first one with a space in front of it, and an end
\* marker takes one line.
Inked(str) == NotAmong(str, {SPACE})
ShortWords(src, width) ==
    \A i \in 1 .. Len(src) - width :
        \E j \in i .. i + width : j > 1 /\ src[j] = SPACE
IsMarker(src) == SourceType(src) = "dot"
Fits(src) ==
    /\ ShortWords(Description(src), SCREENW - 4)
    /\ IsMarker(src) => Len(Description(src)) <= SCREENW - 4
Shown == FlattenSeq([i \in 1 .. Len(lines) |-> Inked(Str(lines[i].text))])
MeantBy(sources) == FlattenSeq([i \in 1 .. Len(sources) |-> Inked(Description(sources[i]))])
Meant ==
    LET all == menu.sources
    IN  MeantBy(IF all # <<>> /\ IsMarker(Last(all)) THEN Front(all) ELSE all)
DescriptionsShown ==
    Complete /\ Usual /\ (\A i \in 1 .. Len(menu.sources) : Fits(menu.sources[i]))
        => Shown = Meant
=============================================================================
