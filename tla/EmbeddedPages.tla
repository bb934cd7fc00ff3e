---------------------------- MODULE EmbeddedPages ----------------------------
(***************************************************************************)
(* The start page: texts packed by idocgen.c when the program is built,    *)
(* unpacked by startpg.c around the lines of the bookmarks file.  A byte   *)
(* of a packed text is what it stands for, a character or one of the       *)
(* sequences of the dictionary.                                            *)
(***************************************************************************)
EXTENDS Integers, Selection

CONSTANTS
    Dictionary,     \* gramdict
    GramLen,        \* length of its sequences, 4 in the code
    LineRoom,       \* 2 * (MAXHOSTLEN + MAXSELLEN + 8)
    NoBookmarks,    \* the line shown when there are none
    Texts, Closings,    \* what may be packed as welcome.txt and welcome2.txt
    Files,          \* bookmarks files, as sequences of lines
    Rooms,          \* values of buffer_max
    SIZE_MAX        \* the largest size_t

ASSUME EmbeddedAssumption ==
    /\ GramLen \in Nat \ {0, 1} /\ LineRoom \in Nat \ {0}
    /\ \A gram \in Dictionary : Len(gram) = GramLen
    /\ SIZE_MAX \in Nat /\ Rooms \subseteq 0 .. SIZE_MAX
    /\ Texts \cup Closings \cup {NoBookmarks} \subseteq Seq(STRING)
    /\ Files \subseteq Seq(Seq(STRING))

VARIABLES
    welcome, closing, bookmarks, buffer_max,   \* the case, which never changes
    part,       \* "welcome", "bookmarks", "closing" or "done"
    packed,     \* bytes that are still to be unpacked
    lines,      \* lines that are still to be read
    page,       \* the buffer, up to res + y
    res,        \* where the part began
    favcount,
    touched     \* ghost: bytes of the buffer that were written to

case == <<welcome, closing, bookmarks, buffer_max>>
vars == <<case, part, packed, lines, page, res, favcount, touched>>

-----------------------------------------------------------------------------
(* idocgen.c                                                               *)

Gram(text, i) == SubSeq(text, i, i + GramLen - 1)
InDictionary(text, i) == i + GramLen - 1 <= Len(text) /\ Gram(text, i) \in Dictionary

\* A mistaken version, which goes on one character behind the start of a gram.
packed_overlapping(text) ==
    LET rest[i \in 1 .. Len(text) + GramLen] ==
            IF i > Len(text) THEN <<>>
            ELSE IF InDictionary(text, i) THEN <<Gram(text, i)>> \o rest[i + 1]
            ELSE <<<<text[i]>>>> \o rest[i + 1]
    IN  rest[1]

processfile(text) ==
    LET rest[i \in 1 .. Len(text) + GramLen] ==
            IF i > Len(text) THEN <<>>
            ELSE IF InDictionary(text, i) THEN <<Gram(text, i)>> \o rest[i + GramLen]
            ELSE <<<<text[i]>>>> \o rest[i + 1]
    IN  rest[1]

-----------------------------------------------------------------------------
Init ==
    /\ welcome \in Texts /\ closing \in Closings
    /\ bookmarks \in Files /\ buffer_max \in Rooms
    /\ part = "welcome"
    /\ packed = processfile(welcome)
    /\ lines = bookmarks
    /\ page = <<>> /\ res = 0 /\ favcount = 0 /\ touched = 0

Touch(n) == touched' = IF touched < n THEN n ELSE touched

\* idoc_unpack(buffer + res, buffer_max - res, ...), whose room is a size_t.
Unpacking == part \in {"welcome", "closing"}
bufsz == (buffer_max - res) % (SIZE_MAX + 1)
y == Len(page) - res

\* The text is terminated, and the next part begins behind it.
UnpackEnds(text) ==
    /\ page' = text
    /\ Touch(Len(text) + 1)
    /\ part' = IF part = "welcome" THEN "bookmarks" ELSE "done"
    /\ packed' = <<>>
    /\ res' = Len(text)
    /\ UNCHANGED <<case, lines, favcount>>

UnpackNext(text) ==
    /\ page' = text
    /\ Touch(Len(text))
    /\ packed' = Tail(packed)
    /\ UNCHANGED <<case, part, lines, res, favcount>>

UnpackChar ==
    /\ Unpacking /\ packed # <<>> /\ Len(Head(packed)) = 1
    /\ LET text == page \o Head(packed) IN
       IF y + 2 >= bufsz THEN UnpackEnds(text) ELSE UnpackNext(text)

UnpackGram ==
    /\ Unpacking /\ packed # <<>> /\ Len(Head(packed)) = GramLen
    /\ IF y + GramLen + 1 >= bufsz THEN UnpackEnds(page)
       ELSE UnpackNext(page \o Head(packed))

AllUnpacked == Unpacking /\ packed = <<>> /\ UnpackEnds(page)

-----------------------------------------------------------------------------
(* The bookmarks.                                                          *)

Room == res + LineRoom <= buffer_max
More == lines # <<>> /\ Len(Head(lines)) < LineRoom

\* readfline() stores what it reads behind the page.
ReadLineCarelessly ==   \* a mistaken version, for which any line is one
    /\ part = "bookmarks" /\ lines # <<>>
    /\ page' = page \o Head(lines) \o <<"lf">>
    /\ res' = Len(page') /\ Touch(Len(page'))
    /\ lines' = Tail(lines) /\ favcount' = favcount + 1
    /\ UNCHANGED <<case, part, packed>>

ReadLine ==
    /\ part = "bookmarks" /\ Room /\ More
    /\ lines' = Tail(lines)
    /\ Touch(res + Len(Head(lines)) + 1)
    /\ IF Head(lines) = <<>> THEN UNCHANGED <<page, favcount>>
       ELSE /\ page' = page \o Head(lines) \o <<"lf">>
            /\ favcount' = favcount + 1
    /\ res' = Len(page')
    /\ UNCHANGED <<case, part, packed>>

\* The end of the file, a line that is too long, or no room for another one.
BookmarksEnd ==
    /\ part = "bookmarks"
    /\ ~Room \/ ~More
    /\ page' = IF favcount = 0 THEN page \o NoBookmarks ELSE page
    /\ res' = Len(page')
    /\ Touch(IF favcount = 0 THEN res' + 1 ELSE IF Room THEN res + LineRoom ELSE 0)
    /\ part' = "closing" /\ packed' = processfile(closing)
    /\ UNCHANGED <<case, lines, favcount>>

Next == UnpackChar \/ UnpackGram \/ AllUnpacked \/ ReadLine \/ BookmarksEnd

Spec == Init /\ [][Next]_vars

-----------------------------------------------------------------------------
(* Properties.                                                             *)

\* The bookmarks that are shown: those before the first line that is too long.
Shown ==
    LET long == SelectInSeq(bookmarks, LAMBDA line : Len(line) >= LineRoom)
        read == IF long = 0 THEN bookmarks ELSE SubSeq(bookmarks, 1, long - 1)
    IN  NotAmong(read, {<<>>})

ListOf(shown) ==
    IF shown = <<>> THEN NoBookmarks
    ELSE FlattenSeq([i \in DOMAIN shown |-> Append(shown[i], "lf")])

\* Nothing is lost on the way from the text files to the screen: the start page
\* is the text of welcome.txt, each bookmark on a line of its own in the order
\* of the file, and welcome2.txt, provided the buffer has room for all that and
\* the longest line.  A smaller buffer cuts the page, but never inside the list,
\* and what is there is a beginning of each of its three parts.
Whole == welcome \o ListOf(Shown) \o closing

Beginning ==
    \E n \in 0 .. Len(Shown) :
        LET list == ListOf(SubSeq(Shown, 1, n)) IN
        \E i \in 0 .. Len(welcome), j \in 0 .. Len(closing) :
            page = SubSeq(welcome, 1, i) \o list \o SubSeq(closing, 1, j)

PageIsAssembled ==
    part = "done" =>
        /\ Len(Whole) + LineRoom + 1 < buffer_max => page = Whole
        /\ Beginning

\* Beyond the buffer there are the two bytes in which main() recognises that it
\* was overrun.  No other byte is written to, provided the buffer is large
\* enough for a page without bookmarks.
StaysInBuffer ==
    Len(welcome) + Len(NoBookmarks) + 2 <= buffer_max => touched <= buffer_max + 2
=============================================================================
