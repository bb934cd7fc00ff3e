------------------------------ MODULE Bookmarks ------------------------------
(***************************************************************************)
(* The bookmarks file, line by line: keys B and DEL, and the list on the   *)
(* welcome page.  A line is its item type and the columns behind its       *)
(* description; a selector is the sequence of its parts, of which only a   *)
(* query has more than one, because a TAB stands in it.                    *)
(***************************************************************************)
EXTENDS Integers, Sequences, SequencesExt

CONSTANTS
    Locations,  \* what the user may bookmark
    Defaults,   \* the lines of bookmarkfile_createifnone()
    Files,      \* other contents the file may have at the start
    MaxBookmarks, \* bound on the lines of the file, in the guard of AddBookmark
    Lower(_),   \* host names without their case, for strcasecmp()
    TooLong(_)  \* whether a line does not fit the buffer of readfline()

NoPort == 70
Ports == {70, 80}

VARIABLES
    exists,     \* whether there is a file
    file,       \* its lines
    page,       \* the bookmarks on the welcome page, NotShown when it is left
    asked,      \* ghost: the location or line of the last key
    answer      \* ghost: what came of it

vars == <<exists, file, page, asked, answer>>

NotShown == <<[type |-> "none", columns |-> <<>>]>>

Init ==
    /\ \/ exists = FALSE /\ file = <<>>
       \/ exists = TRUE /\ file \in Files
    /\ page = NotShown
    /\ asked = <<>>
    /\ answer = "none"

\* Run once before the session begins.
bookmarkfile_createifnone ==
    /\ ~exists
    /\ exists' = TRUE /\ file' = Defaults
    /\ UNCHANGED <<page, asked, answer>>

-----------------------------------------------------------------------------
\* The columns of a line as menuline_explode() finds them.
Has(line, n) == Len(line.columns) >= n
Selector(line) == line.columns[1]
Host(line) == line.columns[2]

\* atoi() makes 0 of what is not a number.
Number(column) ==
    IF \E p \in Ports : ToString(p) = column
    THEN CHOOSE p \in Ports : ToString(p) = column ELSE 0
Port(line) == IF Has(line, 3) THEN Number(line.columns[3]) ELSE NoPort

\* readfline() takes a line that is too long for the end of the file, and so
\* do its callers: they get no further than to the line in front of it.
Legible(lines) ==
    {i \in 1 .. Len(lines) : \A j \in 1 .. i : ~TooLong(lines[j])}

\* A location is a bookmark when port, host and selector are the same; its
\* item type is not compared.  An empty line has no columns.
\*
\* A mistaken version: host names are compared with their case.
SameSpelling(line, loc) ==
    /\ Port(line) = loc.port
    /\ Has(line, 2) /\ Host(line) = loc.host
    /\ <<Selector(line)>> = loc.selector

Same(line, loc) ==
    /\ Port(line) = loc.port
    /\ Has(line, 2) /\ Lower(Host(line)) = Lower(loc.host)
    /\ <<Selector(line)>> = loc.selector

\* A mistaken version: an empty selector is left out with its TAB.
LineWithoutTab(loc) ==
    [type |-> loc.type,
     columns |-> (IF loc.selector = <<"">> THEN <<>> ELSE loc.selector) \o
                    <<loc.host, ToString(loc.port)>>]

\* What is printed.  The description ends with the selector, so the parts of
\* a query are printed into the columns twice.
LineOf(loc) ==
    [type |-> loc.type,
     columns |-> Tail(loc.selector) \o loc.selector \o
                    <<loc.host, ToString(loc.port)>>]

AlreadyThere(loc) == \E i \in Legible(file) : Same(file[i], loc)

AddBookmark(loc) ==
    /\ exists /\ Len(file) < MaxBookmarks
    /\ asked' = loc
    /\ IF AlreadyThere(loc)
       THEN answer' = "already" /\ UNCHANGED file
       ELSE answer' = "saved" /\ file' = Append(file, LineOf(loc))
    /\ UNCHANGED <<exists, page>>

-----------------------------------------------------------------------------
\* A line of the welcome page, as menu_explode() reads it: without a host
\* column the description stands for it, and port 0 is taken for 70.
Entry(line) ==
    [type |-> line.type,
     selector |-> IF Has(line, 1) THEN Selector(line) ELSE "description",
     host |-> IF Has(line, 2) THEN Host(line) ELSE "description",
     port |-> IF Port(line) = 0 THEN NoPort ELSE Port(line)]

\* What ENTER makes of it.
LeadsTo(entry) ==
    [proto |-> "gopher", type |-> entry.type, host |-> entry.host,
     port |-> entry.port, selector |-> <<entry.selector>>]

\* loadembeddedstartpage() leaves out empty lines.
Shown(lines) ==
    LET read == SubSeq(lines, 1, Cardinality(Legible(lines)))
        full == SelectSeq(read, LAMBDA l : l.type # "empty")
    IN  [i \in 1 .. Len(full) |-> Entry(full[i])]

ShowWelcome ==
    /\ exists
    /\ page' = Shown(file)
    /\ asked' = <<>> /\ answer' = "none"
    /\ UNCHANGED <<exists, file>>

LeaveWelcome ==
    /\ page # NotShown
    /\ page' = NotShown
    /\ asked' = <<>> /\ answer' = "none"
    /\ UNCHANGED <<exists, file>>

\* A mistaken version: host and port are enough.
AgreesServer(line, entry) ==
    /\ Port(line) = entry.port
    /\ Has(line, 2) /\ Lower(Host(line)) = Lower(entry.host)

\* delbookmark() takes the first line it reads that agrees with the entry.
Agrees(line, entry) ==
    /\ Port(line) = entry.port
    /\ Has(line, 2) /\ Lower(Host(line)) = Lower(entry.host)
    /\ Selector(line) = entry.selector

Without(lines, entry) ==
    LET hits == {i \in Legible(lines) : Agrees(lines[i], entry)}
    IN  IF hits = {} THEN lines ELSE RemoveAt(lines, Min(hits))

\* The page is refreshed afterwards.
DeleteBookmark(i) ==
    /\ page # NotShown /\ i \in 1 .. Len(page)
    /\ file' = Without(file, page[i])
    /\ page' = Shown(file')
    /\ asked' = page[i] /\ answer' = "deleted"
    /\ UNCHANGED exists

Next ==
    \/ bookmarkfile_createifnone
    \/ \E loc \in Locations : AddBookmark(loc)
    \/ ShowWelcome \/ LeaveWelcome
    \/ \E i \in 1 .. Len(page) : DeleteBookmark(i)

Spec == Init /\ [][Next]_vars

-----------------------------------------------------------------------------

\* Where the lines of the file lead to, and locations that differ in item
\* type or protocol only.
Places == [i \in 1 .. Len(file) |-> LeadsTo(Entry(file[i]))]
Similar(a, b) == a.port = b.port /\ Lower(a.host) = Lower(b.host)
                    /\ a.selector = b.selector

\* A query has a TAB in its selector and an HTTP page a protocol, of which
\* the file knows nothing: they do not read back as what they were, but they
\* must not get in the way of the others.
Plain(line) == line.type # "empty" /\ Len(line.columns) <= 3
Expressible(loc) == loc.proto = "gopher" /\ Len(loc.selector) = 1

-----------------------------------------------------------------------------
(* What the properties take for granted of the constants.                  *)

IsLocation(loc) ==
    /\ loc = [proto |-> loc.proto, type |-> loc.type, host |-> loc.host,
              port |-> loc.port, selector |-> loc.selector]
    /\ loc.type # "empty" /\ loc.host \in STRING /\ loc.port \in Ports
    /\ loc.selector \in Seq(STRING) \ {<<>>}

\* Empty lines are ignored; the others have a selector and a host, and a port
\* if it is not the usual one.
IsLine(line) ==
    \/ line.type = "empty" /\ line.columns = <<>>
    \/ /\ line.type # "empty"
       /\ Len(line.columns) \in {2, 3} /\ Port(line) # 0

\* What the program has written before, or a user who keeps to its form and
\* lists no place twice in front of the first line that is too long.
IsFile(lines) ==
    /\ lines \in Seq({lines[i] : i \in DOMAIN lines})
    /\ \A i \in 1 .. Len(lines) : IsLine(lines[i])
    /\ \A i, j \in Legible(lines) :
         Plain(lines[i]) /\ Plain(lines[j])
            /\ Similar(LeadsTo(Entry(lines[i])), LeadsTo(Entry(lines[j])))
           => i = j

ASSUME BookmarksAssumption ==
    /\ \A p, q \in Ports : ToString(p) = ToString(q) => p = q
    /\ \A loc \in Locations : IsLocation(loc)
    /\ \A lines \in Files \cup {Defaults} : IsFile(lines)

\* Hosts and selectors that were parsed fit their arrays, and a line made of
\* them the buffer.  A query may be of any length, with the host of its menu.
ASSUME LinesAssumption ==
    \A loc \in Locations : Len(loc.selector) = 1 => ~TooLong(LineOf(loc))

\* A part of a query comes to stand where other bookmarks have their port.
ASSUME QueriesAssumption ==
    \A loc \in Locations : Len(loc.selector) > 1 =>
        \A i \in 1 .. Len(loc.selector) : Number(loc.selector[i]) = 0

-----------------------------------------------------------------------------

\* gopherus.c:490: "check if not already in bookmarks": no location is saved
\* twice, whatever order of adding and deleting led here, as far as the file is
\* read.  Behind a line that is too long, which bookmarking a long query writes,
\* the same place may be added again and again.
NoDuplicates ==
    \A i, j \in Legible(file) :
        Plain(file[i]) /\ Plain(file[j]) /\ Similar(Places[i], Places[j])
           => i = j

\* gopherus.txt:22: "Bookmark current location": after B a bookmark leads to
\* the location asked for, unless a line in front of it is too long for the
\* list; and when B answers that there is one already, one leads to the same
\* selector of the same server, though perhaps as another item type.
SavedLeadsBack ==
    /\ answer = "saved" /\ Expressible(asked)
          /\ (\A i \in 1 .. Len(file) - 1 : ~TooLong(file[i]))
         => \E i \in Legible(file) : Places[i] = asked
    /\ answer = "already" => \E i \in Legible(file) : Similar(Places[i], asked)

\* gopherus.txt:23: "Delete bookmark (main screen only)": one of the lines
\* that are read goes, the one that was selected.
DeleteHits ==
    [][answer' = "deleted"
       /\ (\E i \in Legible(file) : Plain(file[i]) /\ Entry(file[i]) = asked')
       => \E i \in Legible(file) : /\ Entry(file[i]) = asked'
                                   /\ file' = RemoveAt(file, i)]_vars
=============================================================================
