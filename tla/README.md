# Gopherus in TLA+

A verification project for Gopherus, the gopher client of this repository: TLA+
modules translated from the C sources, TLC configurations that check them on
small instances, and theorems that TLAPS proves for every instance.

    tlc -config Browser.cfg MCBrowser.tla             # and so on, see "Runs"
    tlapm BrowserProofs.tla

## The system

One process, one thread. `main()` (gopherus.c) parses its arguments, then loops
for ever: it loads the head of the browsing history if it has no cached copy,
hands it to the display for its type, and does what the display orders. All
concurrency is with the world outside: servers that answer in pieces, late or
never, a user who presses keys at any point, a disk and a memory allocator that
may refuse, and a clock.

| part | state | operations | source |
|---|---|---|---|
| browsing history | list of locations, each with a cached copy, its length and how it was displayed | push, pop, cleanupcache, clear | history.c |
| session loop | the head of the history, what is to be done next | load, show, save, start over, end | gopherus.c:1879-1957 |
| menu display | selected line, first line on screen, exploded lines | the keys of gopherus.txt:16-29 | gopherus.c:1062-1490 |
| text display | first and last line on screen | the same keys, paging | gopherus.c:1493-1709, wordwrap.c |
| transfer | file, socket, page buffer, counters, timers | one call of `loadfile_buff()` | gopherus.c:723-972 |
| status bar | one message | set, draw | gopherus.c:371-376, 608-620 |
| DNS cache | table of name, address, time | ask, add | dnscache.c |
| embedded pages | none (packed text in the program, bookmarks file) | unpack, insert bookmarks | startpg.c |
| bookmarks | a text file | add, delete, create | gopherus.c:488-595, 1713-1735 |
| URLs, file names, lines | none | parse, build, suggest, read | parseurl.c, gopherus.c:975-1036, readflin.c |
| line editor | text, cursor, offset | edit, accept, give up | gopherus.c:624-720 |
| configuration | colours, keys, options | parse | gopherus.c:1738-1837 |
| back ends | sockets, screen, files | connect, send, receive, draw, read keys | net/, ui/, fs/ |

How they interact: the loop calls `loadfile_buff()` for pages and for saves; that
asks the DNS cache, calls the network back end and fills the page buffer, which
the loop copies into the head of the history. The displays get the address of
the head pointer: they push locations themselves and order the loop to go back,
refresh or quit. The welcome page is built from the bookmarks file whenever it
is loaded. Everything reports through the single slot of the status bar.

What makes each part correct:

* history and loop: a display always has a page; the way back is the way that
  was gone; a query is never sent again without being asked for; memory for
  copies is bounded; embedded pages show the current bookmarks; a chain of
  failures ends;
* transfer: every one of its exits releases socket and file; nothing is
  overwritten, nothing half-written is left; what is delivered is what was sent,
  however it was cut; it ends whatever the server does;
* DNS cache: only fresh and latest addresses, the oldest forgotten first;
* displays and line editor: indices stay inside the page; bookmarks: what is
  added reads back, what is deleted is one line; URLs: build and parse agree.

What is hard to test: refused allocations in the middle of an operation, copies
that are evicted while a selection made on them survives, the answer cut at an
awkward byte or arriving at the deadline, and long sequences of keys. The list
with line numbers is under `hazards` in PROJECT.json; each names the properties
that cover it or says why none does.

## Modules

| module | models | proofs |
|---|---|---|
| `History` | history.c: one operator per function, from the old list to the new | |
| `Browser` | the loop of `main()` and what the keys do to the history | `BrowserProofs` |
| `Navigation` | abstract: a stack of visited locations, the last one on screen | `BrowserProofs` |
| `Session` | a run of the program from the command line to the exit status: the loop with a transfer of `Fetch` for every load and save | `SessionProofs` |
| `CommandLine` | the loop of `main()` over its arguments | |
| `Fetch` | one call of `loadfile_buff()` and `http_skip_headers()` | `SessionProofs` |
| `DnsCache` | dnscache.c and its use | `SessionProofs` |
| `WordWrap` | wordwrap.c, on a text without its state | |
| `MenuExplode` | `menu_explode()`, one source line and one wrapped piece at a time | `TextProofs` |
| `MenuView` | the keys of `display_menu()` that move selection and screen | `MenuViewProofs` |
| `TextFilter` | the copying and HTML stripping half of `display_text()` | `TextProofs` |
| `TextView` | the paging half of `display_text()` | `TextProofs` |
| `Bookmarks` | the bookmarks file line by line and the list on the welcome page | `BookmarksProofs` |
| `BookmarkDelete` | `delbookmark()` on the disk, chunk by chunk, with crashes | `BookmarksProofs` |
| `EmbeddedPages` | startpg.c and the packing of idocgen.c, with the limits of the buffer | `EmbeddedPagesProofs` |
| `FileNames` | `genfnamefromselector()` | `AddressesProofs` |
| `Urls` | parseurl.c: both functions, on sequences of characters | `AddressesProofs` |
| `LineEdit` | `editstring()`, key by key, on its array | `AddressesProofs` |
| `TextField` | abstract: the text to the left and to the right of a cursor | |
| `Addresses` | `edit_url()`, the following of links and the name suggested for a file, from `LineEdit`, `Urls` and `FileNames` | `AddressesProofs` |
| `Selection` | nothing of the program: the elements of a sequence that are in a set | `Induction` |
| `Induction` | nothing of the program: induction and recursion over the numbers, and facts about joined, cut and selected sequences, for the proofs | itself |

For each module that a run checks, the module with MC before its name holds the
values of the constants for TLC.

### History and Browser

The linked list is a sequence, the head first. A node has its location, its
copy, the length recorded for it (`cachesize`) and the selected line
(`displaymemory[0]`). A page is its size and the line numbers of its links:
nothing else of its text matters to the history. Hosts stand for a name and a
port, names that differ by case only are one. Item types are the four that can
be displayed and "9" for every other one.

`pc` says where the loop is: at its top, at the "Download as" prompt, inside a
display waiting for a key, or past GAMEOVER. An action is one turn of the loop
up to the next point where something is awaited: `Load` is a successful
`loadfile_buff()` followed by `history_cleanupcache()`, the copy, and the start
of the display with its selection of the first link; `LoadFails` and `CopyFails`
are its two failures, each with the pop that follows. A key is an action named
for it. `history_pop()` puts the notice on a query without a copy as part of
every pop, also the one inside `history_push()`. Each allocation may fail
if `MallocMayFail`. `asked` is a ghost: it remembers whether the user asked for
the head, so that the property about queries can be stated.

Less detailed than the code: the movement of the selection is any move between
links (`MoveSelection`); a followed link or a typed URL is any of `Targets`; a
quit is already confirmed; DEL is `Refresh` once its bookmark is gone; what the
start page contains does not depend on the bookmarks. `MaxDepth` bounds the
length of the history, in the guard of `Push` only.

`Navigation` knows no cache, no allocation and no network. `Navigates` says that
the session implements it, with the locations of the list as the stack.

### Session and CommandLine

`Session` extends `Fetch`: its variables are those of the transfer under way,
and between transfers `pc` is "idle". `Call` begins one and `Consume` ends one,
for each of the four callers of `loadfile_buff()`: the loop loads the head
(`LoadPage`, then `PageFails`, `PageArrives` or `CopyFails`), the prompt saves it
(`SaveAs`, `SaveDone`), F10 saves what is behind each link of a menu in turn
(`DownloadAll`, `DownloadLine`, `LineDone`), and `-o` saves the URL of the
command line and ends the program (`SaveOption`, `OptionDone`). Everything else
is a step of `Browser`, of which `Session` is an instance of the variables it
shares with it. `save` is what the command line says of saving, `stage` where
`main()` is, `exit` what it returned. `disk` remembers of each file name whether
the file was there before, was saved since, or was damaged.

What is not HTTP is gopher for a transfer, a telnet URL on the command line or
in the URL bar included. Names of files are chosen freely from `Names`, so that
two items of a menu, or an item and an old file, may have the same one.

`CommandLine` folds over the arguments, of which it tells five kinds apart.

`ImplementsBrowser` is the refinement: `Browser` says that a load either fails or
brings a page, and `Session` has every step of the transfer in between. With
`Navigates` of `Browser` a run of the program is a walk over visited locations.

### Fetch

One call, from `open` to `returned`; `pc` is the step of `loadfile_buff()` it is
at. Bytes of the answer are known by their rank, so that "what was sent" can be
compared with the buffer and the file byte by byte; the buffer is reused as in
the code: a file is written from its front, a page grows behind `reslength`, and
the rest that came with HTTP headers is moved to the front. A poll of the socket
finds nothing, some bytes, or the end, and up to a second may pass at it: jumps
of the clock by more are several such polls. FAIL is an operator that every
failing action ends with. The status bar is its slot: `set_statusbar()` keeps
the first message until `draw_statusbar()` empties it, so the order of messages
matters. With `-o` there is no display and the messages go to the console.
`DiskFaults` says whether the disk may refuse to create, to write, or to take
the last data when the file is closed. `got` is a ghost that counts what was
received. The network back end is modelled by its answers (net/net.h); a reset
and an orderly end are the same answer, as in net_recv(). `MaxBody` bounds how
much a server sends, in `Arrive` and `HeadersEnd`.

### DnsCache

The table, the clock, and the name being resolved; `resolved` is a ghost that
remembers the last answer of the resolver for each name. Asking and resolving
are two steps, so that time passes between them. The clock is assumed not to be
set back and to start later than `DNS_CACHETIME`: unused slots have time 0 and
count as expired. `MaxTime` bounds the clock.

### WordWrap, MenuExplode, MenuView

`wordwrap()` takes the rest of a text and a width and returns the line and what
is behind it. The code finds a line break with two searches and a copy loop; the
operators name the three places where a line can stop.

`MenuExplode` keeps the buffer, because the code does: separators and line ends
are overwritten by NUL while later lines are still to be read, and the table
holds pointers (positions) into the buffer. One action cuts a source line into
its columns, one stores a wrapped piece, then the final dot and the trailing
empty lines are taken away. `Overrun` is the state in which the code stores
behind the arrays. Characters are symbols, item types are letters of which the
code tells "i", "3", "." and everything else apart. Selector and host are kept as
offsets from the piece in `OFFSETS` (2^16) values, and what is modelled is where
`display_menu()` finds them again (`Reached`); columns are numbered in `COLIDS`
(256) values, so that of many TABs the last one with a number sets its column
(`Column`).

`MenuView` keeps of a line only whether it can be selected, and what a key does
is an operator from view to view, so that "holding a key" can be said. Lines that
were trimmed from the end still count for `lastlinkline`, as in the code. The
keys that leave the menu are actions of `Browser`. The position in a menu is kept
in the history and outlives the copy it was made on: `inherited` is the selection
found there when the menu is opened, -1 the first time, and it may be any line,
since the page may be another one by now. It may also be behind the `filled`
entries of the tables, where bytes of an earlier call, or of nothing, are found:
`leftover` is the set of those that would count as selectable, and KEY_UP stops
at them (`PrevLink`). In a menu without any link it may search on in front of the
table; `PrevLink` is -1 then, which is not on the screen.

### TextFilter, TextView

A page is a sequence of elements; words are one symbol, so that tag names are
compared whole. The filter reads a symbol per step and keeps all the flags of
the code: inside a tag, in a script, in the body, the name so far, what was
written last. Format and buffer size are rigid variables, so one run covers raw
text and HTML, with a buffer that is too small and one that is not.

`TextView` starts where the filter ends. A key changes `firstline` and draws;
drawing wraps the text from its start as the code does, and sets `eof_flag`.

### Bookmarks, BookmarkDelete

A line of the file is its item type and its columns; a selector is a sequence of
parts because a query has a TAB in it and falls apart when the line is read
again. `AddBookmark` is the search for a duplicate and the append, `DeleteBookmark` the
comparison with the line selected on the welcome page; the welcome page shows
the lines of the file as they were when it was loaded. All three read the file
with `readfline()`, to which a line too long for its buffer (`TooLong`) is the end
of the file: `Legible` are the lines in front of it. `BookmarkDelete` is the
same deletion as the disk sees it: read a chunk, write a chunk, truncate, and a
crash anywhere, also within a write.

### EmbeddedPages

The texts are packed by `processfile`, as when the program is built, and unpacked
one byte per step, so that the two limits (one for a character, one for a
sequence of the dictionary) are met anywhere. In the code a sequence has four
characters (`GramLen`); the dictionary may be any. A bookmark is read by
`readfline()` straight into the page. `touched` is a ghost, the highest byte of
the buffer that was written to, also by terminators that the next part
overwrites; the room passed on is a `size_t`, which wraps behind `SIZE_MAX`.
`NoBookmarks` is the line that says there are none.

### Urls, LineEdit, FileNames, Addresses

URLs are sequences of characters; the names of the protocols and "URL" are one
character each. `parsegopherurl` is the scan for "://", then host, port, type and
selector as the states of the parser go through them, with the lengths at which
it gives up. `buildgopherurl` is its four kinds of URL, with what is cut off at
the end of the array. The only byte that is encoded is a TAB, which queries
have. A number reads as `atoi()` does (`NumberAt`: blanks, a sign, digits), cut to
the 16 bits of a port; numbers beyond an int, which are undefined there, are left
out. `UrlOverruns` says when `snprintf()` of protocol, host and port fills the
array: what follows is written behind it, as nothing bounds the host of a link.

`LineEdit` is the array, its length and the cursor; each key shifts the array as
the loops in the code do. `TextField` knows a text as two halves; `IsTextField`
is the refinement. `Addresses` puts them together: the editor begins with the URL
of a page and what it ends with is parsed; or a link of a menu is made a URL and
parsed, for a visit or for a download. A URL that is written beyond its array
ends the call (`turn` is "overrun"), and so does a name ("nameoverrun"): what the
program does then is left open. History and display are not part of it;
`Browser` takes the location that comes out of it as any of its `Targets`.

`genfnamefromselector` is the scan for the last slash and the last dot, then the
part before the dot, cut so that the extension fits: the room for it is an
unsigned short that wraps when the extension is longer than the array (`Copied`,
`NameOverruns`). A selector that ends in a
slash is read past its end: `NamedAfter` lets it find any of the texts in
`Memory` there.

## Runs

| cfg | states | expected | shows |
|---|---|---|---|
| Browser | 66,000 | pass | shown pages have a copy, only the head is ever something to save, going to the previous page is going back, embedded pages are built anew, copies below the head stay within the budget, no query is sent behind the user's back, nothing below the head is changed, `Navigation` is implemented, and the loop settles, all under refused allocations |
| Session | 402,000 | pass | over a whole run: no transfer leaks, leaves half a file, delivers something else than a gopher server sent, changes a file that was there, or fails without a message; the transfers do what `Browser` says of loads; the user gets control back |
| DnsCache | 9,800 | pass | only latest and fresh answers, the oldest forgotten first, no lookup that a slot could have spared |
| Fetch_http | | violation | HTTP pages come too short, HTTP files have the wrong bytes |
| MenuExplode | 173,000 | pass | every link is listed once, with its own address if that is in reach, between the first and the last link line, and descriptions are shown, for LF and CR-LF |
| MenuView | 552,000 | pass | the selection is a link, or is kept from an earlier copy or found among its leftovers, and HOME and END make it one; UP and DOWN lead to the ends of a menu, DOWN from the top selects every link on screen |
| TextFilter | 614,000 | pass | raw text without TABs comes out as it is but for a final full stop, and no letter of any is lost; of HTML exactly the words of the body |
| TextView | 102,000 | pass | wrapping loses nothing and cuts only words that do not fit, the end is reached only when all was seen, page up undoes page down |
| Bookmarks | 155,000 | pass | as far as the file can be read: no duplicates, what was added reads back, DEL deletes the selected one |
| BookmarkDelete | 18,000 | pass | one line is gone and nothing else; a crash damages one other line at most |
| EmbeddedPages | 488,000 | pass | the start page is its two texts and the bookmarks between them, or beginnings of these; nothing behind the guardian bytes is written to |
| Addresses | 1,490,000 | pass | the editor is a text field, its cursor is on screen; URLs entered and links followed lead to where their own URL leads; suggested names are names of files; only over-long hosts and extensions are written beyond their arrays |

Fetch_http is a disagreement of the code with its own comment; `findings` in
PROJECT.json quotes both sides.

### Bounds

Browser: one server with a menu, a text or HTML page, and a query,
besides the two embedded pages; a page fills a third or two thirds of the cache
(`MAXALLOWEDCACHE = 3`, pages of 1 or 2), so that both keeping and evicting
happen below a head of either size; four locations are enough for a shortcut, an
eviction and an uncovered node below it in one history, and for three failures
in a row.

DnsCache: two slots and four names, one of them too long, two addresses, four
seconds around a life time of one: a full table, expiry, the last valid second
and a name that returns with another address all happen.

Session: command lines of up to three words, so that an option is complete,
incomplete, repeated, or follows a URL; a menu over gopher and a page over HTTP,
a history of two (longer ones are in Browser); two files, each there already or
not, and menus of two links, so that both items may get the same name; a buffer
of 3 bytes, headers of 2, up to 5 bytes of body: headers with and without a
rest, a buffer that is full or exactly full, and files longer than the buffer all
happen, with two polls to a timeout (one for headers). Disks refuse to create or
to write. Fetch_http has the same with a buffer of 4 and bodies of up to 6.

MenuExplode: up to four source lines out of nine kinds (one piece, two pieces with
a host that is out of reach, no description, no columns, a TAB too many,
informational, error, empty, final dot) and room for four lines in the table, so
that it fills in the middle of a menu and within a wrapped line. Offsets have 6
values and columns 3, so that both wrap. MenuView: all subsets of selectable
lines of menus of up to seven lines, on a screen with two or three of them: links
closer and farther apart than a screen, trimmed ones included, and any leftovers
behind shorter menus; each menu is opened with any selection and first line of an
earlier copy, or with none.

TextView: every text of up to six characters of two letters, space and line feed,
three columns, five rows, hence pages of two lines. TextFilter: pages of up to
four of nine raw or twelve HTML elements, with tags that have attributes, a
script, entities that are known or not; buffers of 6 and of 13 bytes are reached
by these pages or not. Names of more than `NAMELEN` characters are cut.

Bookmarks: two hosts, one in two spellings, two ports, a file with an empty line
and one in which a line that is too long stands between two others, a query that
makes such a line; at most five lines (`MaxBookmarks`, in the guard of
`AddBookmark`).
BookmarkDelete: files of up to four lines of up to four bytes, three bytes to a
chunk.

EmbeddedPages: every text of up to three (the last one, two) of two letters with
two sequences in the dictionary, every file of up to three lines, empty, of one
or two bytes, or too long (`LineRoom` is 3), and eight sizes of the buffer from
one that is smaller than the first text to one that holds everything. `SIZE_MAX` is
255, far above all of them.

Addresses: URLs of up to 15 characters in a field of four columns, where the
cursor's margin is two of them; any two changes of the text (`MaxChanges`), the
cursor anywhere in between: enough to delete or to make a colon, a slash or a
type, and to leave a byte behind the end of the text that a later insertion
shifts. Suggested names have at most three characters; the selectors they are
made of are every sequence of up to five of a letter, a slash, a dot and a
character that is replaced. Ports are the default of one protocol or of none.
Hosts of links and queries have up to 12 characters, where 3 are too long to be
parsed and 9 fill the array of a URL with a protocol and a port; selectors are in
part too long to be parsed. The array of a name has room for three characters and
the end; extensions have up to four.

### Deadlock

It is checked where a component goes on for ever: the loop and the session
(`Ended` and `Over` are the only steps of one that is over), a transfer
(`Returned`), the table, the two displays and the bookmarks. `MenuExplode`,
`TextFilter`, `BookmarkDelete`, `EmbeddedPages` and `Addresses` are single calls
that end: their runs say `CHECK_DEADLOCK FALSE`.

### Preconditions

Where the code does not do what the plain property would say, the property names
the inputs it is about, and the next section says what happens for the others:
`Usual` (MenuExplode) excludes lines without a type, empty first lines and, with LF
only, empty lines; `DescriptionsShown` also needs words that fit on a line, the first
one with a space in front of it, and an end marker that takes one line (`Fits`);
`WellFormed` (TextFilter) excludes a bare "&"; `Expressible` and `Plain`
(Bookmarks) are gopher locations other than queries, and lines that read back;
`Expressible` (Addresses) are locations that a URL can tell from every other;
`PageIsAssembled` asks for the whole page only of a buffer with room for it and
one more line, and `StaysInBuffer` for a buffer with room for a page without
bookmarks (the page buffer is far larger; the 512 bytes F10 passes are not);
`GoodName` (Addresses) says that a name is recognisable for a `Path`, a selector
without empty parts whose last part does not begin with a dot, and for an
extension that leaves room for a character in front of it; `Trimmed` (MenuView)
are links without a description at the end of a menu. `InReach` (MenuExplode) is a
line whose description is short enough for its offsets and that has no more TABs
than columns have numbers; nothing is said after `Overrun`. `NoTabs` and
`Untrimmed` (TextFilter) except TABs, backspaces and a final full stop from the
copying byte for byte. `Legible` (Bookmarks) are the lines in front of the first
one that is too long. `Expressible` (Addresses) also excludes URLs that are
written beyond or fill their array, and an unchanged URL with a host or selector
too long for the parser is refused.

### Disagreements seen while modelling

Only the first has a run of its own; the others follow from the modules as they
stand or were read in the code.

Transfers and history:
* the body bytes that come with HTTP headers are lost (gopherus.c:876, :933; run
  Fetch_http), and an answer that is only those is refused as empty (:950);
* an answer of exactly the size of the buffer is reported as truncated;
* after `-o`, or without a URL, the exit status is 0 whatever happened (:1857-1862);
* `-o=file` does not set `notui` (:1799): the transfer draws a status bar on a
  screen that was never initialised;
* F10 passes a buffer of 512 bytes (:1351): the start page does not fit, and the
  line that says there are no bookmarks is written without a check (startpg.c:63);
  what does not fit of any other item is streamed to its file as usual;
* F10 skips an item whose name exists already, also when that is another item of
  the same menu (:1356, a TODO in the code), and its messages cover each other;
* "Connection error" is lost when a progress message waits in the status bar
  (:373, :835 against :768);
* the result of `fclose()` is ignored (:957), so "Saved" may be said of a file
  whose end was lost (`"close"` in `DiskFaults`);
* all copies together may exceed `MAXALLOWEDCACHE`, by the copy of the head
  (:1899 against config.h:68);
* a query is sent again when memory for the notice is refused (history.c:36
  against :31-33);
* with memory for the copy refused every time the loop never reads a key (:1908);
* a selection survives a reload and may then be no link of the new page (:1203
  against history.txt:67-69): ENTER uses what the arrays hold at that line, and
  in a page without links KEY_UP reads in front of them (:1396). Behind the lines
  that were filled KEY_UP selects any entry an earlier call left there or that is
  0, and :1210 follows its pointers, which may never have been set, before a key
  is read;
* with `-o=file` a message is set but never drawn, and whether a file exists is
  only asked by opening it for reading (:794): one that can be written but not
  read is overwritten. `Fetch` has no such files.

Menus and texts:
* an empty first line with CR-LF becomes a link of type CR, and an empty line with
  LF only swallows the next line (:1109, :1124 against :1116);
* of a word longer than the screen the second half is lost in menus, as the NUL
  behind the first half takes the place of its next character (:1139 against
  wordwrap.c:9); the same goes for a word that fits, behind a space in the first
  column, when both together do not (wordwrap.c:14 and :26);
* wrapped pieces are stored past `maxlines` (:1137); an end marker whose text is
  wrapped is not removed (:1165 against :1163);
* PGUP and PGDOWN may leave the selection off screen (:1418), and DOWN, held, may
  then be stuck on it (:1444);
* selector and host are kept as 16-bit offsets (:1143, :1148): behind a description
  of 65536 bytes or more, for which a page has room, a link gets another selector
  and host; columns are counted in 8 bits (:1074), so that after 256 TABs the
  columns are taken again;
* END does nothing in texts (:1693 against gopherus.txt:20);
* a final full stop is removed from any text, not only a line of its own (:1601
  against :1600); a backspace byte is treated as the TAB, and TABs are dropped, so
  that the words on both sides of one become one word (:1585); bytes above 127
  are dropped from HTML (:1575); entities before the body are shown (:1567).

Bookmarks and URLs:
* queries can be bookmarked repeatedly and not deleted, as the TAB in them splits
  their line (:529, :568 against :490); an HTTP bookmark comes back as gopher
  (:529 against gopherus.txt:22); the item type is not compared (:506);
* a query that has, with the selector it is sent to, more than some 300 characters
  is bookmarked as a line that `readfline()` cannot read (:529 against
  readflin.c:19). It is the end of the file to all that read it: bookmarks behind it are not shown, can be added again and again (:498) and
  not deleted (:555);
* encoded bytes are never decoded, and those with a hexadecimal digit above 9 are
  encoded with another character (parseurl.c:159); entering the URL of a query
  unchanged asks the server for something else;
* a URL that fills its array is cut without a message, also when a link is
  followed (:1210, :1327): a long selector asks for another document;
* for a host that fills the array of a URL, which any server may send in a link,
  the rest of the URL is written behind the array (:1210, parseurl.c:144-165), as
  `snprintf()` returns what it would have written;
* for an extension longer than the array of a name the room for the part before it
  wraps to almost 2^16 and that much is copied behind the array (:1008-1012). In the
  prompt selectors were parsed, so that 16 bits count them; F10 (:1355) suggests
  names for selectors of any length;
* a suggested name loses the first character after a double slash, takes a name
  that begins with a dot for one without an extension, and after a slash at the
  end is read from behind the selector (:985);
* bookmarks that fill the page buffer exactly leave `buffer_max - res` at 0, and
  the next text is written into the two guardian bytes (startpg.c:66);
* "Invalid key name" is never reported, as the loop over the names has no `break`
  (:285);
* `utf8toint()` keeps its state between strings (:423): a sequence cut at the end
  of one makes the first character of the next a dot;
* a comment (:889) speaks of "escape or backspace" where the code tests ESC and TAB.

### Fairness

`Browser!FairSpec` has weak fairness of `Loop`: nothing in it waits for the user,
the program executes it. Keys and prompts are under no fairness. `Settles` says
that the loop comes to a page, a prompt or the end, unless memory for a copy is
refused again and again.

`FairSessionSpec` has weak fairness of `Runs`: what the program does by itself,
and in a transfer `Program`: the local steps, the polls that find nothing (a
second passes sooner or later), and the end of a connection attempt or of a name
lookup, which the operating system reports sooner or later. Nothing is assumed
of the server and the user (`Others`): a server may stay silent for ever or hold
the connection. A server that never stops sending to a file is excluded by
`MaxBody`, and in the program such a transfer does not end.

No other specification assumes fairness: what they promise is safety.

## Proofs

`BrowserProofs`: first lemmas on what each operator of `History` does to a list
(type, length, the location, copy and selection at each position), then the
inductive invariant `IInv`, one lemma per group of actions, and the theorems. The
checked properties are not inductive alone: that a shown head has a copy needs
that heads and nodes below are nodes with consistent copies; that no embedded
page below keeps a copy while a page is shown needs to know where
copies of embedded pages may be at the top of the loop. That queries are sent on
request only needs that a query below the head, uncovered without a copy, gets
its notice or sets `asked`, the ghost that also stands for a refused notice.

Its second part, the refinement, shows that the initial states map to initial
states of `Navigation` and each action to one of its steps or to none, and that
no step rewrites the history below its head. The third part is `WithinBudget`.
`CacheBudget` is not inductive: while the head has no copy, the copy of the page
below it may be the one that is over the budget; a pop makes that page the head
again, and a load drops what is too much. `Budgeted` says for both cases which sum is bounded.
The sum over the list is a recursive function; `TotalFacts` and `RestFacts` say
what it does when a node is added, removed or loses its copy, and `CleanupFits`
that `history_cleanupcache()` leaves no more than the budget.

`SessionProofs` first proves `Fetch`. `Structure` says at which steps the socket
and the file are held and that the file is the caller's own until it is opened;
with it, everything that ends at FAIL is one lemma. `Delivering` says what the
buffer and the file hold between two pieces; that `GopherExact` holds follows by
appending one piece. It assumes `"close" \notin DiskFaults`: a disk that refuses
the last bytes goes unnoticed.

Then it lifts this to a whole run. Its invariant `SInv` says that between
transfers nothing is held (`Quiet`), that during one the invariants of
`Fetch` hold with the file that `disk` had when it began (`IInv`, `Named`),
that a given-up one has said so (`Told`), and that the caller and the place of
the loop go together (`Staged`, `Loading`); each action of a transfer keeps it
because it leaves caller and history alone, and each call starts from an initial
state of `Fetch`. `DiskIsKept` follows as a transfer to an existing file fails
before it opens it. `RunBrowses` maps each return from a load to `Load`,
`LoadFails` or `CopyFails` and every other step of a transfer to none;
`RunDeliversExactly` needs `"close" \notin DiskFaults` as above.

Its last part is about `DnsCache`: a name is in one slot, what is in it is the
last answer at its time, and a name that is in none is older than everything in
the table (`DnsInv`). That `NoNeedlessLookup` follows is a counting argument: the
slots hold as many names at least as recent, all different.

`MenuViewProofs`: `SelectedIsLink` for menus of any length. `Sound` adds that lines
are natural numbers, and each key turns a good view into a good view
(`GoodView`), because the line it selects is the selection, or the least or
greatest of some links (`Follows`), or, for KEY_UP from behind the filled entries,
a leftover in front of it (`Strays`). That a set of lines has a least element is
the well-foundedness of the natural numbers; the greatest one is the least of
the mirrored set. `Holding`, what a key does while it is held, is a recursive
function of the number of presses. `ArrowsLeadEverywhere` follows one press at a
time: each either moves the selection or scrolls the screen, and `Ranges`, which
bounds view and menu, makes `Enough` presses enough. `NoLinkIsLeftOut` has an
invariant of the holding, `Pending`: a link that was not yet selected on the
screen is still below, and no link below the selection is above the screen.

`BookmarksProofs`: `NothingTwice` has the invariant that the plain lines of the
file lead to different places (`Distinct`), are lines that some file or some
location has (`AnyLine`). The search before an append compares with every line
that is read; what is appended behind a line that is too long is not read and
does not count. A deletion takes away a line that is read (`WithoutFacts`), and
what is read afterwards is what was read before without it.
What was added reads back (`SavedIsFound`) because columns that are printed and
cut again are the same columns (`PrintedColumns`). A deletion compares host, port
and selector; `DeletesTheSelected` needs that only the selected line agrees.
Numbers are external: `BookmarksAssumption` says that two ports are not printed
alike and that files and locations have their shapes, `LinesAssumption` that only queries make
lines that are too long, since hosts and selectors of other locations were parsed,
`QueriesAssumption` that the part of a query that comes to stand where others have their port is no port.

The second part is about `BookmarkDelete`: the disk is always a mixture, the new file up to the
write offset and the old one behind it (`Mixed`); what was read is what will be
written (`Holding`), because the read offset is ahead of the write offset by the
length of the victim (`Reading`), so no byte is overwritten before it was read.
That a mixture damages one line at most is a fact about where lines begin and
end, for lines of any length. That the lines joined are the bytes of the file
(`FlattenRecursion` and what follows) is induction over the number of lines.

`AddressesProofs` has three parts.
* Names: the scan of a selector, a fold, is a recursive function (`ScansOf`); by
  induction over what was scanned it finds the last slash and the last dot behind
  it. `NamesAreGood` follows for selectors and arrays of any length, extensions
  that overrun the array included (`OverrunsByExtension`).
* URLs: `RoundTrip` says that `parsegopherurl()` reads back what
  `buildgopherurl()` prints of every `Expressible` location, or gives up when a
  part is too long for its array; a URL is written beyond its array only for a host
  that could not be parsed (`OverrunIsLong`). Its lemmas follow the printing: a decimal number
  reads back (`PortReadsBack`, by induction over its digits), an encoded selector
  without a TAB is the selector and fits (`EncodedFits`), and a cut at the first
  mark finds the mark that was put there (`CutAtPath`). What is parsed can be
  expressed again (`ParsedIsNameable`).
* The editor: in the array the text ends before the array does and has no NUL
  (`Sound`). Lemmas about parts of an array (`PartsJoin`, `PartFirst`, `PartLast`,
  `SamePart`) say what shifting bytes does to the text on each side of the
  cursor; then each key is one step of `TextField`. To carry the round trip
  through a session, `Shown` says that an unchanged text is the URL of its page
  and `Led` that where the user is led is what the text was parsed into.

`TextProofs` is about both halves of `display_text()` and about `menu_explode()`.
* The copying: `FilterInv` says what is in the buffer after each byte, for a page of
  any elements that `TextFilterAssumption` allows. Of raw text, the buffer is
  what can be seen of the bytes looked at, if no TAB or backspace is among them
  (`RawSoFarExact`), and in any case has the same letters, line feeds and dots
  (`RawSoFar`); the last step takes off the final full stop. HTML is read element by element:
  `Standing` says how far into which element the filter is and, for its kind, what
  the flags are at that point (the name collected so far, inside the script, inside
  the body); the words in the buffer are those of the elements before. There is one
  lemma for each kind of element (`TextPasses`, `TagPasses`, `ScriptPasses`,
  `EntityPasses`), which follows it from its first byte to its last;
  `CopiesTheText` follows at the end of the last element.
* The lines: one that `wordwrap()` cuts is a part of the text without its white
  space, and the rest begins behind it (`WordwrapCuts`). By induction from the end
  of the text (`WrappedRecursion`, `LinesSay`), the lines of every text have its
  visible characters in order, and the places where one character does not follow
  another directly are the same (`Gaps`): no word is split and no two are joined,
  unless a word is longer than a line or a line begins with white space
  (`LinesAreTheText`). Paging is a small invariant on top of that, `Paged`: the
  window is a page long, `eof_flag` says whether the last line is in it, and the
  lines seen are all up to the window that reached furthest. `NothingSkipped` and
  `PageUpComesBack` follow.
* The links of a menu: what the table says depends on a buffer that is still being
  overwritten, so the invariant relates the buffer to the one that was received
  (`Bytes0`). When `k` source lines were taken (`Exploded`), the buffer is unchanged
  behind them but for a CR, and in them it has lost separators and nothing else
  (`Buffered`); their columns are intact although descriptions were wrapped in
  place, and no description has become empty (`KeptLine`), or a link that has one
  would be trimmed. While the `k`-th line is wrapped, `Wrapping` says where the
  pieces begin and that no cut reaches its columns (`TurnEnd` stays in front of
  `Until`). The links in the table are those of the first `k` lines, each with the
  columns of its own line as far as they are in reach (`AllMatch`), and after the trimming a beginning of them
  that lacks nameless links only (`Matches`, `OthersNameless`). The link lines,
  `LinkLines`, are about any menu, usual or not: a link that was found is counted
  before it is in the table (`Awaited`). `ListsEveryLink` follows from both.
* The descriptions: `Described` adds that the visible characters in the table are
  those of the descriptions taken, and of the current one up to `wrapptr`, while
  behind it the buffer is what was received (`DrawnUpTo`). No string of the table
  reads on into what is still to be overwritten, as each has a NUL in front of that
  (`EndBy`). `ShowsDescriptions` follows, with one case of its own for the final
  dot, whose line is trimmed only if it is the only one of its source line.

`EmbeddedPagesProofs`: the chunks that `processfile` packs are the text
(`PackedIsText`, by induction from its end, as the local function of `processfile`
goes forward by one or by `GramLen`). One turn of `idoc_unpack()` either moves
characters from what remains to the page or drops what remains, the latter only
when there is no room (`UnpackStep`). `Parts` says of what the page consists in each part of
the work, namely a beginning of welcome.txt, the list of the bookmarks that were
read, and a beginning of welcome2.txt, and that nothing of these is missing
when the buffer is `Large`; `PageAssembled` follows. `Held` says how far the buffer
was written; it is inductive only with `res <= buffer_max` before the last part,
as otherwise the room passed on would wrap. `InBuffer` follows for a buffer with
room for a page without bookmarks.

`Induction` holds what the other proofs use of induction. The theorems of the
library take an operator as a parameter, which the provers cannot instantiate;
here they are about a set (`NatSetInduction`) or a function (`RecursionOnNat`,
`RecursionBelow`), and a proof gives them the set of the numbers for which it
holds, or the step as a function. What joining sequences (`FlattenSeq`), cutting
and selecting from them does is proved there once for all.

All theorems hold for every value of the constants that satisfies the named
assumptions of the modules (`HistoryAssumption`, `BrowserAssumption`,
`FetchAssumption`, `SessionAssumption`, `DnsAssumption`, `MenuViewAssumption`,
`BookmarksAssumption`, `LinesAssumption`, `QueriesAssumption`,
`BookmarkDeleteAssumption`, `TextFilterAssumption`, `TextViewAssumption`,
`MenuExplodeAssumption`, `EmbeddedAssumption`, `LineEditAssumption`,
`UrlsAssumption`, `AddressesAssumption`).
`TextFilterAssumption` asks that an HTML page is written with whole elements: a
byte, a tag, a script, an entity with a name short enough to be kept, or a bare "&"
(of a page with one of these the property says nothing). `TextViewAssumption`
asks for texts without the characters that the filter never lets into the display
buffer (NUL, TAB and CR), for four rows and a column; `MenuExplodeAssumption` for
source lines without the characters that end one (NUL, LF and CR), room for one line
in the table and a screen of more than four columns, as links take four for their
prefix; `EmbeddedAssumption` for sizes of the buffer that are a `size_t`. `UrlsAssumption`
says that the array of a URL has room for a host that can be parsed and 13 more
characters (config.h: 64 and 256); `AddressesAssumption` that 16 bits count a
selector that can be parsed and the array of a name, that URLs shown that fit their array are
printable, and that the character which replaces a shady one is not shady itself.
Hosts and selectors of pages and links may have any length.

Only model-checked: `Settles` and `UserGetsControl`, since liveness under
fairness is out of the prover's reach. `AnyProtocolExact`, the property of
Fetch_http, is false of this code.

## Not modelled

* The configuration file (gopherus.c:103-360): which number a key or a colour has.
  The displays are modelled from the key that `getfunckey()` returns.
* The screen (ui/), the sockets and files themselves (net/, fs/): pure input and
  output, modelled by what they may answer. Drawing (`drawstr()`, the title and
  URL bars) has no state but the status bar and the decoder of UTF-8.
* How the dictionary of the packer is chosen (idoc/grams.c), and the test
  programs, which are not part of the program.
* Vendored and packaging directories. The headers of Watt-32 alone are most of
  the lines of this repository; none of them has behaviour to model.

## Plan

Done: the loop, the transfers and the runs of the program made of both, the DNS
cache, menus, texts, embedded pages, bookmarks, URLs, names and the line editor,
with proofs of all that their runs check but liveness.

What is left, in this order:

1. Abstract specifications that are still worth stating: a set of bookmarks that
   `Bookmarks` implements, and `BookmarkDelete` when nothing crashes; a download
   that `Fetch` implements (a file that appears whole or not at all).
2. `DnsCache` inside `Session`, where the resolver is now a free choice.
3. The configuration file, as pure operators from lines to bindings.
4. The findings above that deserve a run of their own, once runs are joined.
