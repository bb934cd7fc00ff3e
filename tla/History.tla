------------------------------- MODULE History -------------------------------
(***************************************************************************)
(* The browsing history of Gopherus (history.c): a linked list of visited  *)
(* locations whose head is the page the user is at.  Each node may own a   *)
(* cached copy of the page.  The list is a sequence with the head at       *)
(* position 1, and every function of history.c is an operator from the     *)
(* old list to the new one.                                                *)
(***************************************************************************)
EXTENDS Integers, Sequences

CONSTANTS
    Hosts,            \* servers the user may reach (host and port together)
    Selectors,        \* selectors the user may reach
    Pages,            \* contents a server may answer with
    StartPages,       \* contents the start page and the manual may have
    NoticeSize,       \* length of the "Query not in cache" notice
    PAGEBUFSZ,        \* largest page that can be loaded
    MAXALLOWEDCACHE   \* how much the history may keep cached

-----------------------------------------------------------------------------
(* Locations.  Two hosts that differ by the case of letters only are one   *)
(* element of Hosts, as strcasecmp() makes them.                           *)

Displayable == {"0", "1", "7", "h"}   \* texts, menus, query results, HTML
Menus       == {"1", "7"}
ItemTypes   == Displayable \cup {"9"} \* "9" stands for every other type
Protocols   == {"gopher", "http", "telnet"}
EmbeddedHosts == {"#welcome", "#manual"}

Location == [proto : Protocols, host : Hosts \cup EmbeddedHosts,
             type : ItemTypes, sel : Selectors \cup {""}]

Embedded(loc) == loc.host \in EmbeddedHosts

Welcome == [proto |-> "gopher", host |-> "#welcome", type |-> "1", sel |-> ""]
Manual  == [proto |-> "gopher", host |-> "#manual", type |-> "0", sel |-> ""]

\* What "save as" asks for, and the main menu of a location's server.
AsFile(loc)   == [loc EXCEPT !.type = "9"]
MainMenu(loc) == [loc EXCEPT !.proto = "gopher", !.type = "1", !.sel = ""]

-----------------------------------------------------------------------------
(* Nodes.  A page is known by its size and by the line numbers that can be *)
(* selected once it is shown as a menu.                                    *)

NoPage == [size |-> 0, links |-> {}]            \* node->cache == NULL
Notice == [size |-> NoticeSize, links |-> {}]   \* "Query not in cache"

Page == [size : 1 .. PAGEBUFSZ, links : SUBSET Nat]
NoLine == -1

Contents(loc) == IF Embedded(loc) THEN StartPages ELSE Pages

ASSUME HistoryAssumption ==
    /\ PAGEBUFSZ \in Nat \ {0}
    /\ MAXALLOWEDCACHE \in Nat
    /\ MAXALLOWEDCACHE >= PAGEBUFSZ
    /\ NoticeSize \in 1 .. PAGEBUFSZ
    /\ Pages \subseteq Page /\ StartPages \subseteq Page
    /\ Hosts \cap EmbeddedHosts = {}

\* A node records the length of its copy (0 without one) and the line that
\* is selected in it (displaymemory[0]).
NodeShape == [loc : Location, cache : Page \cup {NoPage}, cachesize : Nat,
              selected : Int]
Node == {node \in NodeShape : node.cachesize = node.cache.size}

NewNode(loc) ==
    [loc |-> loc, cache |-> NoPage, cachesize |-> 0, selected |-> NoLine]

Cached(node) == node.cache # NoPage
WithCopy(node, page, size) == [loc |-> node.loc, cache |-> page,
                               cachesize |-> size, selected |-> node.selected]

Store(node, page) == WithCopy(node, page, page.size)

Uncache(node) == WithCopy(node, NoPage, 0)

SetHead(history, node) == <<node>> \o Tail(history)

-----------------------------------------------------------------------------
(* A node that becomes the head again and is a query whose answer is no    *)
(* longer cached gets a notice instead, unless memory is exhausted (ok).   *)

\* A mistaken version.
PutNoticeNever(history, ok) == history

PutNotice(history, ok) ==
    IF history # <<>> /\ ok /\ Head(history).loc.type = "7"
                      /\ ~Cached(Head(history))
    THEN SetHead(history, Store(Head(history), Notice))
    ELSE history

history_pop(history, ok) ==
    IF history = <<>> THEN history ELSE PutNotice(Tail(history), ok)

-----------------------------------------------------------------------------
\* A mistaken version, without the shortcut.
PushNoShortcut(history, loc, ok) ==
    IF ok THEN <<NewNode(loc)>> \o history ELSE history

\* The list with loc as its head.  Going to the previous location again is
\* going back; otherwise a node is added, unless memory is exhausted.
IsPrevious(history, loc) == Len(history) > 1 /\ history[2].loc = loc

history_push(history, loc, ok) ==
    IF IsPrevious(history, loc) THEN history_pop(history, ok)
    ELSE IF ok THEN <<NewNode(loc)>> \o history
    ELSE history

-----------------------------------------------------------------------------
\* Bytes cached by the first i nodes.
Total(history, i) ==
    LET sum[n \in 0 .. Len(history)] ==
            IF n = 0 THEN 0 ELSE sum[n - 1] + history[n].cachesize
    IN sum[i]

\* Mistaken versions: one keeps the start page and the manual, the other
\* drops nothing but them.
CleanupKeepEmbedded(history) ==
    [i \in 1 .. Len(history) |->
        IF Total(history, i) > MAXALLOWEDCACHE
        THEN Uncache(history[i]) ELSE history[i]]

CleanupKeepOld(history) ==
    [i \in 1 .. Len(history) |->
        IF Embedded(history[i].loc) THEN Uncache(history[i]) ELSE history[i]]

\* Every copy past the latest MAXALLOWEDCACHE bytes is dropped (the walk
\* counts the copies it drops), and every embedded page.
history_cleanupcache(history) ==
    [i \in 1 .. Len(history) |->
        IF Total(history, i) > MAXALLOWEDCACHE \/ Embedded(history[i].loc)
        THEN Uncache(history[i]) ELSE history[i]]
=============================================================================
