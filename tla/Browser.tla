------------------------------- MODULE Browser -------------------------------
(***************************************************************************)
(* The interactive session of Gopherus: the endless loop of main() that    *)
(* loads the head of the history and shows it, and what the keys of        *)
(* display_menu() and display_text() do to the history.                    *)
(*                                                                         *)
(* The loop is at one of                                                   *)
(*   "loop"    the top of for (;;), where the head is loaded or shown,     *)
(*   "prompt"  asking under what name the head is to be saved,             *)
(*   "display" inside display_menu() or display_text(), waiting for a key, *)
(*   "ended"   past GAMEOVER.                                              *)
(* What happens on the network during a load is the business of Fetch; a   *)
(* load either brings one of the Contents of the location or fails.        *)
(***************************************************************************)
EXTENDS History

CONSTANTS
    Targets,        \* locations reachable by a menu entry or a typed URL
    MallocMayFail,  \* whether small allocations and page copies may fail
    MaxDepth        \* bound on the length of the history

ASSUME BrowserAssumption ==
    /\ Targets \subseteq Location
    /\ MallocMayFail \in BOOLEAN
    /\ MaxDepth \in Nat

VARIABLES
    pc,
    history,
    asked    \* ghost: the user asked for the head and it has not been loaded
             \* since, or memory was refused for the notice put in its place

vars == <<pc, history, asked>>

MallocResult == IF MallocMayFail THEN BOOLEAN ELSE {TRUE}

Top == Head(history)
AtLoop == pc = "loop" /\ history # <<>>
InMenu == pc = "display" /\ Top.loc.type \in Menus
InText == pc = "display" /\ Top.loc.type \notin Menus

Init ==   \* at most one URL is accepted on the command line
    /\ pc = "loop"
    /\ history \in {<<>>} \cup {<<NewNode(loc)>> : loc \in Targets}
    /\ asked = TRUE

-----------------------------------------------------------------------------
(* The main loop.                                                          *)

\* An empty history starts over at the welcome page.
StartPage ==
    /\ pc = "loop" /\ history = <<>>
    /\ \E ok \in MallocResult :
         /\ history' = history_push(history, Welcome, ok)
         /\ pc' = IF ok THEN "loop" ELSE "ended"
    /\ asked' = TRUE

NeedsLoad == AtLoop /\ Top.loc.type \in Displayable /\ ~Cached(Top)

LoadFailsKept ==   \* a mistaken version, which keeps the location for later
    /\ NeedsLoad /\ ~Embedded(Top.loc)
    /\ history' = IF Len(history) = 1 THEN <<>>
                  ELSE <<history[2], history[1]>> \o SubSeq(history, 3, Len(history))
    /\ asked' = TRUE
    /\ UNCHANGED pc

\* loadfile_buff() gave up: back to the previous page.  The embedded pages
\* are unpacked from the program itself.
LoadFails ==
    /\ NeedsLoad /\ ~Embedded(Top.loc)
    /\ \E ok \in MallocResult : history' = history_pop(history, ok) /\ asked' = ~ok
    /\ UNCHANGED pc

\* The copy of the page does not fit in memory.
CopyFails ==
    /\ NeedsLoad /\ MallocMayFail
    /\ \E ok \in MallocResult :
         /\ history' = history_pop(history_cleanupcache(history), ok)
         /\ asked' = ~ok
    /\ UNCHANGED pc

\* display_menu() selects the first link of a menu where nothing is selected.
FirstLinks(links) == {l \in links : \A m \in links : l <= m}

Selections(node) ==
    IF node.loc.type \in Menus /\ node.selected < 0 /\ node.cache.links # {}
    THEN FirstLinks(node.cache.links)
    ELSE {node.selected}

Select(nodes, line) == SetHead(nodes, [Head(nodes) EXCEPT !.selected = line])

Display(nodes) ==
    /\ \E line \in Selections(Head(nodes)) : history' = Select(nodes, line)
    /\ pc' = "display"

Fill(nodes, page) == SetHead(nodes, Store(Head(nodes), page))

\* The page arrived: room is made for it, it is copied and shown.
Load ==
    /\ NeedsLoad
    /\ \E page \in Contents(Top.loc) : Display(Fill(history_cleanupcache(history), page))
    /\ asked' = FALSE

\* The head is still cached.
Show ==
    /\ AtLoop /\ Top.loc.type \in Displayable /\ Cached(Top)
    /\ Display(history)
    /\ UNCHANGED asked

\* Any other type can only be saved to a file; whatever becomes of that, the
\* location leaves the history.
AskFilename ==
    /\ AtLoop /\ Top.loc.type \notin Displayable
    /\ pc' = "prompt"
    /\ UNCHANGED <<history, asked>>

SaveOrGoHome ==   \* a mistaken version that forgets to pop
    /\ pc = "prompt"
    /\ history' = history_push(history, Welcome, TRUE)
    /\ pc' = "loop"
    /\ asked' = TRUE

SaveOrCancel ==
    /\ pc = "prompt"
    /\ \E ok \in MallocResult : history' = history_pop(history, ok) /\ asked' = ~ok
    /\ pc' = "loop"
-----------------------------------------------------------------------------
(* Keys.  A key that pushes a location leaves the display at once, whether *)
(* or not there was memory for the new node.                               *)

Push(loc) ==
    /\ IsPrevious(history, loc) \/ Len(history) < MaxDepth
    /\ \E ok \in MallocResult :
         /\ history' = history_push(history, loc, ok)
         /\ asked' = (IsPrevious(history, loc) => ~ok)
    /\ pc' = "loop"

\* TAB: a URL typed over the current one.
EditUrl(loc) == pc = "display" /\ Push(loc)

\* ENTER on the selected line of a menu; F9 there saves the target instead.
FollowLink(loc) == InMenu /\ Top.selected >= 0 /\ Push(loc)
SaveLink(loc)   == InMenu /\ Top.selected >= 0 /\ Push(AsFile(loc))

\* F9 in a text.
SaveText == InText /\ Push(AsFile(Top.loc))

\* F1, F2 and F4.
Help == pc = "display" /\ Push(Manual)
JumpHome == pc = "display" /\ Push(Welcome)
JumpMain ==
    /\ pc = "display"
    /\ Top.loc.proto = "gopher" /\ ~Embedded(Top.loc)
    /\ Push(MainMenu(Top.loc))

BackTwice ==   \* a mistaken version
    /\ pc = "display"
    /\ \E ok \in MallocResult :
         history' = history_pop(history_pop(history, ok), ok)
    /\ pc' = "loop"
    /\ asked' = FALSE

\* BACKSPACE.
Back ==
    /\ pc = "display"
    /\ \E ok \in MallocResult : history' = history_pop(history, ok) /\ asked' = ~ok
    /\ pc' = "loop"

RefreshInPlace ==   \* a mistaken version that does not leave the display
    /\ pc = "display"
    /\ history' = Select(SetHead(history, Uncache(Top)), NoLine)
    /\ asked' = TRUE
    /\ UNCHANGED pc

\* F5, and DEL on the welcome page once the bookmark is gone.  The copy and
\* the way it was displayed are forgotten.
Refresh ==
    /\ pc = "display"
    /\ history' = Select(SetHead(history, Uncache(Top)), NoLine)
    /\ pc' = "loop"
    /\ asked' = TRUE

MoveSelectionBelow ==   \* a mistaken version: the pointer of the previous node
    /\ InMenu /\ Top.selected >= 0 /\ Len(history) > 1
    /\ \E line \in Top.cache.links :
         history' = <<Top>> \o Select(Tail(history), line)
    /\ UNCHANGED <<pc, asked>>

\* The keys that move the selection of a menu, whose details are not
\* modelled here: HOME ends on NoLine when the page has no link.
MoveSelection ==
    /\ InMenu /\ Top.selected >= 0
    /\ \E line \in IF Top.cache.links = {} THEN {NoLine} ELSE Top.cache.links :
         history' = Select(history, line)
    /\ UNCHANGED <<pc, asked>>

\* ESC, confirmed.
Quit ==
    /\ pc = "display"
    /\ pc' = "ended"
    /\ UNCHANGED <<history, asked>>

Ended == pc = "ended" /\ UNCHANGED vars
-----------------------------------------------------------------------------
Loop == StartPage \/ LoadFails \/ CopyFails \/ Load \/ Show \/ AskFilename

Key ==
    \/ \E loc \in Targets : EditUrl(loc) \/ FollowLink(loc) \/ SaveLink(loc)
    \/ SaveText \/ Help \/ JumpHome \/ JumpMain
    \/ Back \/ Refresh \/ MoveSelection \/ Quit

Next == Loop \/ SaveOrCancel \/ Key \/ Ended

\* The loop runs by itself: no key is needed to load a page.
Spec == Init /\ [][Next]_vars
FairSpec == Spec /\ WF_vars(Loop)
-----------------------------------------------------------------------------
(* Properties.                                                             *)

\* The shapes of the variables.
TypeOK ==
    /\ pc \in {"loop", "prompt", "display", "ended"}
    /\ history \in Seq(Node)
    /\ asked \in BOOLEAN

\* display_menu() and display_text() read history->cache without looking:
\* whenever they run, the head exists, is of a type they handle and has a
\* copy.
ShownIsCached ==
    pc = "display" =>
        /\ history # <<>>
        /\ Top.loc.type \in Displayable
        /\ Cached(Top)

\* A location that can only be saved never stays below another one, so the
\* way back never asks for a file name again.
OnlyHeadIsSaved ==
    \A i \in DOMAIN history : i > 1 => history[i].loc.type \in Displayable

\* Following a link to the page one came from goes back instead of growing
\* the history: no location has itself two places further down.
NoDetour ==
    \A i, j \in DOMAIN history : j = i + 2 => history[i].loc # history[j].loc

\* The start page and the manual are rebuilt each time one comes back to
\* them, so that a bookmark added or removed meanwhile is there: while a page
\* is shown, no embedded page below it has a copy.
EmbeddedRebuilt ==
    pc = "display" =>
        \A i \in DOMAIN history :
            i > 1 /\ Embedded(history[i].loc) => ~Cached(history[i])

\* What history_cleanupcache() achieves: while a page is shown the pages
\* below it hold at most MAXALLOWEDCACHE bytes.
CacheBudget ==
    pc = "display" =>
        Total(Tail(history), Len(history) - 1) <= MAXALLOWEDCACHE

\* A query (type 7) is about to be sent only if the user asked for it since
\* the last load: never because its answer fell out of the cache, unless
\* there was no memory for the notice that says so.
QueryOnlyOnRequest ==
    NeedsLoad /\ Top.loc.type = "7" => asked

\* Below the head the history is only ever uncovered, never rewritten: what a
\* step finds there keeps its location, its selection, and its copy unless
\* the step drops it.  Only the head is pushed, popped, filled or moved, but
\* for the notice put on a query uncovered by a pop.
Covered(old, new) ==
    /\ new.loc = old.loc
    /\ new.selected = old.selected
    /\ new.cache \in {old.cache, NoPage}

Shifted(shift) ==
    /\ Len(history') = Len(history) + shift
    /\ \A i \in DOMAIN history :
         i > 1 /\ i + shift > 1 => Covered(history[i], history'[i + shift])

BelowHeadKept == [][\E shift \in {-1, 0, 1} : Shifted(shift)]_vars

\* The session is a walk over a stack of locations, whatever the cache does:
\* it implements Navigation, where a page is on screen at "display".
Locations(nodes) == [i \in 1 .. Len(nodes) |-> nodes[i].loc]

Screen == CASE pc = "loop"    -> "busy"
            [] pc = "prompt"  -> "dialog"
            [] pc = "display" -> "page"
            [] OTHER          -> "closed"

Nav == INSTANCE Navigation WITH
           Place    <- Location,
           Viewable <- {loc \in Location : loc.type \in Displayable},
           Start    <- Welcome,
           stack    <- Locations(history),
           screen   <- Screen

Navigates == Nav!Spec

\* However many loads fail, the loop comes to a page, a prompt or the end;
\* only when memory for a copy is refused again and again does it run without
\* ever reading a key.
Settles == (pc = "loop" ~> pc # "loop") \/ []<><<CopyFails>>_vars
=============================================================================
