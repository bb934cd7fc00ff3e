---------------------------- MODULE BrowserProofs ----------------------------
(***************************************************************************)
(* The session never shows a page that is not there, never asks twice for  *)
(* a file name, walks over a stack of locations (it implements Navigation) *)
(* and keeps its copies within the budget, for every set of locations,     *)
(* pages and sizes and whatever memory is refused.                         *)
(***************************************************************************)
EXTENDS Browser, SequenceTheorems, Induction, TLAPS

-----------------------------------------------------------------------------
(* What the operators of History do to a list of nodes.                    *)

LEMMA NoticeIsPage == Notice \in Page /\ Notice # NoPage
BY HistoryAssumption DEF Notice, Page, NoPage

LEMMA StoreFacts ==
    ASSUME NEW node \in Node, NEW page \in Page
    PROVE  /\ Store(node, page) \in Node
           /\ Cached(Store(node, page))
           /\ Store(node, page).loc = node.loc
           /\ Store(node, page).selected = node.selected
           /\ Store(node, page).cache = page
<1>1. page.size \in Nat /\ page.size > 0 /\ page # NoPage
  BY HistoryAssumption DEF Page, NoPage
<1>2. node.loc \in Location /\ node.selected \in Int
  BY DEF Node, NodeShape
<1> QED
  BY <1>1, <1>2 DEF Store, WithCopy, Node, NodeShape, Cached

LEMMA UncacheFacts ==
    ASSUME NEW node \in Node
    PROVE  /\ Uncache(node) \in Node
           /\ ~Cached(Uncache(node))
           /\ Uncache(node).loc = node.loc
           /\ Uncache(node).selected = node.selected
           /\ Uncache(node).cache = NoPage
BY DEF Uncache, WithCopy, Node, NodeShape, Cached, NoPage

LEMMA NewNodeFacts ==
    ASSUME NEW loc \in Location
    PROVE  /\ NewNode(loc) \in Node
           /\ ~Cached(NewNode(loc))
           /\ NewNode(loc).loc = loc
BY DEF NewNode, Node, NodeShape, Cached, NoPage, NoLine

LEMMA SetHeadFacts ==
    ASSUME NEW nodes \in Seq(Node), nodes # <<>>, NEW node \in Node
    PROVE  /\ SetHead(nodes, node) \in Seq(Node)
           /\ Len(SetHead(nodes, node)) = Len(nodes)
           /\ SetHead(nodes, node) # <<>>
           /\ SetHead(nodes, node)[1] = node
           /\ \A i \in 2 .. Len(nodes) : SetHead(nodes, node)[i] = nodes[i]
<1>1. /\ Tail(nodes) \in Seq(Node)
      /\ Len(Tail(nodes)) = Len(nodes) - 1
      /\ \A i \in 1 .. Len(Tail(nodes)) : Tail(nodes)[i] = nodes[i + 1]
  BY HeadTailProperties
<1>2. /\ <<node>> \in Seq(Node)
      /\ Len(<<node>>) = 1
      /\ <<node>>[1] = node
  OBVIOUS
<1>3. /\ Len(nodes) \in Nat /\ Len(nodes) > 0
  BY LenProperties
<1>4. /\ SetHead(nodes, node) \in Seq(Node)
      /\ Len(SetHead(nodes, node)) = 1 + Len(Tail(nodes))
      /\ \A i \in 1 .. 1 + Len(Tail(nodes)) :
           SetHead(nodes, node)[i] =
             IF i <= 1 THEN <<node>>[i] ELSE Tail(nodes)[i - 1]
  BY <1>1, <1>2, ConcatProperties DEF SetHead
<1> QED
  BY <1>1, <1>2, <1>3, <1>4

\* A sequence of nodes as its elements: what the lemmas below speak of.
LEMMA NodesOf ==
    ASSUME NEW nodes \in Seq(Node)
    PROVE  /\ Len(nodes) \in Nat
           /\ DOMAIN nodes = 1 .. Len(nodes)
           /\ \A i \in 1 .. Len(nodes) : nodes[i] \in Node
           /\ nodes # <<>> => Len(nodes) > 0 /\ Head(nodes) = nodes[1]
           /\ Len(nodes) = 0 => nodes = <<>>
BY LenProperties, ElementOfSeq, EmptySeq

\* The notice changes nothing but the copy of the head, and is put on every
\* query without a copy unless memory is refused.
LEMMA PutNoticeFacts ==
    ASSUME NEW nodes \in Seq(Node), NEW ok \in BOOLEAN
    PROVE  /\ PutNotice(nodes, ok) \in Seq(Node)
           /\ Len(PutNotice(nodes, ok)) = Len(nodes)
           /\ \A i \in 2 .. Len(nodes) : PutNotice(nodes, ok)[i] = nodes[i]
           /\ nodes # <<>> =>
                /\ PutNotice(nodes, ok)[1].loc = nodes[1].loc
                /\ Cached(nodes[1]) => Cached(PutNotice(nodes, ok)[1])
                /\ ok /\ nodes[1].loc.type = "7" => Cached(PutNotice(nodes, ok)[1])
<1> DEFINE put == /\ nodes # <<>> /\ ok /\ Head(nodes).loc.type = "7"
                  /\ ~Cached(Head(nodes))
<1>1. CASE put
  <2>1. nodes # <<>> /\ Head(nodes) = nodes[1] /\ nodes[1] \in Node
    BY <1>1, NodesOf
  <2>2. PutNotice(nodes, ok) = SetHead(nodes, Store(nodes[1], Notice))
    BY <1>1, <2>1 DEF PutNotice
  <2> DEFINE node == Store(nodes[1], Notice)
  <2>3. node \in Node /\ node.loc = nodes[1].loc /\ Cached(node)
    BY <2>1, NoticeIsPage, StoreFacts
  <2> HIDE DEF node
  <2>4. /\ SetHead(nodes, node) \in Seq(Node)
        /\ Len(SetHead(nodes, node)) = Len(nodes)
        /\ SetHead(nodes, node)[1] = node
        /\ \A i \in 2 .. Len(nodes) : SetHead(nodes, node)[i] = nodes[i]
    BY <2>1, <2>3, SetHeadFacts
  <2> QED
    BY <2>2, <2>3, <2>4 DEF node
<1>2. CASE ~put
  <2>1. PutNotice(nodes, ok) = nodes
    BY <1>2 DEF PutNotice
  <2> QED
    BY <1>2, <2>1, NodesOf
<1> QED
  BY <1>1, <1>2

LEMMA PopFacts ==
    ASSUME NEW nodes \in Seq(Node), nodes # <<>>, NEW ok \in BOOLEAN
    PROVE  /\ history_pop(nodes, ok) \in Seq(Node)
           /\ Len(history_pop(nodes, ok)) = Len(nodes) - 1
           /\ \A i \in 1 .. Len(nodes) - 1 :
                history_pop(nodes, ok)[i].loc = nodes[i + 1].loc
           /\ \A i \in 2 .. Len(nodes) - 1 :
                history_pop(nodes, ok)[i] = nodes[i + 1]
           /\ Len(nodes) > 1 /\ Cached(nodes[2]) => Cached(history_pop(nodes, ok)[1])
           /\ Len(nodes) > 1 /\ ok /\ nodes[2].loc.type = "7" =>
                Cached(history_pop(nodes, ok)[1])
<1> DEFINE rest == Tail(nodes)
<1>1. /\ rest \in Seq(Node)
      /\ Len(rest) = Len(nodes) - 1
      /\ \A i \in 1 .. Len(rest) : rest[i] = nodes[i + 1]
  BY HeadTailProperties
<1>2. history_pop(nodes, ok) = PutNotice(rest, ok)
  BY DEF history_pop
<1>3. Len(nodes) \in Nat /\ Len(nodes) > 0
  BY NodesOf
<1> HIDE DEF rest
<1>4. Len(nodes) > 1 => rest # <<>> /\ rest[1] = nodes[2]
  <2>1. Len(<<>>) = 0
    OBVIOUS
  <2> QED
    BY <1>1, <1>3, <2>1
<1>5. /\ PutNotice(rest, ok) \in Seq(Node)
      /\ Len(PutNotice(rest, ok)) = Len(rest)
      /\ \A i \in 2 .. Len(rest) : PutNotice(rest, ok)[i] = rest[i]
      /\ rest # <<>> =>
           /\ PutNotice(rest, ok)[1].loc = rest[1].loc
           /\ Cached(rest[1]) => Cached(PutNotice(rest, ok)[1])
           /\ ok /\ rest[1].loc.type = "7" => Cached(PutNotice(rest, ok)[1])
  BY <1>1, PutNoticeFacts
<1> QED
  BY <1>1, <1>2, <1>3, <1>4, <1>5

\* A node put on top.
LEMMA AddFacts ==
    ASSUME NEW nodes \in Seq(Node), NEW loc \in Location
    PROVE  /\ <<NewNode(loc)>> \o nodes \in Seq(Node)
           /\ Len(<<NewNode(loc)>> \o nodes) = Len(nodes) + 1
           /\ (<<NewNode(loc)>> \o nodes)[1] = NewNode(loc)
           /\ \A i \in 1 .. Len(nodes) : (<<NewNode(loc)>> \o nodes)[i + 1] = nodes[i]
<1>1. /\ <<NewNode(loc)>> \in Seq(Node)
      /\ Len(<<NewNode(loc)>>) = 1
      /\ <<NewNode(loc)>>[1] = NewNode(loc)
  BY NewNodeFacts
<1>2. Len(nodes) \in Nat
  BY NodesOf
<1> DEFINE more == <<NewNode(loc)>> \o nodes
<1>3. /\ more \in Seq(Node)
      /\ Len(more) = 1 + Len(nodes)
      /\ \A i \in 1 .. 1 + Len(nodes) :
           more[i] = IF i <= 1 THEN <<NewNode(loc)>>[i] ELSE nodes[i - 1]
  BY <1>1, ConcatProperties
<1> HIDE DEF more
<1>4. \A i \in 1 .. Len(nodes) : i + 1 \in 1 .. 1 + Len(nodes) /\ ~(i + 1 <= 1) /\ (i + 1) - 1 = i
  BY <1>2
<1>5. more[1] = NewNode(loc) /\ \A i \in 1 .. Len(nodes) : more[i + 1] = nodes[i]
  BY <1>1, <1>2, <1>3, <1>4
<1> QED
  BY <1>3, <1>5 DEF more

\* The clean-up drops copies, every embedded one among them, and changes
\* nothing else.
LEMMA CleanupFacts ==
    ASSUME NEW nodes \in Seq(Node)
    PROVE  /\ history_cleanupcache(nodes) \in Seq(Node)
           /\ Len(history_cleanupcache(nodes)) = Len(nodes)
           /\ \A i \in 1 .. Len(nodes) :
                /\ history_cleanupcache(nodes)[i] \in {nodes[i], Uncache(nodes[i])}
                /\ Embedded(nodes[i].loc) => ~Cached(history_cleanupcache(nodes)[i])
<1> DEFINE clean(i) == IF Total(nodes, i) > MAXALLOWEDCACHE \/ Embedded(nodes[i].loc)
                       THEN Uncache(nodes[i]) ELSE nodes[i]
<1>1. history_cleanupcache(nodes) = [i \in 1 .. Len(nodes) |-> clean(i)]
  BY DEF history_cleanupcache
<1>2. /\ Len(nodes) \in Nat
      /\ \A i \in 1 .. Len(nodes) : nodes[i] \in Node
  BY NodesOf
<1>3. \A i \in 1 .. Len(nodes) :
        /\ clean(i) \in Node
        /\ clean(i) \in {nodes[i], Uncache(nodes[i])}
        /\ Embedded(nodes[i].loc) => ~Cached(clean(i))
  BY <1>2, UncacheFacts
<1> HIDE DEF clean
<1>4. [i \in 1 .. Len(nodes) |-> clean(i)] \in Seq(Node)
  BY <1>2, <1>3, SeqDef
<1>5. Len([i \in 1 .. Len(nodes) |-> clean(i)]) = Len(nodes)
  BY <1>2, <1>4, LenProperties
<1> QED
  BY <1>1, <1>3, <1>4, <1>5

\* Selecting a line leaves the location and the copy of the head alone.
LEMMA SelectFacts ==
    ASSUME NEW nodes \in Seq(Node), nodes # <<>>, NEW line \in Int
    PROVE  /\ Select(nodes, line) \in Seq(Node)
           /\ Len(Select(nodes, line)) = Len(nodes)
           /\ Select(nodes, line) # <<>>
           /\ \A i \in 2 .. Len(nodes) : Select(nodes, line)[i] = nodes[i]
           /\ Select(nodes, line)[1].loc = nodes[1].loc
           /\ Select(nodes, line)[1].cache = nodes[1].cache
<1>1. Head(nodes) = nodes[1] /\ nodes[1] \in Node
  BY NodesOf
<1> DEFINE node == [nodes[1] EXCEPT !.selected = line]
<1>2. node \in Node /\ node.loc = nodes[1].loc /\ node.cache = nodes[1].cache
  BY <1>1 DEF Node, NodeShape
<1>3. Select(nodes, line) = SetHead(nodes, node)
  BY <1>1 DEF Select
<1> HIDE DEF node
<1>4. /\ SetHead(nodes, node) \in Seq(Node)
      /\ Len(SetHead(nodes, node)) = Len(nodes)
      /\ SetHead(nodes, node) # <<>>
      /\ SetHead(nodes, node)[1] = node
      /\ \A i \in 2 .. Len(nodes) : SetHead(nodes, node)[i] = nodes[i]
  BY <1>2, SetHeadFacts
<1> QED
  BY <1>2, <1>3, <1>4
-----------------------------------------------------------------------------
(* The inductive invariant.  The session invariants of Browser are not     *)
(* inductive by themselves: EmbeddedRebuilt speaks of the display only, so *)
(* the list must say when an embedded page may be cached outside of it,    *)
(* which is right below a head that has yet to be loaded.                  *)

Sound(nodes) ==
    /\ nodes \in Seq(Node)
    /\ \A i \in 2 .. Len(nodes) : nodes[i].loc.type \in Displayable
    /\ \A i \in 1 .. Len(nodes) - 2 : nodes[i].loc # nodes[i + 2].loc
    /\ \A i \in 2 .. Len(nodes) :
         Embedded(nodes[i].loc) /\ Cached(nodes[i]) => i = 2 /\ ~Cached(nodes[1])

IInv ==
    /\ pc \in {"loop", "prompt", "display", "ended"}
    /\ asked \in BOOLEAN
    /\ Sound(history)
    /\ ShownIsCached
    /\ pc = "prompt" => history # <<>>
    /\ QueryOnlyOnRequest

\* Going back.
LEMMA PopSound ==
    ASSUME NEW nodes, Sound(nodes), nodes # <<>>, NEW ok \in BOOLEAN
    PROVE  Sound(history_pop(nodes, ok))
<1> DEFINE rest == history_pop(nodes, ok)
<1>1. /\ rest \in Seq(Node)
      /\ Len(rest) = Len(nodes) - 1
      /\ \A i \in 1 .. Len(nodes) - 1 : rest[i].loc = nodes[i + 1].loc
      /\ \A i \in 2 .. Len(nodes) - 1 : rest[i] = nodes[i + 1]
  BY PopFacts DEF Sound
<1>2. Len(nodes) \in Nat /\ Len(nodes) > 0
  BY NodesOf DEF Sound
<1> HIDE DEF rest
<1>3. \A i \in 2 .. Len(rest) : rest[i].loc.type \in Displayable
  BY <1>1, <1>2 DEF Sound
<1>4. \A i \in 1 .. Len(rest) - 2 : rest[i].loc # rest[i + 2].loc
  <2> SUFFICES ASSUME NEW i \in 1 .. Len(rest) - 2
               PROVE  rest[i].loc # rest[i + 2].loc
    OBVIOUS
  <2>1. rest[i].loc = nodes[i + 1].loc /\ rest[i + 2].loc = nodes[i + 3].loc
    BY <1>1, <1>2
  <2>2. nodes[i + 1].loc # nodes[i + 3].loc
    BY <1>1, <1>2 DEF Sound
  <2> QED
    BY <2>1, <2>2
<1>5. \A i \in 2 .. Len(rest) : Embedded(rest[i].loc) => ~Cached(rest[i])
  BY <1>1, <1>2 DEF Sound
<1> QED
  BY <1>1, <1>3, <1>4, <1>5 DEF Sound, rest

\* A new head, over a page that was on screen.
LEMMA AddSound ==
    ASSUME NEW nodes, Sound(nodes), nodes # <<>>, Cached(nodes[1]),
           nodes[1].loc.type \in Displayable,
           NEW loc \in Location, ~IsPrevious(nodes, loc)
    PROVE  Sound(<<NewNode(loc)>> \o nodes)
<1> DEFINE more == <<NewNode(loc)>> \o nodes
<1>1. /\ more \in Seq(Node)
      /\ Len(more) = Len(nodes) + 1
      /\ more[1] = NewNode(loc)
      /\ \A i \in 1 .. Len(nodes) : more[i + 1] = nodes[i]
  BY AddFacts DEF Sound
<1>2. Len(nodes) \in Nat /\ Len(nodes) > 0
  BY NodesOf DEF Sound
<1>3. NewNode(loc).loc = loc /\ ~Cached(NewNode(loc))
  BY NewNodeFacts
<1> HIDE DEF more
<1>4. \A i \in 2 .. Len(more) : i - 1 \in 1 .. Len(nodes) /\ more[i] = nodes[i - 1]
  <2> SUFFICES ASSUME NEW i \in 2 .. Len(more)
               PROVE  i - 1 \in 1 .. Len(nodes) /\ more[i] = nodes[i - 1]
    OBVIOUS
  <2>1. i - 1 \in 1 .. Len(nodes) /\ (i - 1) + 1 = i
    BY <1>1, <1>2
  <2> QED
    BY <1>1, <2>1
<1>5. \A i \in 2 .. Len(more) : more[i].loc.type \in Displayable
  <2> SUFFICES ASSUME NEW i \in 2 .. Len(more)
               PROVE  more[i].loc.type \in Displayable
    OBVIOUS
  <2>1. CASE i = 2
    BY <1>4, <2>1
  <2>2. CASE i # 2
    BY <1>1, <1>2, <1>4, <2>2 DEF Sound
  <2> QED
    BY <2>1, <2>2
<1>6. \A i \in 1 .. Len(more) - 2 : more[i].loc # more[i + 2].loc
  <2> SUFFICES ASSUME NEW i \in 1 .. Len(more) - 2
               PROVE  more[i].loc # more[i + 2].loc
    OBVIOUS
  <2>1. more[i + 2] = nodes[i + 1]
    BY <1>1, <1>2, <1>4
  <2>2. CASE i = 1
    BY <1>1, <1>2, <1>3, <2>1, <2>2 DEF IsPrevious
  <2>3. CASE i # 1
    <3>1. more[i] = nodes[i - 1] /\ i - 1 \in 1 .. Len(nodes) - 2
      BY <1>1, <1>2, <1>4, <2>3
    <3>2. nodes[i - 1].loc # nodes[(i - 1) + 2].loc /\ (i - 1) + 2 = i + 1
      BY <3>1 DEF Sound
    <3> QED
      BY <2>1, <3>1, <3>2
  <2> QED
    BY <2>2, <2>3
<1>7. \A i \in 2 .. Len(more) :
        Embedded(more[i].loc) /\ Cached(more[i]) => i = 2 /\ ~Cached(more[1])
  <2> SUFFICES ASSUME NEW i \in 2 .. Len(more),
                      Embedded(more[i].loc), Cached(more[i])
               PROVE  i = 2
    BY <1>1, <1>3
  <2>1. CASE i # 2
    <3>1. i - 1 \in 2 .. Len(nodes) /\ more[i] = nodes[i - 1]
      BY <1>1, <1>2, <1>4, <2>1
    <3> QED
      BY <3>1 DEF Sound
  <2> QED
    BY <2>1
<1> QED
  BY <1>1, <1>5, <1>6, <1>7 DEF Sound, more

\* history_push(), by a key of a page on screen.
LEMMA PushSound ==
    ASSUME NEW nodes, Sound(nodes), nodes # <<>>, Cached(nodes[1]),
           nodes[1].loc.type \in Displayable,
           NEW loc \in Location, NEW ok \in BOOLEAN
    PROVE  Sound(history_push(nodes, loc, ok))
BY PopSound, AddSound DEF history_push

\* Making room.
LEMMA CleanupSound ==
    ASSUME NEW nodes, Sound(nodes)
    PROVE  /\ Sound(history_cleanupcache(nodes))
           /\ Len(history_cleanupcache(nodes)) = Len(nodes)
           /\ nodes # <<>> => history_cleanupcache(nodes) # <<>>
           /\ \A i \in 1 .. Len(nodes) :
                /\ history_cleanupcache(nodes)[i].loc = nodes[i].loc
                /\ Embedded(nodes[i].loc) => ~Cached(history_cleanupcache(nodes)[i])
<1> DEFINE clean == history_cleanupcache(nodes)
<1>1. /\ clean \in Seq(Node)
      /\ Len(clean) = Len(nodes)
      /\ \A i \in 1 .. Len(nodes) :
           /\ clean[i] \in {nodes[i], Uncache(nodes[i])}
           /\ Embedded(nodes[i].loc) => ~Cached(clean[i])
  BY CleanupFacts DEF Sound
<1>2. /\ Len(nodes) \in Nat
      /\ nodes # <<>> => Len(nodes) > 0
      /\ \A i \in 1 .. Len(nodes) : nodes[i] \in Node
  BY NodesOf DEF Sound
<1> HIDE DEF clean
<1>3. \A i \in 1 .. Len(nodes) : clean[i].loc = nodes[i].loc
  BY <1>1, <1>2, UncacheFacts
<1>4. Sound(clean)
  BY <1>1, <1>2, <1>3 DEF Sound
<1>5. nodes # <<>> => clean # <<>>
  <2>1. Len(<<>>) = 0
    OBVIOUS
  <2> QED
    BY <1>1, <1>2, <2>1
<1> QED
  BY <1>1, <1>3, <1>4, <1>5 DEF clean

\* A head that changes but for its location, over pages that are all right
\* or are not made worse by it.
LEMMA HeadSound ==
    ASSUME NEW nodes, Sound(nodes), nodes # <<>>, NEW more \in Seq(Node),
           Len(more) = Len(nodes), more[1].loc = nodes[1].loc,
           \A i \in 2 .. Len(nodes) : more[i] = nodes[i],
           \/ ~Cached(more[1])
           \/ Cached(nodes[1])
           \/ \A i \in 2 .. Len(nodes) : Embedded(nodes[i].loc) => ~Cached(nodes[i])
    PROVE  Sound(more)
<1>1. Len(nodes) \in Nat /\ Len(nodes) > 0
  BY NodesOf DEF Sound
<1>2. \A i \in 1 .. Len(nodes) : more[i].loc = nodes[i].loc
  <2> SUFFICES ASSUME NEW i \in 1 .. Len(nodes) PROVE more[i].loc = nodes[i].loc
    OBVIOUS
  <2> QED
    BY i = 1 \/ i \in 2 .. Len(nodes)
<1> QED
  BY <1>1, <1>2 DEF Sound
-----------------------------------------------------------------------------
(* Every action preserves the invariant.                                   *)

\* Every location a key can push is a location.
LEMMA KnownLocations ==
    /\ Welcome \in Location /\ Manual \in Location
    /\ \A loc \in Location : AsFile(loc) \in Location /\ MainMenu(loc) \in Location
<1>1. Welcome \in Location /\ Manual \in Location
  BY DEF Welcome, Manual, Location, Protocols, EmbeddedHosts, ItemTypes, Displayable
<1>2. ASSUME NEW loc \in Location PROVE AsFile(loc) \in Location
  BY DEF AsFile, Location, ItemTypes
<1>3. ASSUME NEW loc \in Location PROVE MainMenu(loc) \in Location
  BY DEF MainMenu, Location, ItemTypes, Displayable, Protocols
<1> QED
  BY <1>1, <1>2, <1>3

LEMMA MallocResultIsBoolean ==
    /\ MallocResult \subseteq BOOLEAN
    /\ ~MallocMayFail => MallocResult = {TRUE}
BY BrowserAssumption DEF MallocResult

\* The lines that display_menu() may find selected are numbers.
LEMMA SelectionsAreLines ==
    ASSUME NEW node \in Node
    PROVE  Selections(node) \subseteq Int
<1>1. node.selected \in Int /\ node.cache.links \subseteq Nat
  BY DEF Node, NodeShape, Page, NoPage
<1> QED
  BY <1>1 DEF Selections, FirstLinks

\* Showing a list whose head has a copy.
LEMMA DisplaySound ==
    ASSUME NEW nodes, Sound(nodes), nodes # <<>>, Cached(nodes[1]),
           nodes[1].loc.type \in Displayable, Display(nodes), asked' \in BOOLEAN
    PROVE  IInv'
<1>1. nodes \in Seq(Node) /\ Head(nodes) = nodes[1] /\ nodes[1] \in Node
  BY NodesOf DEF Sound
<1>2. PICK line \in Selections(nodes[1]) : history' = Select(nodes, line)
  BY <1>1 DEF Display
<1>3. line \in Int
  BY <1>1, <1>2, SelectionsAreLines
<1>4. /\ history' \in Seq(Node)
      /\ Len(history') = Len(nodes)
      /\ history' # <<>>
      /\ \A i \in 2 .. Len(nodes) : history'[i] = nodes[i]
      /\ history'[1].loc = nodes[1].loc
      /\ history'[1].cache = nodes[1].cache
  BY <1>1, <1>2, <1>3, SelectFacts
<1>5. Sound(history')
  BY <1>1, <1>4, HeadSound
<1>6. Head(history') = history'[1]
  BY <1>4, NodesOf
<1>7. pc' = "display"
  BY DEF Display
<1> QED
  BY <1>4, <1>5, <1>6, <1>7 DEF IInv, ShownIsCached, QueryOnlyOnRequest,
     NeedsLoad, AtLoop, Top, Cached

\* A query uncovered by a pop has a copy, if only of the notice.
LEMMA PopUncovers ==
    ASSUME NEW nodes \in Seq(Node), nodes # <<>>, NEW ok \in BOOLEAN,
           history_pop(nodes, ok) # <<>>, ok,
           Head(history_pop(nodes, ok)).loc.type = "7"
    PROVE  Cached(Head(history_pop(nodes, ok)))
<1> DEFINE rest == history_pop(nodes, ok)
<1>1. /\ rest \in Seq(Node)
      /\ Len(rest) = Len(nodes) - 1
      /\ \A i \in 1 .. Len(nodes) - 1 : rest[i].loc = nodes[i + 1].loc
  BY PopFacts
<1>2. Len(nodes) > 1 /\ nodes[2].loc.type = "7" => Cached(rest[1])
  BY PopFacts
<1> HIDE DEF rest
<1>3. Len(rest) > 0 /\ Head(rest) = rest[1] /\ Len(nodes) \in Nat
  BY <1>1, NodesOf DEF rest
<1>4. Len(nodes) > 1 /\ rest[1].loc = nodes[2].loc
  BY <1>1, <1>3
<1> QED
  BY <1>2, <1>3, <1>4 DEF rest

\* A step that goes back to the loop by popping the head of some list.
LEMMA PopStep ==
    ASSUME NEW nodes, Sound(nodes), nodes # <<>>, NEW ok \in MallocResult,
           history' = history_pop(nodes, ok), pc' = "loop", asked' = ~ok
    PROVE  IInv'
<1>1. ok \in BOOLEAN
  BY MallocResultIsBoolean
<1>2. Sound(history')
  BY <1>1, PopSound
<1>3. QueryOnlyOnRequest'
  BY <1>1, PopUncovers DEF QueryOnlyOnRequest, NeedsLoad, AtLoop, Top, Sound
<1> QED
  BY <1>1, <1>2, <1>3 DEF IInv, ShownIsCached

\* A key that pushes a location.
LEMMA PushStep ==
    ASSUME IInv, pc = "display", NEW loc \in Location, Push(loc)
    PROVE  IInv'
<1>1. /\ Sound(history) /\ history # <<>> /\ Top = history[1]
      /\ Cached(history[1]) /\ history[1].loc.type \in Displayable
  <2>1. Sound(history) /\ history # <<>>
    BY DEF IInv, ShownIsCached
  <2>2. Top = history[1]
    BY <2>1, NodesOf DEF Sound, Top
  <2> QED
    BY <2>1, <2>2 DEF IInv, ShownIsCached
<1>2. PICK ok \in MallocResult :
        /\ history' = history_push(history, loc, ok)
        /\ asked' = (IsPrevious(history, loc) => ~ok)
  BY DEF Push
<1>3. pc' = "loop" /\ asked' = (IsPrevious(history, loc) => ~ok)
  BY <1>2 DEF Push
<1>4. ok \in BOOLEAN
  BY MallocResultIsBoolean
<1>5. CASE IsPrevious(history, loc)
  <2>1. history' = history_pop(history, ok) /\ asked' = ~ok
    BY <1>2, <1>3, <1>4, <1>5 DEF history_push
  <2> QED
    BY <1>1, <1>3, <1>5, <2>1, PopStep
<1>6. CASE ~IsPrevious(history, loc)
  <2>1. Sound(history') /\ asked' = TRUE
    BY <1>1, <1>2, <1>4, <1>6, PushSound
  <2> QED
    BY <1>3, <1>6, <2>1 DEF IInv, ShownIsCached, QueryOnlyOnRequest
<1> QED
  BY <1>5, <1>6

LEMMA InitIInv == Init => IInv
<1> SUFFICES ASSUME Init PROVE IInv
  OBVIOUS
<1>1. Sound(<<>>)
  BY EmptySeq DEF Sound
<1>2. ASSUME NEW loc \in Targets PROVE Sound(<<NewNode(loc)>>)
  <2>1. NewNode(loc) \in Node
    BY <1>2, NewNodeFacts, BrowserAssumption
  <2>2. <<NewNode(loc)>> \in Seq(Node) /\ Len(<<NewNode(loc)>>) = 1
    BY <2>1
  <2> QED
    BY <2>2 DEF Sound
<1> QED
  BY <1>1, <1>2 DEF Init, IInv, ShownIsCached, QueryOnlyOnRequest

LEMMA StartPageKeeps == IInv /\ StartPage => IInv'
<1> SUFFICES ASSUME IInv, StartPage PROVE IInv'
  OBVIOUS
<1>1. PICK ok \in MallocResult :
        /\ history' = history_push(<<>>, Welcome, ok)
        /\ pc' = IF ok THEN "loop" ELSE "ended"
  BY DEF StartPage
<1>2. <<>> \in Seq(Node) /\ Len(<<>>) = 0
  BY EmptySeq
<1>3. history' = IF ok THEN <<NewNode(Welcome)>> \o <<>> ELSE <<>>
  BY <1>1, <1>2 DEF history_push, IsPrevious
<1>4. Sound(<<NewNode(Welcome)>> \o <<>>)
  <2> DEFINE first == <<NewNode(Welcome)>> \o <<>>
  <2>1. first \in Seq(Node) /\ Len(first) = Len(<<>>) + 1
    BY <1>2, KnownLocations, AddFacts
  <2>2. first \in Seq(Node) /\ Len(first) = 1
    BY <1>2, <2>1
  <2> HIDE DEF first
  <2>3. Sound(first)
    BY <2>2 DEF Sound
  <2> QED
    BY <2>3 DEF first
<1>5. Sound(<<>>)
  BY <1>2 DEF Sound
<1> QED
  BY <1>1, <1>3, <1>4, <1>5 DEF StartPage, IInv, ShownIsCached, QueryOnlyOnRequest

\* At the top of the loop.
LEMMA HeadAtLoop ==
    ASSUME IInv, AtLoop
    PROVE  /\ Sound(history) /\ history # <<>> /\ Top = history[1]
           /\ Top \in Node
<1>1. Sound(history) /\ history # <<>>
  BY DEF IInv, AtLoop
<1> QED
  BY <1>1, NodesOf DEF Sound, Top

LEMMA LoadKeeps == IInv /\ Load => IInv'
<1> SUFFICES ASSUME IInv, Load PROVE IInv'
  OBVIOUS
<1>1. NeedsLoad /\ asked' = FALSE
  BY DEF Load
<1>2. /\ Sound(history) /\ history # <<>> /\ Top = history[1]
      /\ history[1].loc.type \in Displayable
  BY <1>1, HeadAtLoop DEF NeedsLoad
<1> DEFINE room == history_cleanupcache(history)
<1>3. PICK page \in Contents(Top.loc) : Display(Fill(room, page))
  BY DEF Load
<1>4. page \in Page
  BY <1>3, HistoryAssumption DEF Contents
<1>5. /\ Sound(room) /\ room # <<>> /\ Len(room) = Len(history)
      /\ Len(history) \in Nat /\ Len(history) > 0
      /\ \A i \in 1 .. Len(history) :
           /\ room[i].loc = history[i].loc
           /\ Embedded(history[i].loc) => ~Cached(room[i])
  BY <1>2, CleanupSound, NodesOf DEF Sound
<1> HIDE DEF room
<1>6. Head(room) = room[1] /\ room[1] \in Node
  BY <1>5, NodesOf DEF Sound
<1> DEFINE node == Store(room[1], page)
<1>7. node \in Node /\ Cached(node) /\ node.loc = room[1].loc
  BY <1>4, <1>6, StoreFacts
<1>8. Fill(room, page) = SetHead(room, node)
  BY <1>6 DEF Fill
<1> HIDE DEF node
<1> DEFINE full == SetHead(room, node)
<1>9. /\ full \in Seq(Node) /\ full # <<>> /\ Len(full) = Len(room)
      /\ full[1] = node
      /\ \A i \in 2 .. Len(room) : full[i] = room[i]
  BY <1>5, <1>7, SetHeadFacts DEF Sound
<1> HIDE DEF full
<1>10. \A i \in 2 .. Len(room) : Embedded(room[i].loc) => ~Cached(room[i])
  BY <1>5
<1>11. Sound(full)
  BY <1>5, <1>7, <1>9, <1>10, HeadSound
<1>12. Cached(full[1]) /\ full[1].loc.type \in Displayable
  BY <1>2, <1>5, <1>7, <1>9
<1>13. Display(full)
  BY <1>3, <1>8 DEF full
<1> QED
  BY <1>1, <1>9, <1>11, <1>12, <1>13, DisplaySound

LEMMA LoopKeeps == IInv /\ Loop => IInv'
<1>1. ASSUME IInv, LoadFails PROVE IInv'
  BY <1>1, HeadAtLoop, PopStep DEF LoadFails, NeedsLoad, AtLoop
<1>2. ASSUME IInv, CopyFails PROVE IInv'
  <2>1. Sound(history) /\ history # <<>>
    BY <1>2, HeadAtLoop DEF CopyFails, NeedsLoad
  <2>2. /\ Sound(history_cleanupcache(history))
        /\ history_cleanupcache(history) # <<>>
    BY <2>1, CleanupSound
  <2>3. PICK ok \in MallocResult :
          /\ history' = history_pop(history_cleanupcache(history), ok)
          /\ asked' = ~ok
    BY <1>2 DEF CopyFails
  <2>4. pc' = "loop"
    BY <1>2 DEF CopyFails, NeedsLoad, AtLoop
  <2> QED
    BY <2>2, <2>3, <2>4, PopStep
<1>3. ASSUME IInv, Show PROVE IInv'
  <2>1. /\ Sound(history) /\ history # <<>> /\ Cached(history[1])
        /\ history[1].loc.type \in Displayable
    BY <1>3, HeadAtLoop DEF Show
  <2> QED
    BY <1>3, <2>1, DisplaySound DEF Show, IInv
<1>4. ASSUME IInv, AskFilename PROVE IInv'
  BY <1>4 DEF AskFilename, AtLoop, IInv, ShownIsCached, QueryOnlyOnRequest,
     NeedsLoad
<1> QED
  BY <1>1, <1>2, <1>3, <1>4, StartPageKeeps, LoadKeeps DEF Loop

\* On screen.
LEMMA HeadOnScreen ==
    ASSUME IInv, pc = "display"
    PROVE  /\ Sound(history) /\ history # <<>> /\ Top = history[1]
           /\ Top \in Node /\ Cached(Top) /\ Top.loc.type \in Displayable
           /\ Top.loc \in Location
<1>1. Sound(history) /\ history # <<>>
  BY DEF IInv, ShownIsCached
<1>2. Top = history[1] /\ Top \in Node
  BY <1>1, NodesOf DEF Sound, Top
<1> QED
  BY <1>1, <1>2 DEF IInv, ShownIsCached, Node, NodeShape

\* The head without its copy, and with nothing selected.
LEMMA RefreshFacts ==
    ASSUME IInv, Refresh
    PROVE  /\ Sound(history')
           /\ Len(history') = Len(history)
           /\ history'[1].loc = history[1].loc
           /\ ~Cached(history'[1])
           /\ \A i \in 2 .. Len(history) : history'[i] = history[i]
<1>1. /\ Sound(history) /\ history # <<>> /\ Top = history[1] /\ Top \in Node
  BY HeadOnScreen DEF Refresh
<1> DEFINE node == Uncache(Top)
<1>2. node \in Node /\ ~Cached(node) /\ node.loc = history[1].loc
  BY <1>1, UncacheFacts
<1> HIDE DEF node
<1> DEFINE bare == SetHead(history, node)
<1>3. /\ bare \in Seq(Node) /\ bare # <<>> /\ Len(bare) = Len(history)
      /\ bare[1] = node
      /\ \A i \in 2 .. Len(history) : bare[i] = history[i]
  BY <1>1, <1>2, SetHeadFacts DEF Sound
<1>4. history' = Select(bare, NoLine) /\ NoLine \in Int
  BY DEF Refresh, node, NoLine
<1> HIDE DEF bare
<1>5. /\ history' \in Seq(Node) /\ Len(history') = Len(bare)
      /\ \A i \in 2 .. Len(bare) : history'[i] = bare[i]
      /\ history'[1].loc = bare[1].loc
      /\ history'[1].cache = bare[1].cache
  BY <1>3, <1>4, SelectFacts
<1>6. ~Cached(history'[1])
  BY <1>2, <1>3, <1>5 DEF Cached
<1>7. /\ Len(history') = Len(history)
      /\ history'[1].loc = history[1].loc
      /\ \A i \in 2 .. Len(history) : history'[i] = history[i]
  BY <1>2, <1>3, <1>5
<1>8. Sound(history')
  BY <1>1, <1>5, <1>6, <1>7, HeadSound
<1> QED
  BY <1>6, <1>7, <1>8

LEMMA MoveFacts ==
    ASSUME IInv, MoveSelection
    PROVE  /\ Sound(history')
           /\ Len(history') = Len(history)
           /\ history' # <<>>
           /\ history'[1].loc = history[1].loc
           /\ history'[1].cache = history[1].cache
           /\ \A i \in 2 .. Len(history) : history'[i] = history[i]
<1>1. /\ Sound(history) /\ history # <<>> /\ Top = history[1] /\ Top \in Node
      /\ Cached(history[1])
  BY HeadOnScreen DEF MoveSelection, InMenu
<1>2. Top.cache.links \subseteq Nat
  BY <1>1 DEF Node, NodeShape, Page, NoPage
<1>3. PICK line \in Int : history' = Select(history, line)
  BY <1>2 DEF MoveSelection, NoLine
<1>4. /\ history' \in Seq(Node) /\ Len(history') = Len(history)
      /\ history' # <<>>
      /\ \A i \in 2 .. Len(history) : history'[i] = history[i]
      /\ history'[1].loc = history[1].loc
      /\ history'[1].cache = history[1].cache
  BY <1>1, <1>3, SelectFacts DEF Sound
<1>5. Sound(history')
  BY <1>1, <1>4, HeadSound
<1> QED
  BY <1>4, <1>5

LEMMA KeyKeeps == IInv /\ Key => IInv'
<1>1. ASSUME IInv, NEW loc \in Targets, EditUrl(loc) \/ FollowLink(loc) \/ SaveLink(loc)
      PROVE  IInv'
  <2>1. loc \in Location /\ AsFile(loc) \in Location
    BY BrowserAssumption, KnownLocations
  <2> QED
    BY <1>1, <2>1, PushStep DEF EditUrl, FollowLink, SaveLink, InMenu
<1>2. ASSUME IInv, SaveText \/ JumpMain PROVE IInv'
  <2>1. AsFile(Top.loc) \in Location /\ MainMenu(Top.loc) \in Location
    BY <1>2, HeadOnScreen, KnownLocations DEF SaveText, JumpMain, InText
  <2> QED
    BY <1>2, <2>1, PushStep DEF SaveText, JumpMain, InText
<1>3. ASSUME IInv, Help \/ JumpHome PROVE IInv'
  BY <1>3, KnownLocations, PushStep DEF Help, JumpHome
<1>4. ASSUME IInv, Back PROVE IInv'
  BY <1>4, HeadOnScreen, PopStep DEF Back
<1>5. ASSUME IInv, Refresh PROVE IInv'
  BY <1>5, RefreshFacts DEF Refresh, IInv, ShownIsCached, QueryOnlyOnRequest
<1>6. ASSUME IInv, MoveSelection PROVE IInv'
  <2>1. Sound(history') /\ history' # <<>> /\ Head(history') = history'[1]
    BY <1>6, MoveFacts, NodesOf DEF Sound
  <2>2. /\ history'[1].loc = Top.loc /\ history'[1].cache = Top.cache
        /\ Cached(Top) /\ Top.loc.type \in Displayable
    BY <1>6, MoveFacts, HeadOnScreen DEF MoveSelection, InMenu
  <2>3. pc' = "display" /\ pc = "display" /\ asked' = asked
    BY <1>6 DEF MoveSelection, InMenu
  <2> QED
    BY <1>6, <2>1, <2>2, <2>3 DEF IInv, ShownIsCached, QueryOnlyOnRequest,
       NeedsLoad, AtLoop, Top, Cached
<1>7. ASSUME IInv, Quit PROVE IInv'
  BY <1>7 DEF Quit, IInv, ShownIsCached, QueryOnlyOnRequest, NeedsLoad, AtLoop
<1> QED
  BY <1>1, <1>2, <1>3, <1>4, <1>5, <1>6, <1>7 DEF Key

LEMMA NextIInv == IInv /\ [Next]_vars => IInv'
<1>1. ASSUME IInv, SaveOrCancel PROVE IInv'
  <2>1. Sound(history) /\ history # <<>>
    BY <1>1 DEF SaveOrCancel, IInv
  <2> QED
    BY <1>1, <2>1, PopStep DEF SaveOrCancel
<1>2. ASSUME IInv, UNCHANGED vars PROVE IInv'
  BY <1>2 DEF vars, IInv, ShownIsCached, QueryOnlyOnRequest, NeedsLoad, AtLoop, Top
<1> QED
  BY <1>1, <1>2, LoopKeeps, KeyKeeps DEF Next, Ended

\* The inductive invariant of main()'s loop and of the keys.
THEOREM Invariance == Spec => []IInv
BY InitIInv, NextIInv, PTL DEF Spec

\* Every variable keeps its shape; a node records the length of its copy.
THEOREM TypeCorrect == Spec => []TypeOK
<1>1. IInv => TypeOK
  BY DEF IInv, Sound, TypeOK
<1> QED
  BY <1>1, Invariance, PTL

\* display_menu() and display_text() always find a page to show.
THEOREM AlwaysAPage == Spec => []ShownIsCached
BY Invariance, PTL DEF IInv

\* A file name is asked for the location just opened only, never on the way
\* back.
THEOREM OnlyHeadAsks == Spec => []OnlyHeadIsSaved
<1>1. IInv => OnlyHeadIsSaved
  BY NodesOf DEF IInv, Sound, OnlyHeadIsSaved
<1> QED
  BY <1>1, Invariance, PTL

\* The shortcut of history_push() leaves no location two places above itself.
THEOREM NeverADetour == Spec => []NoDetour
<1>1. IInv => NoDetour
  <2> SUFFICES ASSUME IInv, NEW i \in DOMAIN history, i + 2 \in DOMAIN history
               PROVE  history[i].loc # history[i + 2].loc
    BY NodesOf DEF NoDetour, IInv, Sound
  <2>1. i \in 1 .. Len(history) - 2
    BY NodesOf DEF IInv, Sound
  <2> QED
    BY <2>1 DEF IInv, Sound
<1> QED
  BY <1>1, Invariance, PTL

\* The start page shown is built anew whenever one comes back to it.
THEOREM StartPageIsFresh == Spec => []EmbeddedRebuilt
<1>1. IInv => EmbeddedRebuilt
  BY HeadOnScreen, NodesOf DEF IInv, Sound, EmbeddedRebuilt
<1> QED
  BY <1>1, Invariance, PTL

\* A query is sent because the user asked for it, unless memory was refused for
\* the notice.
THEOREM QueriesAreAsked == Spec => []QueryOnlyOnRequest
<1>1. IInv => QueryOnlyOnRequest
  BY DEF IInv
<1> QED
  BY <1>1, Invariance, PTL
-----------------------------------------------------------------------------
-----------------------------------------------------------------------------
(* The session implements Navigation: each of its steps is a step of the   *)
(* walk over a stack of locations, or leaves stack and screen alone.       *)

LEMMA LocationsOf ==
    ASSUME NEW nodes \in Seq(Node)
    PROVE  /\ Locations(nodes) \in Seq(Location)
           /\ Len(Locations(nodes)) = Len(nodes)
           /\ \A i \in 1 .. Len(nodes) : Locations(nodes)[i] = nodes[i].loc
           /\ nodes = <<>> <=> Locations(nodes) = <<>>
<1>1. Len(nodes) \in Nat /\ \A i \in 1 .. Len(nodes) : nodes[i].loc \in Location
  BY NodesOf DEF Node, NodeShape
<1> DEFINE locs == [i \in 1 .. Len(nodes) |-> nodes[i].loc]
<1>2. locs \in Seq(Location)
  BY <1>1, SeqDef
<1>3. Len(locs) = Len(nodes)
  BY <1>1, <1>2, LenProperties
<1>4. Len(<<>>) = 0
  OBVIOUS
<1>5. nodes = <<>> <=> locs = <<>>
  BY <1>2, <1>3, <1>4, NodesOf, EmptySeq
<1> QED
  BY <1>2, <1>3, <1>5 DEF Locations

LEMMA SameLocations ==
    ASSUME NEW nodes \in Seq(Node), NEW more \in Seq(Node),
           Len(more) = Len(nodes),
           \A i \in 1 .. Len(nodes) : more[i].loc = nodes[i].loc
    PROVE  Locations(more) = Locations(nodes)
<1> DEFINE s == Locations(more)
           t == Locations(nodes)
<1>1. /\ s \in Seq(Location) /\ t \in Seq(Location) /\ Len(s) = Len(t)
      /\ \A i \in 1 .. Len(s) : s[i] = t[i]
  BY LocationsOf
<1> HIDE DEF s, t
<1>2. s = t
  BY <1>1, SeqEqual
<1> QED
  BY <1>2 DEF s, t

LEMMA PopLocations ==
    ASSUME NEW nodes \in Seq(Node), nodes # <<>>, NEW ok \in BOOLEAN
    PROVE  Locations(history_pop(nodes, ok)) = Tail(Locations(nodes))
<1> DEFINE rest == history_pop(nodes, ok)
           s == Locations(rest)
           t == Tail(Locations(nodes))
<1>1. /\ rest \in Seq(Node) /\ Len(rest) = Len(nodes) - 1
      /\ \A i \in 1 .. Len(nodes) - 1 : rest[i].loc = nodes[i + 1].loc
  BY PopFacts
<1>2. /\ Locations(nodes) \in Seq(Location) /\ Locations(nodes) # <<>>
      /\ Len(Locations(nodes)) = Len(nodes)
      /\ \A i \in 1 .. Len(nodes) : Locations(nodes)[i] = nodes[i].loc
  BY LocationsOf
<1>3. /\ t \in Seq(Location) /\ Len(t) = Len(nodes) - 1
      /\ \A i \in 1 .. Len(t) : t[i] = Locations(nodes)[i + 1]
  BY <1>2, HeadTailProperties
<1>4. /\ s \in Seq(Location) /\ Len(s) = Len(nodes) - 1
      /\ \A i \in 1 .. Len(nodes) - 1 : s[i] = rest[i].loc
  BY <1>1, LocationsOf
<1>5. Len(nodes) \in Nat /\ Len(nodes) > 0
  BY NodesOf
<1> HIDE DEF rest, s, t
<1>6. \A i \in 1 .. Len(s) : s[i] = t[i]
  BY <1>1, <1>2, <1>3, <1>4, <1>5
<1>7. s = t
  BY <1>3, <1>4, <1>6, SeqEqual
<1> QED
  BY <1>7 DEF rest, s, t

LEMMA AddLocations ==
    ASSUME NEW nodes \in Seq(Node), NEW loc \in Location
    PROVE  Locations(<<NewNode(loc)>> \o nodes) = <<loc>> \o Locations(nodes)
<1> DEFINE more == <<NewNode(loc)>> \o nodes
           s == Locations(more)
           t == <<loc>> \o Locations(nodes)
<1>1. /\ more \in Seq(Node) /\ Len(more) = Len(nodes) + 1
      /\ more[1] = NewNode(loc)
      /\ \A i \in 1 .. Len(nodes) : more[i + 1] = nodes[i]
  BY AddFacts
<1>2. /\ Locations(nodes) \in Seq(Location)
      /\ Len(Locations(nodes)) = Len(nodes)
      /\ \A i \in 1 .. Len(nodes) : Locations(nodes)[i] = nodes[i].loc
  BY LocationsOf
<1>3. <<loc>> \in Seq(Location) /\ Len(<<loc>>) = 1 /\ <<loc>>[1] = loc
  OBVIOUS
<1>4. /\ t \in Seq(Location) /\ Len(t) = 1 + Len(nodes)
      /\ \A i \in 1 .. 1 + Len(nodes) :
           t[i] = IF i <= 1 THEN <<loc>>[i] ELSE Locations(nodes)[i - 1]
  BY <1>2, <1>3, ConcatProperties
<1>5. /\ s \in Seq(Location) /\ Len(s) = Len(nodes) + 1
      /\ \A i \in 1 .. Len(nodes) + 1 : s[i] = more[i].loc
  BY <1>1, LocationsOf
<1>6. Len(nodes) \in Nat /\ NewNode(loc).loc = loc
  BY NodesOf, NewNodeFacts
<1> HIDE DEF more, s, t
<1>7. \A i \in 1 .. Len(s) : s[i] = t[i]
  <2> SUFFICES ASSUME NEW i \in 1 .. Len(s) PROVE s[i] = t[i]
    OBVIOUS
  <2>1. CASE i = 1
    BY <1>1, <1>3, <1>4, <1>5, <1>6, <2>1
  <2>2. CASE i # 1
    <3>1. i - 1 \in 1 .. Len(nodes) /\ (i - 1) + 1 = i /\ ~(i <= 1) /\ i \in 1 .. 1 + Len(nodes)
      BY <1>5, <1>6, <2>2
    <3>2. more[i] = nodes[i - 1] /\ t[i] = nodes[i - 1].loc
      BY <1>1, <1>2, <1>4, <3>1
    <3> QED
      BY <1>5, <3>2
  <2> QED
    BY <2>1, <2>2
<1>8. s = t
  BY <1>4, <1>5, <1>6, <1>7, SeqEqual
<1> QED
  BY <1>8 DEF more, s, t

-----------------------------------------------------------------------------
(* The steps.                                                              *)

\* A list shown keeps its locations.
LEMMA DisplayLocations ==
    ASSUME NEW nodes \in Seq(Node), nodes # <<>>, Display(nodes)
    PROVE  /\ history' \in Seq(Node)
           /\ Len(history') = Len(nodes)
           /\ \A i \in 2 .. Len(nodes) : history'[i] = nodes[i]
           /\ Locations(history') = Locations(nodes)
<1>1. Head(nodes) = nodes[1] /\ nodes[1] \in Node /\ Len(nodes) \in Nat
  BY NodesOf
<1>2. PICK line \in Selections(nodes[1]) : history' = Select(nodes, line)
  BY <1>1 DEF Display
<1>3. line \in Int
  BY <1>1, <1>2, SelectionsAreLines
<1>4. /\ history' \in Seq(Node)
      /\ Len(history') = Len(nodes)
      /\ \A i \in 2 .. Len(nodes) : history'[i] = nodes[i]
      /\ history'[1].loc = nodes[1].loc
  BY <1>2, <1>3, SelectFacts
<1>5. \A i \in 1 .. Len(nodes) : history'[i].loc = nodes[i].loc
  <2> SUFFICES ASSUME NEW i \in 1 .. Len(nodes) PROVE history'[i].loc = nodes[i].loc
    OBVIOUS
  <2>1. i = 1 \/ i \in 2 .. Len(nodes)
    BY <1>1
  <2> QED
    BY <1>4, <2>1
<1> QED
  BY <1>4, <1>5, SameLocations

\* A page that arrives: the copies change, the locations do not.
LEMMA LoadFacts ==
    ASSUME IInv, Load
    PROVE  /\ Locations(history') = Locations(history)
           /\ Len(history') = Len(history)
           /\ \A i \in 2 .. Len(history) :
                /\ history'[i] \in {history[i], Uncache(history[i])}
                /\ history'[i] = history_cleanupcache(history)[i]
           /\ history' \in Seq(Node)
<1>1. /\ Sound(history) /\ history # <<>>
      /\ history \in Seq(Node) /\ Len(history) \in Nat
  BY HeadAtLoop, NodesOf DEF Load, NeedsLoad, Sound
<1> DEFINE room == history_cleanupcache(history)
<1>2. /\ room \in Seq(Node) /\ room # <<>> /\ Len(room) = Len(history)
      /\ \A i \in 1 .. Len(history) :
           /\ room[i].loc = history[i].loc
           /\ room[i] \in {history[i], Uncache(history[i])}
  BY <1>1, CleanupSound, CleanupFacts DEF Sound
<1>3. PICK page \in Page : Display(Fill(room, page))
  BY HistoryAssumption DEF Load, Contents
<1> HIDE DEF room
<1>4. Head(room) = room[1] /\ room[1] \in Node
  BY <1>2, NodesOf
<1> DEFINE node == Store(room[1], page)
           full == SetHead(room, node)
<1>5. node \in Node /\ node.loc = room[1].loc
  BY <1>4, StoreFacts
<1>6. Fill(room, page) = full
  BY <1>4 DEF Fill
<1> HIDE DEF node
<1>7. /\ full \in Seq(Node) /\ full # <<>> /\ Len(full) = Len(room)
      /\ full[1] = node
      /\ \A i \in 2 .. Len(room) : full[i] = room[i]
  BY <1>2, <1>5, SetHeadFacts
<1> HIDE DEF full
<1>8. /\ Len(history') = Len(full) /\ history' \in Seq(Node)
      /\ \A i \in 2 .. Len(full) : history'[i] = full[i]
      /\ Locations(history') = Locations(full)
  BY <1>3, <1>6, <1>7, DisplayLocations
<1>9. Locations(full) = Locations(history)
  <2>1. \A i \in 1 .. Len(history) : full[i].loc = history[i].loc
    <3> SUFFICES ASSUME NEW i \in 1 .. Len(history) PROVE full[i].loc = history[i].loc
      OBVIOUS
    <3>1. i = 1 \/ i \in 2 .. Len(history)
      BY <1>1
    <3> QED
      BY <1>2, <1>5, <1>7, <3>1
  <2> QED
    BY <1>1, <1>2, <1>7, <2>1, SameLocations
<1> QED
  BY <1>1, <1>2, <1>7, <1>8, <1>9 DEF room

\* A step that goes back to the loop by popping the head.
LEMMA PopMisses ==
    ASSUME NEW nodes \in Seq(Node), Locations(nodes) = Locations(history),
           nodes # <<>>, NEW ok \in MallocResult,
           history' = history_pop(nodes, ok)
    PROVE  Locations(history') = Tail(Locations(history))
BY PopLocations, MallocResultIsBoolean

LEMMA CopyFailsFacts ==
    ASSUME IInv, CopyFails
    PROVE  /\ history_cleanupcache(history) \in Seq(Node)
           /\ history_cleanupcache(history) # <<>>
           /\ Locations(history_cleanupcache(history)) = Locations(history)
<1>1. Sound(history) /\ history # <<>>
  BY HeadAtLoop DEF CopyFails, NeedsLoad
<1> QED
  BY <1>1, CleanupSound, SameLocations DEF Sound

\* A key that pushes a location opens it, or changes nothing when memory is
\* refused.
LEMMA PushNavigates ==
    ASSUME IInv, pc = "display", NEW loc \in Location, Push(loc)
    PROVE  Nav!Next
<1>1. /\ history \in Seq(Node) /\ history # <<>>
      /\ Screen = "page" /\ Screen' = "busy"
  BY HeadOnScreen DEF Sound, Screen, Push
<1>2. PICK ok \in MallocResult : history' = history_push(history, loc, ok)
  BY DEF Push
<1>3. ok \in BOOLEAN
  BY MallocResultIsBoolean
<1> DEFINE stack == Locations(history)
<1>4. IsPrevious(history, loc) <=> Len(stack) > 1 /\ stack[2] = loc
  <2>1. /\ Len(stack) = Len(history) /\ Len(history) \in Nat
        /\ \A i \in 1 .. Len(history) : stack[i] = history[i].loc
    BY <1>1, LocationsOf, NodesOf
  <2> QED
    BY <2>1 DEF IsPrevious
<1>5. CASE IsPrevious(history, loc)
  <2>1. Locations(history') = Tail(stack)
    BY <1>1, <1>2, <1>3, <1>5, PopLocations DEF history_push
  <2>2. Nav!Open(loc)
    BY <1>1, <1>4, <1>5, <2>1 DEF Nav!Open, Nav!Opened
  <2> QED
    BY <2>2 DEF Nav!Next
<1>6. CASE ~IsPrevious(history, loc) /\ ok
  <2>1. Locations(history') = <<loc>> \o stack
    BY <1>1, <1>2, <1>6, AddLocations DEF history_push
  <2>2. Nav!Open(loc)
    BY <1>1, <1>4, <1>6, <2>1 DEF Nav!Open, Nav!Opened
  <2> QED
    BY <2>2 DEF Nav!Next
<1>7. CASE ~IsPrevious(history, loc) /\ ~ok
  <2>1. history' = history
    BY <1>2, <1>7 DEF history_push
  <2>2. Nav!Stay
    BY <1>1, <2>1 DEF Nav!Stay
  <2> QED
    BY <2>2 DEF Nav!Next
<1> QED
  BY <1>3, <1>5, <1>6, <1>7

LEMMA StartPageNavigates == IInv /\ StartPage => Nav!Next
<1> SUFFICES ASSUME IInv, StartPage PROVE Nav!Next
  OBVIOUS
<1>1. PICK ok \in MallocResult :
        /\ history' = history_push(<<>>, Welcome, ok)
        /\ pc' = IF ok THEN "loop" ELSE "ended"
  BY DEF StartPage
<1>2. <<>> \in Seq(Node) /\ Len(<<>>) = 0
  BY EmptySeq
<1>3. history = <<>> /\ Screen = "busy" /\ Screen' = IF ok THEN "busy" ELSE "closed"
  BY <1>1 DEF StartPage, Screen
<1>4. Locations(<<>>) = <<>>
  BY <1>2, LocationsOf
<1>5. history' = IF ok THEN <<NewNode(Welcome)>> \o <<>> ELSE <<>>
  BY <1>1, <1>2 DEF history_push, IsPrevious
<1>6. Locations(<<NewNode(Welcome)>> \o <<>>) = <<Welcome>> \o <<>>
  BY <1>2, <1>4, AddLocations, KnownLocations
<1>7. <<Welcome>> \o <<>> = <<Welcome>>
  BY ConcatEmptySeq, KnownLocations
<1>8. Nav!StartOver
  BY <1>3, <1>4, <1>5, <1>6, <1>7 DEF Nav!StartOver
<1> QED
  BY <1>8 DEF Nav!Next

\* The head of the list and the head of the stack.
LEMMA HeadLocation ==
    ASSUME NEW nodes \in Seq(Node), nodes # <<>>
    PROVE  /\ Locations(nodes) # <<>>
           /\ Locations(nodes)[1] = Head(nodes).loc
           /\ Head(nodes).loc \in Location
<1>1. Head(nodes) = nodes[1] /\ nodes[1] \in Node /\ 1 \in 1 .. Len(nodes)
  BY NodesOf
<1> QED
  BY <1>1, LocationsOf DEF Node, NodeShape

LEMMA LoopNavigates == IInv /\ Loop => Nav!Next
<1>0. ASSUME IInv, AtLoop
      PROVE  /\ history \in Seq(Node) /\ history # <<>>
             /\ Locations(history) # <<>> /\ Screen = "busy"
             /\ Locations(history)[1] = Top.loc /\ Top.loc \in Location
  BY <1>0, HeadAtLoop, HeadLocation DEF AtLoop, Sound, Top, Screen
<1>1. ASSUME IInv, LoadFails PROVE Nav!Next
  <2>1. Locations(history') = Tail(Locations(history)) /\ Screen' = Screen
    BY <1>0, <1>1, PopMisses DEF LoadFails, NeedsLoad, Screen
  <2>2. Nav!Miss
    BY <1>0, <1>1, <2>1 DEF Nav!Miss, LoadFails, NeedsLoad
  <2> QED
    BY <2>2 DEF Nav!Next
<1>2. ASSUME IInv, CopyFails PROVE Nav!Next
  <2>1. Locations(history') = Tail(Locations(history)) /\ Screen' = Screen
    BY <1>2, CopyFailsFacts, PopMisses DEF CopyFails, Screen
  <2>2. Nav!Miss
    BY <1>0, <1>2, <2>1 DEF Nav!Miss, CopyFails, NeedsLoad
  <2> QED
    BY <2>2 DEF Nav!Next
<1>3. ASSUME IInv, Load PROVE Nav!Next
  <2>1. Locations(history') = Locations(history) /\ Screen' = "page"
    BY <1>3, LoadFacts DEF Load, Display, Screen
  <2>2. Nav!Present
    BY <1>0, <1>3, <2>1 DEF Nav!Present, Load, NeedsLoad
  <2> QED
    BY <2>2 DEF Nav!Next
<1>4. ASSUME IInv, Show PROVE Nav!Next
  <2>1. Locations(history') = Locations(history) /\ Screen' = "page"
    BY <1>0, <1>4, DisplayLocations DEF Show, Display, Screen
  <2>2. Nav!Present
    BY <1>0, <1>4, <2>1 DEF Nav!Present, Show
  <2> QED
    BY <2>2 DEF Nav!Next
<1>5. ASSUME IInv, AskFilename PROVE Nav!Next
  <2>1. Locations(history') = Locations(history) /\ Screen' = "dialog"
    BY <1>5 DEF AskFilename, Screen
  <2>2. Nav!Present
    BY <1>0, <1>5, <2>1 DEF Nav!Present, AskFilename
  <2> QED
    BY <2>2 DEF Nav!Next
<1> QED
  BY <1>1, <1>2, <1>3, <1>4, <1>5, StartPageNavigates DEF Loop

LEMMA KeyNavigates ==
    IInv /\ Key => Nav!Next \/ UNCHANGED <<Locations(history), Screen>>
<1>1. ASSUME IInv, NEW loc \in Targets, EditUrl(loc) \/ FollowLink(loc) \/ SaveLink(loc)
      PROVE  Nav!Next
  <2>1. loc \in Location /\ AsFile(loc) \in Location
    BY BrowserAssumption, KnownLocations
  <2> QED
    BY <1>1, <2>1, PushNavigates DEF EditUrl, FollowLink, SaveLink, InMenu
<1>2. ASSUME IInv, SaveText \/ JumpMain PROVE Nav!Next
  <2>1. AsFile(Top.loc) \in Location /\ MainMenu(Top.loc) \in Location
    BY <1>2, HeadOnScreen, KnownLocations DEF SaveText, JumpMain, InText
  <2> QED
    BY <1>2, <2>1, PushNavigates DEF SaveText, JumpMain, InText
<1>3. ASSUME IInv, Help \/ JumpHome PROVE Nav!Next
  BY <1>3, KnownLocations, PushNavigates DEF Help, JumpHome
<1>4. ASSUME IInv, Back PROVE Nav!Next
  <2>1. history \in Seq(Node) /\ history # <<>>
    BY <1>4, HeadOnScreen DEF Back, Sound
  <2>2. Locations(history') = Tail(Locations(history))
    BY <1>4, <2>1, PopMisses DEF Back
  <2>3. Nav!Return
    BY <1>4, <2>2 DEF Nav!Return, Back, Screen
  <2> QED
    BY <2>3 DEF Nav!Next
<1>5. ASSUME IInv, Refresh PROVE Nav!Next
  <2>1. Sound(history) /\ Sound(history') /\ Len(history') = Len(history)
    BY <1>5, HeadOnScreen, RefreshFacts DEF Refresh
  <2>2. \A i \in 1 .. Len(history) : history'[i].loc = history[i].loc
    <3> SUFFICES ASSUME NEW i \in 1 .. Len(history)
                 PROVE  history'[i].loc = history[i].loc
      OBVIOUS
    <3>1. i = 1 \/ i \in 2 .. Len(history)
      BY <2>1, NodesOf DEF Sound
    <3> QED
      BY <1>5, <3>1, RefreshFacts
  <2>3. Locations(history') = Locations(history)
    BY <2>1, <2>2, SameLocations DEF Sound
  <2>4. Nav!Stay
    BY <1>5, <2>3 DEF Nav!Stay, Refresh, Screen
  <2> QED
    BY <2>4 DEF Nav!Next
<1>6. ASSUME IInv, MoveSelection PROVE UNCHANGED <<Locations(history), Screen>>
  <2>1. Sound(history) /\ Sound(history') /\ Len(history') = Len(history)
    BY <1>6, HeadOnScreen, MoveFacts DEF MoveSelection, InMenu
  <2>2. \A i \in 1 .. Len(history) : history'[i].loc = history[i].loc
    <3> SUFFICES ASSUME NEW i \in 1 .. Len(history)
                 PROVE  history'[i].loc = history[i].loc
      OBVIOUS
    <3>1. i = 1 \/ i \in 2 .. Len(history)
      BY <2>1, NodesOf DEF Sound
    <3> QED
      BY <1>6, <3>1, MoveFacts
  <2>3. Locations(history') = Locations(history)
    BY <2>1, <2>2, SameLocations DEF Sound
  <2> QED
    BY <1>6, <2>3 DEF MoveSelection, Screen
<1>7. ASSUME IInv, Quit PROVE Nav!Next
  <2>1. Nav!Close
    BY <1>7 DEF Nav!Close, Quit, Screen
  <2> QED
    BY <2>1 DEF Nav!Next
<1> QED
  BY <1>1, <1>2, <1>3, <1>4, <1>5, <1>6, <1>7 DEF Key

LEMMA SaveNavigates == IInv /\ SaveOrCancel => Nav!Next
<1> SUFFICES ASSUME IInv, SaveOrCancel PROVE Nav!Next
  OBVIOUS
<1>1. history \in Seq(Node) /\ history # <<>>
  BY DEF SaveOrCancel, IInv, Sound
<1>2. Locations(history') = Tail(Locations(history))
  BY <1>1, PopMisses DEF SaveOrCancel
<1>3. Nav!Return
  BY <1>2 DEF Nav!Return, SaveOrCancel, Screen
<1> QED
  BY <1>3 DEF Nav!Next

LEMMA InitNavigates == Init => Nav!Init
<1> SUFFICES ASSUME Init PROVE Nav!Init
  OBVIOUS
<1>1. <<>> \in Seq(Node) /\ Locations(<<>>) = <<>>
  BY EmptySeq, LocationsOf
<1>2. ASSUME NEW loc \in Targets PROVE Locations(<<NewNode(loc)>>) = <<loc>>
  <2>1. loc \in Location
    BY BrowserAssumption
  <2>2. <<NewNode(loc)>> \o <<>> = <<NewNode(loc)>> /\ <<loc>> \o <<>> = <<loc>>
    BY <2>1, NewNodeFacts, ConcatEmptySeq
  <2> QED
    BY <1>1, <2>1, <2>2, AddLocations
<1>3. Screen = "busy"
  BY DEF Init, Screen
<1> QED
  BY <1>1, <1>2, <1>3, BrowserAssumption DEF Init, Nav!Init

\* The session of main() is a walk over a stack of locations: whatever is
\* cached, evicted or refused by malloc() does not show in where the user is.
THEOREM Refinement == Spec => Navigates
<1>1. IInv /\ [Next]_vars => [Nav!Next]_<<Locations(history), Screen>>
  <2>1. UNCHANGED vars => UNCHANGED <<Locations(history), Screen>>
    BY DEF vars, Screen
  <2> QED
    BY <2>1, LoopNavigates, KeyNavigates, SaveNavigates DEF Next, Ended
<1> QED
  BY <1>1, InitNavigates, Invariance, PTL DEF Spec, Navigates, Nav!Spec
-----------------------------------------------------------------------------
(* What a step does to the pages below the head.                           *)

LEMMA PopShifts ==
    ASSUME NEW nodes \in Seq(Node), nodes # <<>>, history \in Seq(Node),
           Len(nodes) = Len(history),
           \A i \in 1 .. Len(history) : nodes[i] \in {history[i], Uncache(history[i])},
           NEW ok \in MallocResult, history' = history_pop(nodes, ok)
    PROVE  Shifted(-1)
<1>1. /\ Len(history') = Len(nodes) - 1
      /\ \A i \in 2 .. Len(nodes) - 1 : history'[i] = nodes[i + 1]
  BY PopFacts, MallocResultIsBoolean
<1>2. /\ Len(history) \in Nat /\ DOMAIN history = 1 .. Len(history)
      /\ \A i \in 1 .. Len(history) : history[i] \in Node
  BY NodesOf
<1> SUFFICES ASSUME NEW i \in DOMAIN history, i + (-1) > 1
             PROVE  Covered(history[i], history'[i + (-1)])
  BY <1>1, <1>2 DEF Shifted
<1>3. i - 1 \in 2 .. Len(nodes) - 1 /\ (i - 1) + 1 = i /\ i + (-1) = i - 1
  BY <1>2
<1>4. history'[i + (-1)] \in {history[i], Uncache(history[i])}
  BY <1>1, <1>2, <1>3
<1> QED
  BY <1>2, <1>4, UncacheFacts DEF Covered

\* A step that keeps the pages below the head in their places.
LEMMA KeepShifts ==
    ASSUME history \in Seq(Node), Len(history') = Len(history),
           \A i \in 2 .. Len(history) :
             history'[i] \in {history[i], Uncache(history[i])}
    PROVE  Shifted(0)
<1>1. /\ Len(history) \in Nat /\ DOMAIN history = 1 .. Len(history)
      /\ \A i \in 1 .. Len(history) : history[i] \in Node
  BY NodesOf
<1> SUFFICES ASSUME NEW i \in DOMAIN history, i > 1
             PROVE  Covered(history[i], history'[i + 0])
  BY <1>1 DEF Shifted
<1>2. i \in 2 .. Len(history) /\ i + 0 = i
  BY <1>1
<1>3. history'[i + 0] \in {history[i], Uncache(history[i])}
  BY <1>2
<1> QED
  BY <1>1, <1>3, UncacheFacts DEF Covered

LEMMA PushShifts ==
    ASSUME IInv, pc = "display", NEW loc \in Location, Push(loc)
    PROVE  \E shift \in {-1, 0, 1} : Shifted(shift)
<1>1. history \in Seq(Node) /\ history # <<>>
  BY HeadOnScreen DEF Sound
<1>2. PICK ok \in MallocResult : history' = history_push(history, loc, ok)
  BY DEF Push
<1>3. CASE IsPrevious(history, loc)
  BY <1>1, <1>2, <1>3, PopShifts DEF history_push
<1>4. CASE ~IsPrevious(history, loc) /\ ok
  <2>1. /\ Len(history') = Len(history) + 1
        /\ \A i \in 1 .. Len(history) : history'[i + 1] = history[i]
    BY <1>1, <1>2, <1>4, AddFacts DEF history_push
  <2>2. Shifted(1)
    BY <1>1, <2>1, NodesOf DEF Shifted, Covered
  <2> QED
    BY <2>2
<1>5. CASE ~IsPrevious(history, loc) /\ ~ok
  <2>1. history' = history
    BY <1>2, <1>5, MallocResultIsBoolean DEF history_push
  <2> QED
    BY <1>1, <2>1, KeepShifts
<1> QED
  BY <1>3, <1>4, <1>5

LEMMA LoopShifts ==
    ASSUME IInv, Loop
    PROVE  \E shift \in {-1, 0, 1} : Shifted(shift)
<1>1. CASE StartPage
  <2>1. PICK ok \in MallocResult : history' = history_push(<<>>, Welcome, ok)
    BY <1>1 DEF StartPage
  <2>2. history = <<>> /\ <<>> \in Seq(Node) /\ Len(<<>>) = 0
    BY <1>1, EmptySeq DEF StartPage
  <2>3. DOMAIN history = {}
    BY <2>2, NodesOf
  <2>4. Len(history') = IF ok THEN Len(history) + 1 ELSE Len(history) + 0
    BY <2>1, <2>2, AddFacts, KnownLocations DEF history_push, IsPrevious
  <2> QED
    BY <2>3, <2>4 DEF Shifted
<1>2. CASE LoadFails
  BY <1>2, HeadAtLoop, PopShifts DEF LoadFails, NeedsLoad, Sound
<1>3. CASE CopyFails
  <2>1. /\ history \in Seq(Node)
        /\ history_cleanupcache(history) \in Seq(Node)
        /\ history_cleanupcache(history) # <<>>
    BY <1>3, HeadAtLoop, CopyFailsFacts DEF CopyFails, NeedsLoad, Sound
  <2>2. PICK ok \in MallocResult :
          history' = history_pop(history_cleanupcache(history), ok)
    BY <1>3 DEF CopyFails
  <2> QED
    BY <2>1, <2>2, CleanupFacts, PopShifts
<1>4. CASE Load
  BY <1>4, HeadAtLoop, LoadFacts, KeepShifts DEF Load, NeedsLoad, Sound
<1>5. CASE Show
  <2>1. history \in Seq(Node) /\ history # <<>> /\ Display(history)
    BY <1>5, HeadAtLoop DEF Show, Sound
  <2> QED
    BY <2>1, DisplayLocations, KeepShifts
<1>6. CASE AskFilename
  BY <1>6, HeadAtLoop, KeepShifts DEF AskFilename, Sound
<1> QED
  BY <1>1, <1>2, <1>3, <1>4, <1>5, <1>6 DEF Loop

LEMMA KeyShifts ==
    ASSUME IInv, Key
    PROVE  \E shift \in {-1, 0, 1} : Shifted(shift)
<1>1. ASSUME NEW loc \in Targets, EditUrl(loc) \/ FollowLink(loc) \/ SaveLink(loc)
      PROVE  \E shift \in {-1, 0, 1} : Shifted(shift)
  <2>1. loc \in Location /\ AsFile(loc) \in Location
    BY BrowserAssumption, KnownLocations
  <2> QED
    BY <1>1, <2>1, PushShifts DEF EditUrl, FollowLink, SaveLink, InMenu
<1>2. CASE SaveText \/ JumpMain
  <2>1. AsFile(Top.loc) \in Location /\ MainMenu(Top.loc) \in Location
    BY <1>2, HeadOnScreen, KnownLocations DEF SaveText, JumpMain, InText
  <2> QED
    BY <1>2, <2>1, PushShifts DEF SaveText, JumpMain, InText
<1>3. CASE Help \/ JumpHome
  BY <1>3, KnownLocations, PushShifts DEF Help, JumpHome
<1>4. CASE Back
  BY <1>4, HeadOnScreen, PopShifts DEF Back, Sound
<1>5. CASE Refresh
  BY <1>5, HeadOnScreen, RefreshFacts, KeepShifts DEF Refresh, Sound
<1>6. CASE MoveSelection
  BY <1>6, HeadOnScreen, MoveFacts, KeepShifts DEF MoveSelection, InMenu, Sound
<1>7. CASE Quit
  BY <1>7, HeadOnScreen, KeepShifts DEF Quit, Sound
<1> QED
  BY <1>1, <1>2, <1>3, <1>4, <1>5, <1>6, <1>7 DEF Key

\* Pages below the head keep their place, their selection, and their copy
\* unless history_cleanupcache() drops it.
THEOREM BelowHead == Spec => BelowHeadKept
<1>1. IInv /\ [Next]_vars => [\E shift \in {-1, 0, 1} : Shifted(shift)]_vars
  <2>1. ASSUME IInv, SaveOrCancel
        PROVE  \E shift \in {-1, 0, 1} : Shifted(shift)
    BY <2>1, PopShifts DEF SaveOrCancel, IInv, Sound
  <2> QED
    BY <2>1, LoopShifts, KeyShifts DEF Next, Ended
<1> QED
  BY <1>1, Invariance, PTL DEF Spec, BelowHeadKept
-----------------------------------------------------------------------------
(* The budget of the cache.                                                *)

\* The recursive function of Total, as the equations it satisfies.
LEMMA TotalRecursion ==
    ASSUME NEW nodes \in Seq(Node)
    PROVE  \E sum \in [0 .. Len(nodes) -> Nat] :
             /\ sum[0] = 0
             /\ \A n \in 1 .. Len(nodes) :
                  sum[n] = sum[n - 1] + nodes[n].cachesize
             /\ \A i : Total(nodes, i) = sum[i]
<1>1. /\ Len(nodes) \in Nat
      /\ \A n \in 1 .. Len(nodes) : nodes[n].cachesize \in Nat
  BY NodesOf DEF Node, NodeShape
<1> DEFINE len == Len(nodes)
           Sums(s) == [n \in 0 .. len |->
                         IF n = 0 THEN 0 ELSE s[n - 1] + nodes[n].cachesize]
           step == [p \in Nat \X Nat |->
                      IF p[1] + 1 \in 1 .. len
                      THEN p[2] + nodes[p[1] + 1].cachesize ELSE p[2]]
           chosen == CHOOSE s : s = Sums(s)
<1>2. step \in [Nat \X Nat -> Nat]
  BY <1>1
<1>3. PICK f \in [Nat -> Nat] :
        f[0] = 0 /\ \A n \in Nat : f[n + 1] = step[<<n, f[n]>>]
  <2> HIDE DEF step
  <2>1. 0 \in Nat
    OBVIOUS
  <2>2. Iterations(Nat, 0, step) # {}
    BY <1>2, <2>1, RecursionOnNat
  <2> QED
    BY <2>2 DEF Iterations
<1> DEFINE part == [n \in 0 .. len |-> f[n]]
<1>4. part = Sums(part)
  <2> SUFFICES ASSUME NEW n \in 0 .. len
               PROVE  f[n] = IF n = 0 THEN 0 ELSE part[n - 1] + nodes[n].cachesize
    OBVIOUS
  <2>1. CASE n = 0
    BY <1>3, <2>1
  <2>2. CASE n # 0
    <3>1. n - 1 \in Nat /\ (n - 1) + 1 = n /\ n \in 1 .. len /\ n - 1 \in 0 .. len
      BY <1>1, <2>2
    <3>2. f[n] = step[<<n - 1, f[n - 1]>>] /\ f[n - 1] \in Nat
      BY <1>3, <3>1
    <3>3. step[<<n - 1, f[n - 1]>>] = f[n - 1] + nodes[n].cachesize
      BY <3>1, <3>2
    <3> QED
      BY <2>2, <3>1, <3>2, <3>3
  <2> QED
    BY <2>1, <2>2
<1>5. chosen = Sums(chosen)
  BY <1>4
<1>6. \A i : Total(nodes, i) = chosen[i]
  BY DEF Total
<1> HIDE DEF chosen, step, part
<1>7. /\ chosen = [n \in 0 .. len |-> chosen[n]]
      /\ chosen[0] = 0
      /\ \A n \in 1 .. len : chosen[n] = chosen[n - 1] + nodes[n].cachesize
  <2>1. len \in Nat
    BY <1>1
  <2> HIDE DEF len
  <2>2. 0 \in 0 .. len /\ \A n \in 1 .. len : n \in 0 .. len /\ n # 0
    BY <2>1
  <2>3. \A n \in 0 .. len :
          chosen[n] = IF n = 0 THEN 0 ELSE chosen[n - 1] + nodes[n].cachesize
    BY <1>5
  <2>4. chosen = [n \in 0 .. len |-> chosen[n]]
    BY <1>5
  <2> QED
    BY <2>2, <2>3, <2>4
<1> DEFINE Good == {n \in Nat : n <= len => chosen[n] \in Nat}
<1>8. \A n \in Nat : n \in Good
  <2>1. 0 \in Good
    BY <1>7
  <2>2. ASSUME NEW n \in Nat, n \in Good PROVE n + 1 \in Good
    <3>0. len \in Nat /\ n + 1 \in Nat
      BY <1>1
    <3>1. CASE n + 1 <= len
      <4>1. n + 1 \in 1 .. len /\ (n + 1) - 1 = n /\ n <= len
        <5>1. len \in Nat
          BY <1>1
        <5> HIDE DEF len
        <5> QED
          BY <2>2, <3>1, <5>1
      <4>2. chosen[n + 1] = chosen[n] + nodes[n + 1].cachesize
        BY <1>7, <4>1
      <4>3. chosen[n] \in Nat /\ nodes[n + 1].cachesize \in Nat
        BY <1>1, <2>2, <4>1
      <4>4. \A x, y \in Nat : x + y \in Nat
        OBVIOUS
      <4>5. chosen[n] + nodes[n + 1].cachesize \in Nat
        BY <4>3, <4>4
      <4>6. chosen[n + 1] \in Nat
        BY <4>2, <4>5
      <4> QED
        BY <3>0, <4>6
    <3>2. CASE ~(n + 1 <= len)
      BY <3>0, <3>2
    <3> QED
      BY <3>1, <3>2
  <2> HIDE DEF Good
  <2> QED
    BY <2>1, <2>2, NatSetInduction
<1>9. chosen \in [0 .. len -> Nat]
  <2>1. \A n \in 0 .. len : chosen[n] \in Nat
    <3>1. len \in Nat
      BY <1>1
    <3> HIDE DEF len
    <3> QED
      BY <1>8, <3>1
  <2> QED
    BY <1>7, <2>1
<1> QED
  BY <1>6, <1>7, <1>9

LEMMA TotalFacts ==
    ASSUME NEW nodes \in Seq(Node)
    PROVE  /\ Len(nodes) \in Nat
           /\ Total(nodes, 0) = 0
           /\ \A n \in 0 .. Len(nodes) : Total(nodes, n) \in Nat
           /\ \A n \in 1 .. Len(nodes) :
                /\ nodes[n].cachesize \in Nat
                /\ Total(nodes, n) = Total(nodes, n - 1) + nodes[n].cachesize
<1>1. PICK sum \in [0 .. Len(nodes) -> Nat] :
        /\ sum[0] = 0
        /\ \A n \in 1 .. Len(nodes) : sum[n] = sum[n - 1] + nodes[n].cachesize
        /\ \A i : Total(nodes, i) = sum[i]
  BY TotalRecursion
<1>2. /\ Len(nodes) \in Nat
      /\ \A n \in 1 .. Len(nodes) : nodes[n].cachesize \in Nat
  BY NodesOf DEF Node, NodeShape
<1>3. \A n \in 0 .. Len(nodes) : Total(nodes, n) \in Nat
  BY <1>1
<1>4. \A n \in 1 .. Len(nodes) : Total(nodes, n) = Total(nodes, n - 1) + nodes[n].cachesize
  BY <1>1
<1> QED
  BY <1>1, <1>2, <1>3, <1>4

\* Bytes cached by the nodes past the first k.
Rest(nodes, k) == Total(nodes, Len(nodes)) - Total(nodes, k)

LEMMA RestFacts ==
    ASSUME NEW nodes \in Seq(Node)
    PROVE  /\ \A k \in 0 .. Len(nodes) :
                Rest(nodes, k) \in Int /\ Rest(nodes, k) <= Total(nodes, Len(nodes))
           /\ \A k \in 1 .. Len(nodes) : Rest(nodes, k) <= Rest(nodes, k - 1)
<1>1. /\ Len(nodes) \in Nat /\ Len(nodes) \in 0 .. Len(nodes)
      /\ \A k \in 1 .. Len(nodes) : k \in 0 .. Len(nodes) /\ k - 1 \in 0 .. Len(nodes)
  BY LenProperties
<1>2. ASSUME NEW k \in 0 .. Len(nodes)
      PROVE  Rest(nodes, k) \in Int /\ Rest(nodes, k) <= Total(nodes, Len(nodes))
  <2>1. Total(nodes, k) \in Nat /\ Total(nodes, Len(nodes)) \in Nat
    BY <1>1, TotalFacts
  <2> QED
    BY <2>1 DEF Rest
<1>3. ASSUME NEW k \in 1 .. Len(nodes)
      PROVE  Rest(nodes, k) <= Rest(nodes, k - 1)
  <2>1. /\ Total(nodes, k) \in Nat /\ Total(nodes, k - 1) \in Nat
        /\ Total(nodes, Len(nodes)) \in Nat /\ nodes[k].cachesize \in Nat
        /\ Total(nodes, k) = Total(nodes, k - 1) + nodes[k].cachesize
    BY <1>1, TotalFacts
  <2> QED
    BY <2>1 DEF Rest
<1> QED
  BY <1>2, <1>3

LEMMA Excess == \A m, n \in Nat : m <= n => \E left \in Nat : n = m + left
<1> SUFFICES ASSUME NEW m \in Nat, NEW n \in Nat, m <= n
             PROVE  \E left \in Nat : n = m + left
  OBVIOUS
<1>1. n - m \in Nat /\ n = m + (n - m)
  OBVIOUS
<1> QED
  BY <1>1

\* Two lists that end with nodes of the same sizes.
LEMMA SameRest ==
    ASSUME NEW nodes \in Seq(Node), NEW more \in Seq(Node),
           NEW p \in 0 .. Len(nodes), NEW q \in 0 .. Len(more), NEW left \in Nat,
           Len(nodes) = p + left, Len(more) = q + left,
           \A i \in 1 .. left : more[q + i].cachesize = nodes[p + i].cachesize
    PROVE  Rest(more, q) = Rest(nodes, p)
<1> DEFINE Good == {i \in Nat : i <= left =>
                      Total(more, q + i) - Total(more, q) =
                        Total(nodes, p + i) - Total(nodes, p)}
<1>1. p \in Nat /\ q \in Nat /\ q + 0 = q /\ p + 0 = p
  OBVIOUS
<1>2. Total(more, q) \in Nat /\ Total(nodes, p) \in Nat
  BY TotalFacts
<1>3. 0 \in Good
  BY <1>1, <1>2
<1>4. ASSUME NEW i \in Nat, i \in Good PROVE i + 1 \in Good
  <2>1. CASE i + 1 <= left
    <3>1. /\ i + 1 \in 1 .. left /\ i <= left
          /\ q + (i + 1) \in 1 .. Len(more) /\ (q + (i + 1)) - 1 = q + i
          /\ p + (i + 1) \in 1 .. Len(nodes) /\ (p + (i + 1)) - 1 = p + i
          /\ q + i \in 0 .. Len(more) /\ p + i \in 0 .. Len(nodes)
      BY <1>1, <2>1
    <3>2. /\ Total(more, q + i) \in Nat /\ Total(nodes, p + i) \in Nat
          /\ nodes[p + (i + 1)].cachesize \in Nat
          /\ more[q + (i + 1)].cachesize = nodes[p + (i + 1)].cachesize
      BY <3>1, TotalFacts
    <3>3. /\ Total(more, q + (i + 1)) = Total(more, q + i) + more[q + (i + 1)].cachesize
          /\ Total(nodes, p + (i + 1)) = Total(nodes, p + i) + nodes[p + (i + 1)].cachesize
      BY <3>1, TotalFacts
    <3>4. Total(more, q + i) - Total(more, q) = Total(nodes, p + i) - Total(nodes, p)
      BY <1>4, <3>1
    <3>5. PICK a \in Nat, b \in Nat, c \in Nat, d \in Nat, s \in Nat :
            /\ Total(more, q + i) = a /\ Total(more, q) = b
            /\ Total(nodes, p + i) = c /\ Total(nodes, p) = d
            /\ nodes[p + (i + 1)].cachesize = s
      BY <1>2, <3>2, Zenon
    <3>6. a - b = c - d
      BY <3>4, <3>5, Zenon
    <3>7. Total(more, q + (i + 1)) - Total(more, q) =
            Total(nodes, p + (i + 1)) - Total(nodes, p)
      <4>1. (a + s) - b = (c + s) - d
        BY <3>6
      <4> QED
        BY <3>2, <3>3, <3>5, <4>1, Zenon
    <3> QED
      BY <3>7
  <2>2. CASE ~(i + 1 <= left)
    BY <2>2
  <2> QED
    BY <2>1, <2>2
<1> HIDE DEF Good
<1>5. left \in Good
  BY <1>3, <1>4, NatSetInduction
<1> QED
  BY <1>5 DEF Good, Rest

\* What history_cleanupcache() achieves: the copies it leaves fit.
LEMMA CleanupFits ==
    ASSUME NEW nodes \in Seq(Node)
    PROVE  Total(history_cleanupcache(nodes), Len(nodes)) <= MAXALLOWEDCACHE
<1> DEFINE clean == history_cleanupcache(nodes)
           Good == {n \in Nat : n <= Len(nodes) =>
                      /\ Total(clean, n) <= Total(nodes, n)
                      /\ Total(clean, n) <= MAXALLOWEDCACHE}
<1>1. clean \in Seq(Node) /\ Len(clean) = Len(nodes) /\ Len(nodes) \in Nat
  BY CleanupFacts, NodesOf
<1>2. \A n \in 1 .. Len(nodes) :
        \/ Uncache(nodes[n]) = clean[n]
        \/ clean[n] = nodes[n] /\ Total(nodes, n) <= MAXALLOWEDCACHE
  <2> SUFFICES ASSUME NEW n \in 1 .. Len(nodes)
               PROVE  \/ Uncache(nodes[n]) = clean[n]
                      \/ clean[n] = nodes[n] /\ Total(nodes, n) <= MAXALLOWEDCACHE
    OBVIOUS
  <2>1. clean[n] = IF Total(nodes, n) > MAXALLOWEDCACHE \/ Embedded(nodes[n].loc)
                   THEN Uncache(nodes[n]) ELSE nodes[n]
    BY DEF history_cleanupcache
  <2>2. Total(nodes, n) \in Nat /\ MAXALLOWEDCACHE \in Nat
    <3>1. n \in 0 .. Len(nodes)
      BY <1>1
    <3> QED
      BY <3>1, TotalFacts, HistoryAssumption
  <2> QED
    BY <2>1, <2>2
<1> HIDE DEF clean
<1>3. 0 \in Good
  BY <1>1, TotalFacts, HistoryAssumption
<1>4. ASSUME NEW n \in Nat, n \in Good PROVE n + 1 \in Good
  <2>1. CASE n + 1 <= Len(nodes)
    <3>1. /\ n + 1 \in 1 .. Len(nodes) /\ n + 1 \in 0 .. Len(nodes)
          /\ n \in 0 .. Len(nodes) /\ n <= Len(nodes) /\ (n + 1) - 1 = n
      BY <1>1, <2>1
    <3>2. /\ Total(nodes, n) \in Nat /\ Total(clean, n) \in Nat
          /\ nodes[n + 1].cachesize \in Nat /\ MAXALLOWEDCACHE \in Nat
          /\ Total(nodes, n + 1) = Total(nodes, n) + nodes[n + 1].cachesize
          /\ Total(clean, n + 1) = Total(clean, n) + clean[n + 1].cachesize
      BY <1>1, <3>1, TotalFacts, HistoryAssumption
    <3>3. Total(clean, n) <= Total(nodes, n) /\ Total(clean, n) <= MAXALLOWEDCACHE
      BY <1>4, <3>1
    <3>4. CASE Uncache(nodes[n + 1]) = clean[n + 1]
      <4>1. clean[n + 1].cachesize = 0
        BY <3>4 DEF Uncache, WithCopy
      <4>2. /\ Total(clean, n + 1) <= Total(nodes, n + 1)
            /\ Total(clean, n + 1) <= MAXALLOWEDCACHE
        BY <3>2, <3>3, <4>1
      <4> QED
        BY <4>2
    <3>5. CASE clean[n + 1] = nodes[n + 1] /\ Total(nodes, n + 1) <= MAXALLOWEDCACHE
      <4>1. clean[n + 1].cachesize = nodes[n + 1].cachesize
        BY <3>5
      <4>2. /\ Total(clean, n + 1) <= Total(nodes, n + 1)
            /\ Total(clean, n + 1) <= MAXALLOWEDCACHE
        BY <3>2, <3>3, <3>5, <4>1
      <4> QED
        BY <4>2
    <3> QED
      BY <1>2, <3>1, <3>4, <3>5
  <2>2. CASE ~(n + 1 <= Len(nodes))
    BY <2>2
  <2> QED
    BY <2>1, <2>2
<1> HIDE DEF Good
<1>5. Len(nodes) \in Good
  BY <1>1, <1>3, <1>4, NatSetInduction
<1> QED
  BY <1>5 DEF Good, clean

LEMMA CleanupRest ==
    ASSUME NEW nodes \in Seq(Node)
    PROVE  \A k \in 0 .. Len(nodes) :
             Rest(history_cleanupcache(nodes), k) <= MAXALLOWEDCACHE
<1> DEFINE clean == history_cleanupcache(nodes)
<1>1. /\ clean \in Seq(Node) /\ Len(clean) = Len(nodes)
      /\ Len(nodes) \in 0 .. Len(nodes) /\ MAXALLOWEDCACHE \in Nat
  BY CleanupFacts, NodesOf, HistoryAssumption
<1>2. Total(clean, Len(clean)) <= MAXALLOWEDCACHE
  BY <1>1, CleanupFits
<1> HIDE DEF clean
<1> SUFFICES ASSUME NEW k \in 0 .. Len(nodes)
             PROVE  Rest(clean, k) <= MAXALLOWEDCACHE
  BY DEF clean
<1>3. /\ Rest(clean, k) \in Int /\ Rest(clean, k) <= Total(clean, Len(clean))
      /\ Total(clean, Len(clean)) \in Nat
  BY <1>1, RestFacts, TotalFacts
<1> QED
  BY <1>1, <1>2, <1>3

\* CacheBudget is not inductive: while the head has no copy, the copy of the
\* page below it may be the one that is over the budget.  A pop makes that
\* page the head again, and a load drops what is too much.
Budgeted(nodes) ==
    /\ Len(nodes) > 1 => Rest(nodes, 2) <= MAXALLOWEDCACHE
    /\ Len(nodes) > 0 /\ Cached(nodes[1]) => Rest(nodes, 1) <= MAXALLOWEDCACHE

LEMMA PopBudget ==
    ASSUME NEW nodes \in Seq(Node), nodes # <<>>, Budgeted(nodes), NEW ok \in BOOLEAN
    PROVE  Budgeted(history_pop(nodes, ok))
<1> DEFINE rest == history_pop(nodes, ok)
<1>1. /\ rest \in Seq(Node) /\ Len(rest) = Len(nodes) - 1
      /\ \A i \in 2 .. Len(nodes) - 1 : rest[i] = nodes[i + 1]
      /\ Len(nodes) \in Nat /\ Len(nodes) > 0 /\ MAXALLOWEDCACHE \in Nat
  BY PopFacts, NodesOf, HistoryAssumption
<1> HIDE DEF rest
<1>2. ASSUME Len(rest) > 0
      PROVE  Rest(rest, 1) \in Int /\ Rest(rest, 1) <= MAXALLOWEDCACHE
  <2>1. PICK left \in Nat : Len(nodes) = 2 + left
    BY <1>1, <1>2, 2 <= Len(nodes), Excess
  <2>2. /\ 2 \in 0 .. Len(nodes) /\ 1 \in 0 .. Len(rest)
        /\ Len(rest) = 1 + left /\ Len(nodes) > 1
    BY <1>1, <2>1
  <2>3. \A i \in 1 .. left : rest[1 + i].cachesize = nodes[2 + i].cachesize
    <3> SUFFICES ASSUME NEW i \in 1 .. left
                 PROVE  rest[1 + i].cachesize = nodes[2 + i].cachesize
      OBVIOUS
    <3>1. 1 + i \in 2 .. Len(nodes) - 1 /\ (1 + i) + 1 = 2 + i
      BY <1>1, <2>1
    <3> QED
      BY <1>1, <3>1
  <2>4. Rest(rest, 1) = Rest(nodes, 2)
    BY <1>1, <2>1, <2>2, <2>3, SameRest
  <2> QED
    BY <1>1, <2>2, <2>4, RestFacts DEF Budgeted
<1>3. ASSUME Len(rest) > 1 PROVE Rest(rest, 2) <= MAXALLOWEDCACHE
  <2>1. 2 \in 1 .. Len(rest) /\ 2 \in 0 .. Len(rest) /\ Len(rest) > 0 /\ 2 - 1 = 1
    BY <1>1, <1>3
  <2>2. Rest(rest, 2) \in Int /\ Rest(rest, 2) <= Rest(rest, 1)
    BY <1>1, <2>1, RestFacts
  <2> QED
    BY <1>1, <1>2, <2>1, <2>2
<1> QED
  BY <1>2, <1>3 DEF Budgeted, rest

LEMMA AddBudget ==
    ASSUME NEW nodes \in Seq(Node), nodes # <<>>, Cached(nodes[1]),
           Budgeted(nodes), NEW loc \in Location
    PROVE  Budgeted(<<NewNode(loc)>> \o nodes)
<1> DEFINE more == <<NewNode(loc)>> \o nodes
<1>1. /\ more \in Seq(Node) /\ Len(more) = Len(nodes) + 1
      /\ more[1] = NewNode(loc)
      /\ \A i \in 1 .. Len(nodes) : more[i + 1] = nodes[i]
      /\ Len(nodes) \in Nat /\ Len(nodes) > 0
  BY AddFacts, NodesOf
<1>2. ~Cached(more[1])
  BY <1>1, NewNodeFacts
<1> HIDE DEF more
<1>3. PICK left \in Nat : Len(nodes) = 1 + left
  BY <1>1, 1 <= Len(nodes), Excess
<1>4. 1 \in 0 .. Len(nodes) /\ 2 \in 0 .. Len(more) /\ Len(more) = 2 + left
  BY <1>1, <1>3
<1>5. \A i \in 1 .. left : more[2 + i].cachesize = nodes[1 + i].cachesize
  <2> SUFFICES ASSUME NEW i \in 1 .. left
               PROVE  more[2 + i].cachesize = nodes[1 + i].cachesize
    OBVIOUS
  <2>1. 1 + i \in 1 .. Len(nodes) /\ (1 + i) + 1 = 2 + i
    BY <1>3
  <2> QED
    BY <1>1, <2>1
<1>6. Rest(more, 2) = Rest(nodes, 1)
  BY <1>1, <1>3, <1>4, <1>5, SameRest
<1>7. Rest(nodes, 1) <= MAXALLOWEDCACHE
  BY <1>1 DEF Budgeted
<1> QED
  BY <1>2, <1>6, <1>7 DEF Budgeted, more

\* A new head over the same pages.
LEMMA HeadBudget ==
    ASSUME NEW nodes \in Seq(Node), NEW more \in Seq(Node), nodes # <<>>,
           Len(more) = Len(nodes),
           \A i \in 2 .. Len(nodes) : more[i] = nodes[i],
           \/ Rest(nodes, 1) <= MAXALLOWEDCACHE
           \/ Budgeted(nodes) /\ ~Cached(more[1])
    PROVE  Budgeted(more)
<1>1. Len(nodes) \in Nat /\ Len(nodes) > 0 /\ MAXALLOWEDCACHE \in Nat
  BY NodesOf, HistoryAssumption
<1>2. ASSUME NEW k \in 1 .. Len(nodes) PROVE Rest(more, k) = Rest(nodes, k)
  <2>1. PICK left \in Nat : Len(nodes) = k + left
    BY <1>1, k \in Nat, k <= Len(nodes), Excess
  <2>2. k \in 0 .. Len(nodes) /\ k \in 0 .. Len(more) /\ Len(more) = k + left
    BY <2>1
  <2>3. \A i \in 1 .. left : more[k + i].cachesize = nodes[k + i].cachesize
    <3> SUFFICES ASSUME NEW i \in 1 .. left
                 PROVE  more[k + i].cachesize = nodes[k + i].cachesize
      OBVIOUS
    <3>1. k + i \in 2 .. Len(nodes)
      BY <1>1, <2>1
    <3> QED
      BY <3>1
  <2> QED
    BY <2>1, <2>2, <2>3, SameRest
<1>3. 1 \in 1 .. Len(nodes) /\ Rest(more, 1) = Rest(nodes, 1)
  BY <1>1, <1>2
<1>4. ASSUME Len(more) > 1
      PROVE  /\ Rest(more, 2) = Rest(nodes, 2) /\ Rest(nodes, 2) <= Rest(nodes, 1)
             /\ Rest(nodes, 2) \in Int /\ Rest(nodes, 1) \in Int
  <2>1. /\ 2 \in 1 .. Len(nodes) /\ 2 - 1 = 1
        /\ 2 \in 0 .. Len(nodes) /\ 1 \in 0 .. Len(nodes)
    BY <1>1, <1>4
  <2> QED
    BY <1>2, <2>1, RestFacts
<1>5. CASE Rest(nodes, 1) <= MAXALLOWEDCACHE
  BY <1>1, <1>3, <1>4, <1>5 DEF Budgeted
<1>6. CASE Budgeted(nodes) /\ ~Cached(more[1])
  BY <1>4, <1>6 DEF Budgeted
<1> QED
  BY <1>5, <1>6

LEMMA InitBudget == Init => Budgeted(history)
<1> SUFFICES ASSUME Init PROVE Budgeted(history)
  OBVIOUS
<1>1. CASE history = <<>>
  BY <1>1 DEF Budgeted
<1>2. ASSUME NEW loc \in Targets, history = <<NewNode(loc)>> PROVE Budgeted(history)
  <2>1. Len(history) = 1 /\ history[1] = NewNode(loc)
    BY <1>2
  <2>2. ~Cached(history[1])
    BY <2>1, NewNodeFacts, BrowserAssumption
  <2> QED
    BY <2>1, <2>2 DEF Budgeted
<1> QED
  BY <1>1, <1>2 DEF Init

LEMMA PushBudget ==
    ASSUME IInv, Budgeted(history), pc = "display", NEW loc \in Location, Push(loc)
    PROVE  Budgeted(history')
<1>1. history \in Seq(Node) /\ history # <<>> /\ Cached(history[1])
  BY HeadOnScreen DEF Sound
<1>2. PICK ok \in BOOLEAN : history' = history_push(history, loc, ok)
  BY MallocResultIsBoolean DEF Push
<1> QED
  BY <1>1, <1>2, PopBudget, AddBudget DEF history_push

\* A page that stays on screen, or is brought back to it.
LEMMA KeepBudget ==
    ASSUME history \in Seq(Node), history # <<>>, Cached(history[1]),
           Budgeted(history), history' \in Seq(Node), Len(history') = Len(history),
           \A i \in 2 .. Len(history) : history'[i] = history[i]
    PROVE  Budgeted(history')
<1>1. Rest(history, 1) <= MAXALLOWEDCACHE
  BY NodesOf DEF Budgeted
<1> QED
  BY <1>1, HeadBudget

LEMMA LoopBudget == IInv /\ Budgeted(history) /\ Loop => Budgeted(history')
<1> SUFFICES ASSUME IInv, Budgeted(history), Loop PROVE Budgeted(history')
  OBVIOUS
<1>0. /\ AtLoop => history \in Seq(Node) /\ history # <<>>
      /\ MallocResult \subseteq BOOLEAN
  BY HeadAtLoop, MallocResultIsBoolean DEF Sound
<1>1. CASE StartPage
  <2>1. PICK ok \in MallocResult : history' = history_push(<<>>, Welcome, ok)
    BY <1>1 DEF StartPage
  <2>2. <<>> \in Seq(Node) /\ Len(<<>>) = 0
    BY EmptySeq
  <2>3. /\ Len(<<NewNode(Welcome)>> \o <<>>) = Len(<<>>) + 1
        /\ (<<NewNode(Welcome)>> \o <<>>)[1] = NewNode(Welcome)
    BY <2>2, AddFacts, KnownLocations
  <2>4. CASE ok
    <3>1. history' = <<NewNode(Welcome)>> \o <<>>
      BY <2>1, <2>2, <2>4 DEF history_push, IsPrevious
    <3>2. Len(history') = 1 /\ history'[1] = NewNode(Welcome)
      BY <2>2, <2>3, <3>1
    <3> QED
      BY <3>2, NewNodeFacts, KnownLocations DEF Budgeted
  <2>5. CASE ~ok
    <3>1. Len(history') = 0
      BY <2>1, <2>2, <2>5 DEF history_push, IsPrevious
    <3> QED
      BY <3>1 DEF Budgeted
  <2> QED
    BY <2>4, <2>5
<1>2. CASE LoadFails
  BY <1>0, <1>2, PopBudget DEF LoadFails, NeedsLoad
<1>3. CASE CopyFails
  <2> DEFINE room == history_cleanupcache(history)
  <2>1. room \in Seq(Node) /\ room # <<>> /\ history \in Seq(Node)
    BY <1>0, <1>3, CopyFailsFacts DEF CopyFails, NeedsLoad
  <2>2. /\ Len(room) = Len(history) /\ Len(room) \in Nat
        /\ \A k \in 0 .. Len(history) : Rest(room, k) <= MAXALLOWEDCACHE
    BY <2>1, CleanupFacts, CleanupRest, NodesOf
  <2>3. PICK ok \in BOOLEAN : history' = history_pop(room, ok)
    BY <1>0, <1>3 DEF CopyFails
  <2> HIDE DEF room
  <2>4. Budgeted(room)
    BY <2>2 DEF Budgeted
  <2> QED
    BY <2>1, <2>3, <2>4, PopBudget
<1>4. CASE Load
  <2> DEFINE room == history_cleanupcache(history)
  <2>1. /\ history \in Seq(Node) /\ history # <<>>
        /\ history' \in Seq(Node) /\ Len(history') = Len(history)
        /\ \A i \in 2 .. Len(history) : history'[i] = room[i]
    BY <1>0, <1>4, LoadFacts DEF Load, NeedsLoad
  <2>2. /\ room \in Seq(Node) /\ Len(room) = Len(history)
        /\ \A k \in 0 .. Len(history) : Rest(room, k) <= MAXALLOWEDCACHE
    BY <2>1, CleanupFacts, CleanupRest
  <2> HIDE DEF room
  <2>3. Len(history) \in Nat /\ Len(history) > 0 /\ room # <<>>
    BY <2>1, <2>2, NodesOf, EmptySeq
  <2>4. Rest(room, 1) <= MAXALLOWEDCACHE
    BY <2>2, <2>3
  <2> QED
    BY <2>1, <2>2, <2>3, <2>4, HeadBudget
<1>5. CASE Show
  <2>1. Cached(history[1]) /\ Display(history)
    BY <1>5, HeadAtLoop DEF Show
  <2> QED
    BY <1>0, <1>5, <2>1, DisplayLocations, KeepBudget DEF Show
<1>6. CASE AskFilename
  BY <1>6 DEF AskFilename
<1> QED
  BY <1>1, <1>2, <1>3, <1>4, <1>5, <1>6 DEF Loop

LEMMA KeyBudget == IInv /\ Budgeted(history) /\ Key => Budgeted(history')
<1> SUFFICES ASSUME IInv, Budgeted(history), Key PROVE Budgeted(history')
  OBVIOUS
<1>1. ASSUME NEW loc \in Targets, EditUrl(loc) \/ FollowLink(loc) \/ SaveLink(loc)
      PROVE  Budgeted(history')
  <2>1. loc \in Location /\ AsFile(loc) \in Location
    BY BrowserAssumption, KnownLocations
  <2> QED
    BY <1>1, <2>1, PushBudget DEF EditUrl, FollowLink, SaveLink, InMenu
<1>2. CASE SaveText \/ JumpMain
  <2>1. AsFile(Top.loc) \in Location /\ MainMenu(Top.loc) \in Location
    BY <1>2, HeadOnScreen, KnownLocations DEF SaveText, JumpMain, InText
  <2> QED
    BY <1>2, <2>1, PushBudget DEF SaveText, JumpMain, InText
<1>3. CASE Help \/ JumpHome
  BY <1>3, KnownLocations, PushBudget DEF Help, JumpHome
<1>4. CASE Back
  BY <1>4, HeadOnScreen, MallocResultIsBoolean, PopBudget DEF Back, Sound
<1>5. CASE Refresh
  <2>1. history \in Seq(Node) /\ history # <<>> /\ history' \in Seq(Node)
    BY <1>5, HeadOnScreen, RefreshFacts DEF Refresh, Sound
  <2> QED
    BY <1>5, <2>1, RefreshFacts, HeadBudget
<1>6. CASE MoveSelection
  <2>1. /\ history \in Seq(Node) /\ history # <<>> /\ history' \in Seq(Node)
        /\ Cached(history[1])
    BY <1>6, HeadOnScreen, MoveFacts DEF MoveSelection, InMenu, Sound
  <2> QED
    BY <1>6, <2>1, MoveFacts, KeepBudget
<1>7. CASE Quit
  BY <1>7 DEF Quit
<1> QED
  BY <1>1, <1>2, <1>3, <1>4, <1>5, <1>6, <1>7 DEF Key

\* While a page is shown, the copies of the pages below it fit in the budget:
\* between two calls of history_cleanupcache() nothing is added to them.
THEOREM WithinBudget == Spec => []CacheBudget
<1>1. IInv /\ Budgeted(history) /\ [Next]_vars => Budgeted(history)'
  <2>1. ASSUME IInv, Budgeted(history), SaveOrCancel PROVE Budgeted(history')
    BY <2>1, MallocResultIsBoolean, PopBudget DEF SaveOrCancel, IInv, Sound
  <2>2. ASSUME Budgeted(history), UNCHANGED vars PROVE Budgeted(history')
    BY <2>2 DEF vars
  <2> QED
    BY <2>1, <2>2, LoopBudget, KeyBudget DEF Next, Ended
<1>2. IInv /\ Budgeted(history) => CacheBudget
  <2> SUFFICES ASSUME IInv, Budgeted(history), pc = "display"
               PROVE  Total(Tail(history), Len(history) - 1) <= MAXALLOWEDCACHE
    BY DEF CacheBudget
  <2>1. history \in Seq(Node) /\ history # <<>> /\ Cached(history[1])
    BY HeadOnScreen DEF Sound
  <2>2. Len(history) \in Nat /\ Len(history) > 0
    BY <2>1, NodesOf
  <2> DEFINE rest == Tail(history)
  <2>3. /\ rest \in Seq(Node) /\ Len(rest) = Len(history) - 1
        /\ \A i \in 1 .. Len(rest) : rest[i] = history[i + 1]
    BY <2>1, HeadTailProperties
  <2> HIDE DEF rest
  <2>4. PICK left \in Nat : Len(history) = 1 + left
    BY <2>2, 1 <= Len(history), Excess
  <2>5. /\ 1 \in 0 .. Len(history) /\ 0 \in 0 .. Len(rest) /\ Len(rest) = 0 + left
        /\ \A i \in 1 .. left : i \in 1 .. Len(rest) /\ 0 + i = i /\ 1 + i = i + 1
    BY <2>2, <2>3, <2>4
  <2>6. \A i \in 1 .. left : rest[0 + i].cachesize = history[1 + i].cachesize
    BY <2>3, <2>5
  <2>7. Rest(rest, 0) = Rest(history, 1)
    BY <2>1, <2>3, <2>4, <2>5, <2>6, SameRest
  <2>8. Total(rest, 0) = 0 /\ Total(rest, Len(rest)) \in Nat
    BY <2>2, <2>3, TotalFacts
  <2>9. Total(rest, Len(rest)) <= MAXALLOWEDCACHE
    BY <2>1, <2>2, <2>7, <2>8 DEF Rest, Budgeted
  <2> QED
    BY <2>3, <2>9 DEF rest
<1> QED
  BY <1>1, <1>2, InitBudget, Invariance, InitIInv, NextIInv, PTL DEF Spec
=============================================================================
