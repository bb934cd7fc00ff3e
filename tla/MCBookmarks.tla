----------------------------- MODULE MCBookmarks -----------------------------
(* The instance of Bookmarks: two hosts, one of them in two spellings,     *)
(* two ports, menus and texts, an HTTP page, and two queries, one of which *)
(* makes a line that is too long.                                          *)
EXTENDS Bookmarks

Loc(proto, type, host, port, selector) ==
    [proto |-> proto, type |-> type, host |-> host, port |-> port,
     selector |-> selector]

MCLower(host) == IF host = "A" THEN "a" ELSE host

MCLocations == {
    Loc("gopher", "1", "a", 70, <<"">>),
    Loc("gopher", "1", "A", 70, <<"">>),
    Loc("gopher", "1", "a", 80, <<"">>),
    Loc("gopher", "0", "a", 70, <<"s">>),
    Loc("gopher", "1", "a", 70, <<"s">>),
    Loc("gopher", "7", "a", 70, <<"s", "q">>),
    Loc("gopher", "7", "a", 70, <<"s", "long">>),
    Loc("http", "h", "a", 80, <<"s">>)}

Link(type, columns) == [type |-> type, columns |-> columns]
MCDefaults == <<Link("1", <<"", "a">>), Link("1", <<"", "b">>)>>
MCFiles == {<<>>, <<Link("empty", <<>>), Link("1", <<"s", "b", "70">>)>>,
            <<Link("1", <<"s", "b">>), Link("1", <<"long", "b">>), Link("1", <<"s", "b">>)>>}

MCTooLong(line) == \E i \in 1 .. Len(line.columns) : line.columns[i] = "long"
=============================================================================
