------------------------------ MODULE MCBrowser ------------------------------
(* Small instances of Browser: one server with a menu, an HTML page and a  *)
(* query, a page that fills half of the cache and one that fills a third.  *)
EXTENDS Browser

CONSTANT h1

Loc(type, sel) == [proto |-> "gopher", host |-> h1, type |-> type, sel |-> sel]

MCHosts == {h1}
MCSelectors == {"t", "q"}
MCTargets ==
    {Loc("1", ""), Loc("7", "q"),
     [proto |-> "http", host |-> h1, type |-> "h", sel |-> "t"]}
MCStartPages == {[size |-> 1, links |-> {0}]}
MCPages == {[size |-> 1, links |-> {0}], [size |-> 2, links |-> {1}],
            [size |-> 2, links |-> {}]}
=============================================================================
