------------------------------ MODULE MCSession ------------------------------
EXTENDS Session

CONSTANT h1

Loc(proto, type) == [proto |-> proto, host |-> h1, type |-> type, sel |-> ""]
MCHosts == {h1}
MCTargets == {Loc("gopher", "1"), Loc("http", "h")}
MCPages == {[size |-> n, links |-> {0, 1}] : n \in 1 .. BUFMAX}
MCStartPages == {[size |-> n, links |-> {}] : n \in 1 .. BUFMAX}
MCDiskFaults == {"create", "write"}
=============================================================================
