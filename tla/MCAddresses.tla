----------------------------- MODULE MCAddresses -----------------------------
(* The instance of Addresses: URLs of up to 15 characters, of which four   *)
(* columns show a part.  Ports are the default of one of the protocols or  *)
(* of none; links may lack a host, or have one or a selector too long for  *)
(* the parser, or a host that fills the array of a URL.                    *)
EXTENDS Addresses

\* What URLs are made of, and what is typed into them.
MCTyped == {":", "/", "1", "h", "a", "8", "-"}
MCChars == MCTyped \cup {"gopher", "http", "telnet", "URL", "%", "0", "7", "9"}

Loc(p, h, n, t, s) ==
    [proto |-> p, host |-> h, port |-> n, itemtype |-> t, selector |-> s]

Host(n) == [i \in 1 .. n |-> "a"]

\* Pages that were loaded: they have a host, and no port 0.
MCPages ==
    {Loc("gopher", <<"a">>, n, "1", <<>>) : n \in {70, 80, 7}} \cup
    {Loc("gopher", <<"a">>, n, "h", <<"/", "a">>) : n \in {70, 80, 7}} \cup
    {Loc("http", <<"a">>, n, "h", s) : n \in {70, 80}, s \in {<<>>, <<"a">>}} \cup
    {Loc("gopher", <<"a", "a", "a">>, n, "7", <<"a">>) : n \in {70, 7}} \cup
    {Loc("gopher", Host(n), 70, "7", <<"a", "tab", "a">>) : n \in {1, 9, 12}} \cup
    {Loc("gopher", <<"a">>, 70, "7", <<"a", "a", "a", "a", "a", "a", "a">>),
     Loc("gopher", <<"a">>, 70, "h", <<"URL", ":", "a">>)}

\* Names of directories and files, with dots and a shady character.
MCPaths == SeqOf({"a", "/", ".", "?"}, 5)
MCMemory == {<<>>, <<"a", "?", "a">>}
MCShady == {"/", "?", ":", "tab"}

MCLinks ==
    {Loc("gopher", <<"a">>, 70, "9", s) : s \in MCPaths} \cup
    {Loc("gopher", h, n, t, s) :
        h \in {<<>>, Host(1), Host(3), Host(9), Host(12)}, n \in {70, 80, 7},
        t \in {"1", "h", "8", "7", "tab"},
        s \in {<<>>, <<"a">>, <<"/", "1">>,
               <<"URL", ":", "http", ":", "/", "/", "a">>,
               <<"/", "URL", ":", "telnet", ":", "/", "/", "a">>,
               <<"a", "tab">>, <<"a", "a", "a", "a", "a", "a", "a", "a", "a">>}}
=============================================================================
