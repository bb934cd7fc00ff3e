---------------------------- MODULE MCMenuExplode ----------------------------
(* The instance of MenuExplode: menus of up to four lines, on a screen   *)
(* that leaves a link two columns and an informational line six.           *)
EXTENDS MenuExplode

\* A link of one piece, one of two whose host is out of reach, one without a
\* description, one without columns, one with a TAB too many; an informational
\* line, an error, an empty line, the end marker.
MCSources == {
    <<"1", "a", TAB, "s", TAB, "h", TAB, "p">>,
    <<"0", "a", SPACE, "b", TAB, "t", TAB, "g">>,
    <<"1", TAB, "u", TAB, "h">>,
    <<"1", "b">>,
    <<"1", TAB, "u", TAB, "h", TAB, TAB, "v">>,
    <<"i", "a", "b", SPACE, "a">>,
    <<"3", "a">>,
    <<>>,
    <<"dot">>}
MCEnds == {<<CR, LF>>, <<LF>>}
=============================================================================
