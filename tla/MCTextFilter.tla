---------------------------- MODULE MCTextFilter ----------------------------
(* The instances of TextFilter: raw texts byte by byte, and HTML written   *)
(* with words, white space, tags, a script and entities, whole and broken. *)
EXTENDS TextFilter

MCRaw == {<<c>> : c \in {"a", "b", "high", "dot", "sp", "tab", "bs", "cr", "lf"}}
MCHtml == {<<"a">>, <<"b">>, <<"high">>, <<"sp">>, <<"&">>, <<">">>,
           <<"<", "body", "sp", "b", ">">>, <<"<", "b", "sp", "br", ">">>,
           <<"<", "br", ">">>, <<"<", "script", ">", "a", "<", "/script", ">">>,
           <<"&", "nbsp", "semi">>, <<"&", "amp", "semi">>}
MCElements == [RAW |-> MCRaw, HTM |-> MCHtml]
=============================================================================
