-------------------------- MODULE MCEmbeddedPages --------------------------
(* The instance of EmbeddedPages: sequences of two characters instead of   *)
(* four, texts with and without them, lines of which one is too long, and  *)
(* buffers from one that does not hold the first text up to one with room  *)
(* for everything.                                                         *)
EXTENDS EmbeddedPages

MCDictionary == {<<"a", "a">>, <<"a", "b">>}
MCTexts == BoundedSeq({"a", "b"}, 3)
MCClosings == BoundedSeq({"a", "b"}, 2)
MCNoBookmarks == <<"n", "o">>
MCFiles == BoundedSeq({<<>>, <<"x">>, <<"y", "z">>, <<"x", "y", "z">>}, 3)
MCRooms == {2, 4, 5, 6, 7, 8, 9, 20}
=============================================================================
