----------------------------- MODULE MCTextView -----------------------------
(* The instance of TextView: every text of up to six characters over two   *)
(* letters, a space and a line feed, on a screen three columns wide.       *)
EXTENDS TextView

MCTexts == BoundedSeq({"a", "b", SPACE, LF}, 6)
=============================================================================
