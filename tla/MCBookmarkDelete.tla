-------------------------- MODULE MCBookmarkDelete --------------------------
(* The instance of BookmarkDelete: files of up to four lines of up to four *)
(* bytes, moved three bytes at a time, so that a chunk is shorter or longer *)
(* than the line that is deleted.                                           *)
EXTENDS BookmarkDelete

MCLengths == BoundedSeq(1 .. 4, 4) \ {<<>>}
=============================================================================
