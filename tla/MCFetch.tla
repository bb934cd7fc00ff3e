------------------------------- MODULE MCFetch -------------------------------
(* The instance of Fetch: a disk may refuse to create or to write a file.  *)
(* The headers and part of the body fit in the buffer, the whole body does *)
(* not.                                                                    *)
EXTENDS Fetch

MCDiskFaults == {"create", "write"}
=============================================================================
