------------------------------ MODULE Selection ------------------------------
(* The elements of a sequence that are in a set, or not in it, in order.   *)
EXTENDS SequencesExt

Among(seq, set) ==
    FlattenSeq([n \in DOMAIN seq |-> IF seq[n] \in set THEN <<seq[n]>> ELSE <<>>])

NotAmong(seq, set) ==
    FlattenSeq([n \in DOMAIN seq |-> IF seq[n] \in set THEN <<>> ELSE <<seq[n]>>])
=============================================================================
