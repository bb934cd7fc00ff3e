------------------------------- MODULE TextField -------------------------------
(***************************************************************************)
(* What a line editor promises: a text of limited length with a cursor,    *)
(* seen as what stands to the left and to the right of it.                 *)
(***************************************************************************)
EXTENDS Integers, Sequences

CONSTANTS
    Chars,      \* printable characters
    Limit       \* how many the text may have

VARIABLES left, right

Init ==
    /\ left \in Seq(Chars) /\ Len(left) <= Limit
    /\ right = <<>>

Move(l, r) == left' = l /\ right' = r

Type(c) ==
    /\ Len(left) + Len(right) < Limit
    /\ Move(Append(left, c), right)

Erase == left # <<>> /\ Move(SubSeq(left, 1, Len(left) - 1), right)
Delete == right # <<>> /\ Move(left, Tail(right))

Backward ==
    /\ left # <<>>
    /\ Move(SubSeq(left, 1, Len(left) - 1), <<left[Len(left)]>> \o right)
Forward ==
    /\ right # <<>>
    /\ Move(Append(left, Head(right)), Tail(right))

ToStart == Move(<<>>, left \o right)
ToEnd == Move(left \o right, <<>>)

Next ==
    \/ \E c \in Chars : Type(c)
    \/ Erase \/ Delete \/ Backward \/ Forward \/ ToStart \/ ToEnd

Spec == Init /\ [][Next]_<<left, right>>
=============================================================================
