------------------------------ MODULE Navigation ------------------------------
(***************************************************************************)
(* What the user is promised about going from page to page, whatever is    *)
(* cached, evicted or refused by the memory allocator: a stack of visited  *)
(* locations of which only the last one is ever on screen.  Opening a      *)
(* location puts it on the stack, opening the previous one goes back to    *)
(* it, and a location that cannot be loaded or that was saved to a file    *)
(* leaves the stack.                                                       *)
(***************************************************************************)
EXTENDS Sequences, Integers

CONSTANTS
    Place,       \* locations
    Viewable,    \* those that can be shown on screen
    Start        \* the location an empty stack starts over with

VARIABLES
    stack,    \* visited locations, the last one first
    screen    \* "busy", a "page", a "dialog" or, at the end, "closed"

Init ==
    /\ stack = <<>> \/ \E place \in Place : stack = <<place>>
    /\ screen = "busy"

Opened(place) ==
    IF Len(stack) > 1 /\ stack[2] = place THEN Tail(stack)
    ELSE <<place>> \o stack

StartOver ==   \* or give up when even that is impossible
    /\ screen = "busy" /\ stack = <<>>
    /\ \/ stack' = <<Start>> /\ screen' = "busy"
       \/ stack' = <<>> /\ screen' = "closed"

\* A location that cannot be had.
Miss ==
    /\ screen = "busy" /\ stack # <<>>
    /\ stack' = Tail(stack)
    /\ UNCHANGED screen

Present ==
    /\ screen = "busy" /\ stack # <<>>
    /\ screen' = IF stack[1] \in Viewable THEN "page" ELSE "dialog"
    /\ UNCHANGED stack

\* A page is left for another location, for the previous one, to be loaded
\* anew (or because the new location was refused), or for good.
Open(place) ==
    /\ screen = "page"
    /\ stack' = Opened(place)
    /\ screen' = "busy"

Return ==
    /\ screen \in {"page", "dialog"}
    /\ stack' = Tail(stack)
    /\ screen' = "busy"

Stay ==
    /\ screen = "page"
    /\ screen' = "busy"
    /\ UNCHANGED stack

Close ==
    /\ screen = "page"
    /\ screen' = "closed"
    /\ UNCHANGED stack

Next ==
    \/ StartOver \/ Miss \/ Present
    \/ \E place \in Place : Open(place)
    \/ Return \/ Stay \/ Close

Spec == Init /\ [][Next]_<<stack, screen>>
=============================================================================
