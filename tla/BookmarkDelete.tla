---------------------------- MODULE BookmarkDelete ----------------------------
(***************************************************************************)
(* delbookmark() on the disk: the rest of the file is moved over the line  *)
(* in place, a chunk at a time, and the end is cut off at last.  The        *)
(* program, or the machine, may stop anywhere in between.  A byte is known  *)
(* by the line it belongs to and its place in it; the last byte of a line   *)
(* is its line feed.                                                        *)
(***************************************************************************)
EXTENDS Integers, Sequences, SequencesExt

CONSTANTS
    CHUNK,      \* sizeof(lbuf)
    Lengths     \* how long the lines of the file may be: sequences of numbers

ASSUME BookmarkDeleteAssumption ==
    /\ CHUNK \in Nat \ {0}
    /\ Lengths \subseteq Seq(Nat \ {0})

VARIABLES
    lengths,    \* the lines of the file before
    victim,     \* the line to delete
    disk,       \* the bytes of the file
    woff, roff, \* offsets of the next write and the next read
    lbuf,       \* the chunk that was read
    pc

deletevars == <<lengths, victim, disk, woff, roff, lbuf, pc>>

Line(l) == [o \in 1 .. lengths[l] |-> <<l, o>>]
Lines(these) == FlattenSeq([i \in 1 .. Len(these) |-> Line(these[i])])
All == [l \in 1 .. Len(lengths) |-> l]
Before == Lines(All)
After == Lines(RemoveAt(All, victim))

DeleteInit ==
    /\ lengths \in Lengths
    /\ victim \in 1 .. Len(lengths)
    /\ disk = Before
    /\ woff = 0 /\ roff = 0 /\ lbuf = <<>>
    /\ pc = "find"

\* The lines are read until the bookmark is found: it starts at woff, and the
\* next one at roff.
Find ==
    /\ pc = "find"
    /\ woff' = Len(Lines(SubSeq(All, 1, victim - 1)))
    /\ roff' = Len(Lines(SubSeq(All, 1, victim)))
    /\ pc' = "read"
    /\ UNCHANGED <<lengths, victim, disk, lbuf>>

\* A mistaken version: the next read goes on where the last write ended.
ReadBehindWrite ==
    /\ pc = "read" /\ roff < Len(disk)
    /\ LET last == IF roff + CHUNK < Len(disk) THEN roff + CHUNK ELSE Len(disk)
       IN  /\ lbuf' = SubSeq(disk, roff + 1, last)
           /\ roff' = woff + Len(lbuf')
    /\ pc' = "write"
    /\ UNCHANGED <<lengths, victim, disk, woff>>

Read ==
    /\ pc = "read" /\ roff < Len(disk)
    /\ LET last == IF roff + CHUNK < Len(disk) THEN roff + CHUNK ELSE Len(disk)
       IN  /\ lbuf' = SubSeq(disk, roff + 1, last)
           /\ roff' = last
    /\ pc' = "write"
    /\ UNCHANGED <<lengths, victim, disk, woff>>

\* The file with the first n bytes of the chunk written.
Written(n) ==
    [i \in 1 .. Len(disk) |-> IF i \in woff + 1 .. woff + n
                              THEN lbuf[i - woff] ELSE disk[i]]

Write ==
    /\ pc = "write"
    /\ disk' = Written(Len(lbuf))
    /\ woff' = woff + Len(lbuf)
    /\ pc' = "read"
    /\ UNCHANGED <<lengths, victim, roff, lbuf>>

\* A mistaken version: the file is cut before the rest was moved.
TruncateEarly ==
    /\ pc = "read"
    /\ disk' = SubSeq(disk, 1, woff)
    /\ pc' = "done"
    /\ UNCHANGED <<lengths, victim, woff, roff, lbuf>>

\* filetrunc()
Truncate ==
    /\ pc = "read" /\ roff >= Len(disk)
    /\ disk' = SubSeq(disk, 1, woff)
    /\ pc' = "done"
    /\ UNCHANGED <<lengths, victim, woff, roff, lbuf>>

\* A chunk reaches the disk as a whole, in part, or not at all.
Crash ==
    /\ pc \in {"find", "read", "write"}
    /\ \E n \in IF pc = "write" THEN 0 .. Len(lbuf) ELSE {0} :
          disk' = Written(n)
    /\ pc' = "crashed"
    /\ UNCHANGED <<lengths, victim, woff, roff, lbuf>>

DeleteNext == Find \/ Read \/ Write \/ Truncate \/ Crash

DeleteSpec == DeleteInit /\ [][DeleteNext]_deletevars

-----------------------------------------------------------------------------

\* The deleted bookmark is gone, and everything else is as it was.
OnlyVictimGone == pc = "done" => disk = After

\* A line starts at the start of the file or behind a line feed.
Starts(i) == i = 1 \/ disk[i - 1][2] = lengths[disk[i - 1][1]]
Whole(l) == \E i \in 1 .. Len(disk) - lengths[l] + 1 :
                Starts(i) /\ SubSeq(disk, i, i + lengths[l] - 1) = Line(l)

\* Wherever the program stops, at most one of the other bookmarks is damaged.
AtMostOneTorn ==
    \A l, m \in (1 .. Len(lengths)) \ {victim} : Whole(l) \/ Whole(m) \/ l = m
=============================================================================
