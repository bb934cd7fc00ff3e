----------------------------- MODULE CommandLine -----------------------------
(***************************************************************************)
(* What main() makes of its arguments.  A word of the command line is      *)
(*   "url"    a URL, or the name of a file where one is expected,          *)
(*   "name"   the name of a file, which does not parse as a URL,           *)
(*   "-o"     the option that expects the name of a file,                  *)
(*   "-o=f"   its older form with the name in it,                          *)
(*   "-x"     anything else that begins with a dash.                       *)
(***************************************************************************)
EXTENDS Integers, Sequences

Words == {"url", "name", "-o", "-o=f", "-x"}
IsOption(word) == word \in {"-o", "-o=f", "-x"}

\* What is known after some of the words: whether there is a URL, whether there
\* is a file to save to ("no", "quiet" by -o, which also sets notui, or "old"),
\* whether the next word is that file, and whether the program has already
\* ended with status 1.
NoArguments == [url |-> FALSE, save |-> "no", name_next |-> FALSE, error |-> FALSE]

Argument(known, word) ==
    LET expected  == known.name_next
        short     == word = "-o" /\ known.save = "no"
        old       == word = "-o=f" /\ known.save = "no"
        wrong     == IF expected THEN IsOption(word)
                     ELSE ~short /\ ~old
                          /\ (IsOption(word) \/ known.url \/ word = "name")
    IN  IF known.error THEN known
        ELSE [url       |-> known.url \/ (~expected /\ ~IsOption(word)),
              save      |-> IF expected THEN "quiet" ELSE IF old THEN "old"
                            ELSE known.save,
              name_next |-> ~expected /\ short,
              error     |-> wrong]

\* An -o without a name behind it is an error as well.
Parsed(words) ==
    LET known[n \in 0 .. Len(words)] ==
            IF n = 0 THEN NoArguments ELSE Argument(known[n - 1], words[n])
        end == known[Len(words)]
    IN  [end EXCEPT !.error = end.error \/ end.name_next]
=============================================================================
