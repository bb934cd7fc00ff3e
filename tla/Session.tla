------------------------------- MODULE Session -------------------------------
(***************************************************************************)
(* A run of the program from its command line to its exit: Browser with    *)
(* the transfers of Fetch in place of its choice of outcomes.  There is    *)
(* one thread, so one transfer at a time; it is called                     *)
(*   "page"    to load the head of the history,                            *)
(*   "prompt"  to save the head under the name that was asked for,         *)
(*   "all"     for each link of a menu in turn (F10),                      *)
(*   "option"  by -o, before there is a display.                           *)
(* The variables of Fetch are those of the transfer under way; between     *)
(* transfers they have no meaning, and pc is "idle".                       *)
(***************************************************************************)
EXTENDS Fetch, CommandLine

CONSTANTS
    Hosts, Selectors, Pages, StartPages, NoticeSize, MAXALLOWEDCACHE,
    Targets, MallocMayFail, MaxDepth,   \* as in Browser
    Names,       \* names of files
    MaxWords     \* bound on the length of the command line

NoName == ""   \* of a transfer to memory

ASSUME SessionAssumption ==
    /\ NoName \notin Names
    \* every page that fits in the buffer can be the contents of a location
    /\ \A size \in 1 .. BUFMAX :
         /\ \E page \in Pages : page.size = size
         /\ \E page \in StartPages : page.size = size

VARIABLES
    stage,      \* "starting", "interactive", "batch" (-o) or "over"
    save,       \* what the command line says of saving, see CommandLine
    exit,       \* the status main() returns, or -1
    place,      \* where the loop of main() is
    history,
    asked,
    caller,     \* what the transfer is for, or "none"
    todo,       \* lines of the menu that F10 has yet to look at
    name,       \* the file of the transfer
    disk        \* of each file: "none", "there" before, "saved" since, "damaged"

B == INSTANCE Browser WITH pc <- place, PAGEBUFSZ <- BUFMAX

fetchvars == vars
mainvars == <<stage, save, exit>>
browservars == <<place, history, asked>>
callvars == <<caller, todo, name, disk>>
svars == <<fetchvars, mainvars, browservars, callvars>>

saving == save # "no"      \* saveas != NULL
notui == save = "quiet"    \* cfg.notui

NoRequest == [proto |-> "gopher", embedded |-> FALSE, tofile |-> FALSE,
              exists |-> FALSE, notui |-> FALSE]
EmptyBuffer == [p \in 1 .. BUFMAX |-> 0]

SessionInit ==
    /\ \E n \in 0 .. MaxWords : \E words \in [1 .. n -> Words] :
         LET known == Parsed(words) IN
         /\ stage = IF known.error THEN "over" ELSE "starting"
         /\ exit = IF known.error THEN 1 ELSE -1
         /\ save = known.save
         /\ history \in IF known.url THEN {<<B!NewNode(loc)>> : loc \in Targets}
                        ELSE {<<>>}
    /\ place = "loop" /\ asked = TRUE
    /\ caller = "none" /\ todo = {} /\ name = NoName
    /\ disk \in [Names -> {"none", "there"}]
    /\ req = NoRequest /\ pc = "idle" /\ fd = FALSE /\ sock = FALSE
    /\ file = NoFile /\ buffer = EmptyBuffer
    /\ reslength = 0 /\ totlen = 0 /\ got = 0 /\ idle = 0
    /\ status = "" /\ result = -1
-----------------------------------------------------------------------------
(* Calling loadfile_buff() and returning from it.                          *)

Pending(bar) == IF bar = "" THEN "" ELSE "old"

\* A transfer to memory (NoName) or to a file: what is not HTTP is gopher.
Call(who, proto, embedded, fname) ==
    /\ pc = "idle"
    /\ req' = [proto |-> IF proto = "http" THEN "http" ELSE "gopher",
               embedded |-> embedded,
               tofile |-> fname # NoName,
               exists |-> fname # NoName /\ disk[fname] # "none",
               notui |-> notui]
    /\ pc' = "open"
    /\ file' = IF req'.exists THEN [exists |-> TRUE, bytes |-> <<0>>] ELSE NoFile
    /\ status' = Pending(status)
    /\ caller' = who /\ name' = fname
    /\ UNCHANGED <<fd, sock, buffer, reslength, totlen, got, idle, result, disk>>

\* What the transfer did to the disk stays; the message waits in the slot
\* until the next drawing.
Consume(bar) ==
    /\ disk' = IF name = NoName \/ file = Before THEN disk
               ELSE [disk EXCEPT ![name] = IF req.exists THEN "damaged" ELSE "saved"]
    /\ req' = NoRequest /\ pc' = "idle" /\ fd' = FALSE /\ sock' = FALSE
    /\ file' = NoFile /\ buffer' = EmptyBuffer
    /\ reslength' = 0 /\ totlen' = 0 /\ got' = 0 /\ idle' = 0
    /\ status' = bar /\ result' = -1
    /\ name' = NoName

Back(who) == pc = "returned" /\ caller = who
-----------------------------------------------------------------------------
(* From main() to the loop, or to -o.                                      *)

\* No memory for the page buffer, no network or no screen.
StartFails ==
    /\ stage = "starting"
    /\ stage' = "over" /\ exit' = 1
    /\ UNCHANGED <<fetchvars, save, browservars, callvars>>

StartLoop ==
    /\ stage = "starting" /\ ~saving
    /\ stage' = "interactive"
    /\ UNCHANGED <<fetchvars, save, exit, browservars, callvars>>

\* -o without a URL: a message, but not a failure.
NothingToSave ==
    /\ stage = "starting" /\ saving /\ history = <<>>
    /\ stage' = "over" /\ exit' = 0
    /\ UNCHANGED <<fetchvars, save, browservars, callvars>>

SaveOption ==
    /\ stage = "starting" /\ saving /\ history # <<>>
    /\ \E fname \in Names : Call("option", B!Top.loc.proto, B!Embedded(B!Top.loc), fname)
    /\ stage' = "batch"
    /\ UNCHANGED <<save, exit, browservars, todo>>

\* Whatever became of it, the status is 0.
OptionDone ==
    /\ Back("option")
    /\ Consume(status)
    /\ caller' = "none" /\ stage' = "over" /\ exit' = 0
    /\ UNCHANGED <<save, browservars, todo>>
-----------------------------------------------------------------------------
(* The loop of main().                                                     *)

Interactive == stage = "interactive" /\ pc = "idle" /\ caller = "none"

\* Turns of the loop and keys without a transfer.  The displays and the
\* prompt draw the status bar.
Plainly(step) ==
    /\ Interactive /\ step
    /\ status' = IF place' \in {"display", "prompt"} THEN "" ELSE status
    /\ stage' = IF place' = "ended" THEN "over" ELSE stage
    /\ exit' = IF place' # "ended" THEN exit ELSE IF place = "display" THEN 0 ELSE 1
    /\ UNCHANGED <<req, pc, fd, sock, file, buffer, reslength, totlen, got, idle,
                   result, save, callvars>>

LoadPage ==
    /\ Interactive /\ B!NeedsLoad
    /\ Call("page", B!Top.loc.proto, B!Embedded(B!Top.loc), NoName)
    /\ UNCHANGED <<mainvars, browservars, todo>>

PageFails ==
    /\ Back("page") /\ result < 0
    /\ \E ok \in B!MallocResult :
         history' = B!history_pop(history, ok) /\ asked' = ~ok
    /\ Consume(status) /\ caller' = "none"
    /\ UNCHANGED <<mainvars, place, todo>>

PageArrives ==
    /\ Back("page") /\ result >= 0
    /\ \E page \in B!Contents(B!Top.loc) :
         /\ page.size = result
         /\ B!Display(B!Fill(B!history_cleanupcache(history), page))
    /\ asked' = FALSE
    /\ Consume("") /\ caller' = "none"
    /\ UNCHANGED <<mainvars, todo>>

CopyFails ==
    /\ Back("page") /\ result >= 0
    /\ B!CopyFails
    /\ Consume(set_statusbar(status, "error")) /\ caller' = "none"
    /\ UNCHANGED <<mainvars, todo>>
-----------------------------------------------------------------------------
(* Saving the head.                                                        *)

SaveAs ==
    /\ Interactive /\ place = "prompt"
    /\ \E fname \in Names : Call("prompt", B!Top.loc.proto, B!Embedded(B!Top.loc), fname)
    /\ UNCHANGED <<mainvars, browservars, todo>>

GiveUp ==
    /\ Interactive /\ place = "prompt"
    /\ B!SaveOrCancel
    /\ UNCHANGED <<fetchvars, mainvars, callvars>>

PopOnlyIfSaved ==   \* a mistaken version
    /\ Back("prompt")
    /\ IF result >= 0 THEN B!SaveOrCancel
       ELSE place' = "loop" /\ UNCHANGED <<history, asked>>
    /\ Consume(status) /\ caller' = "none"
    /\ UNCHANGED <<mainvars, todo>>

SaveDone ==
    /\ Back("prompt")
    /\ B!SaveOrCancel
    /\ Consume(status) /\ caller' = "none"
    /\ UNCHANGED <<mainvars, todo>>
-----------------------------------------------------------------------------
(* F10: the lines of a menu from its first to its last link.               *)

DownloadAll ==
    /\ Interactive /\ B!InMenu
    /\ caller' = "all" /\ todo' = B!Top.cache.links
    /\ UNCHANGED <<fetchvars, mainvars, browservars, name, disk>>

Downloading == caller = "all" /\ pc = "idle"
NextLine == CHOOSE line \in todo : \A other \in todo : line <= other

\* A telnet link cannot be downloaded.
SkipLine ==
    /\ Downloading /\ todo # {}
    /\ todo' = todo \ {NextLine}
    /\ UNCHANGED <<fetchvars, mainvars, browservars, caller, name, disk>>

\* The name is made from the selector, and may be the name of any file, also
\* one just downloaded.
DownloadLine ==
    /\ Downloading /\ todo # {}
    /\ todo' = todo \ {NextLine}
    /\ \E fname \in Names, embedded \in BOOLEAN : Call("all", "gopher", embedded, fname)
    /\ UNCHANGED <<mainvars, browservars>>

\* The result is not looked at.
LineDone ==
    /\ Back("all")
    /\ Consume(status)
    /\ UNCHANGED <<mainvars, browservars, caller, todo>>

AllDone ==
    /\ Downloading /\ todo = {}
    /\ caller' = "none" /\ status' = ""
    /\ UNCHANGED <<req, pc, fd, sock, file, buffer, reslength, totlen, got, idle,
                   result, mainvars, browservars, todo, name, disk>>
-----------------------------------------------------------------------------
Transfer(step) == step /\ UNCHANGED <<mainvars, browservars, callvars>>

\* What the program does by itself, without a key.
Runs ==
    \/ StartFails \/ StartLoop \/ NothingToSave \/ SaveOption \/ OptionDone
    \/ LoadPage \/ PageFails \/ PageArrives \/ CopyFails \/ SaveDone
    \/ SkipLine \/ DownloadLine \/ LineDone \/ AllDone
    \/ Plainly(B!StartPage \/ B!Show \/ B!AskFilename)
    \/ Transfer(Program)

Over == stage = "over" /\ UNCHANGED svars

SessionNext ==
    \/ Runs \/ Plainly(B!Key) \/ SaveAs \/ GiveUp \/ DownloadAll
    \/ Transfer(Others) \/ Over

SessionSpec == SessionInit /\ [][SessionNext]_svars
FairSessionSpec == SessionSpec /\ WF_svars(Runs)
-----------------------------------------------------------------------------
(* Properties.                                                             *)

\* Whatever is downloaded, in whatever order and under whatever name: a file
\* that is on disk once is never changed again.
DiskKept == [][\A fname \in Names : disk[fname] # "none" => disk'[fname] = disk[fname]]_svars

\* A transfer that was given up leaves a message in the slot of the status bar
\* for the next drawing, if not its own then an earlier one.
FailureTold == pc = "returned" /\ result < 0 /\ ~notui => status # ""

\* However slow the servers and however many transfers fail in a row, the
\* program comes back to the user or ends, unless memory for the copy of a page
\* is refused again and again.
WithUser ==
    \/ stage = "over"
    \/ Interactive /\ place \in {"display", "prompt"}

UserGetsControl == []<>WithUser \/ []<><<CopyFails>>_svars

\* What Browser says of a load is what the transfers do.
ImplementsBrowser == B!Spec
=============================================================================
