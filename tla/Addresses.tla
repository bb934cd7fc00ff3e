------------------------------- MODULE Addresses -------------------------------
(***************************************************************************)
(* Where the user goes from a page: edit_url(), which puts the URL of the  *)
(* page into the line editor and parses what comes out of it, and the      *)
(* links of a menu, which are turned into a URL and parsed again; and the  *)
(* name that is suggested for what is saved.                               *)
(***************************************************************************)
EXTENDS LineEdit, Urls, FileNames

CONSTANTS
    Pages,          \* locations on which the URL is edited
    Links,          \* links of the menu
    MAXNAMELEN,     \* size of the array for the name of a file
    Memory,         \* texts found there when a selector is read past its end
    MaxChanges      \* bound on the changes made to a text

ASSUME AddressesAssumption ==
    /\ maxlen = MAXURLLEN /\ MaxChanges \in Nat
    /\ MAXNAMELEN \in Nat \ {0} /\ MAXNAMELEN <= 2^16
    /\ MAXSELLEN <= 2^16    \* a parsed selector is counted in an unsigned short
    /\ Chars \subseteq STRING /\ Memory \subseteq Seq(STRING) /\ "_" \notin Shady
    /\ Pages \subseteq Locations /\ Links \subseteq Locations
    /\ \A p \in Pages :
         ~NotAUrl(p) /\ ~UrlOverruns(p) => buildgopherurl(p) \in Seq(Chars)

VARIABLES
    from,           \* ghost: the page whose URL is edited, or the link chosen
    there,          \* the location that is visited next
    turn,           \* "edit", "menu", or "overrun" when the URL of from is
                    \* written beyond its array; what follows is left open
    filename,       \* suggested in the prompt
    changes         \* counts the changes made to the text

allvars == <<url, urllen, cursorpos, result, from, there, turn,
             filename, changes>>

\* TAB does nothing on a page that has no URL.  A menu is a page too, but of
\* what it does only the choice of a link is of interest here.
Init ==
    /\ \/ /\ turn = "edit"
          /\ from \in {p \in Pages : ~NotAUrl(p) /\ ~UrlOverruns(p)}
          /\ Begin(buildgopherurl(from))
       \/ /\ turn = "menu"
          /\ from \in {l \in Links : ~UrlOverruns(l)}
          /\ Begin(<<>>)
       \/ /\ turn = "overrun"
          /\ from \in {l \in Pages \cup Links : UrlOverruns(l)}
          /\ Begin(<<>>)
    /\ there = Failure
    /\ filename = <<>>
    /\ changes = 0

MoveCursor ==
    /\ turn = "edit"
    /\ Move
    /\ UNCHANGED <<from, there, turn, filename, changes>>

ChangeText ==
    /\ turn = "edit"
    /\ changes < MaxChanges
    /\ Change
    /\ changes' = changes + 1
    /\ UNCHANGED <<from, there, turn, filename>>

\* history_push() in edit_url(), unless the text is not a URL.
Enter ==
    /\ turn = "edit"
    /\ Leave("entered")
    /\ there' = parsegopherurl(Text(0, urllen))
    /\ UNCHANGED <<from, turn, filename, changes>>

Cancel ==
    /\ turn = "edit"
    /\ Leave("cancelled")
    /\ UNCHANGED <<from, there, turn, filename, changes>>

\* curURL, the URL of the chosen link, and what it is parsed into.
CurUrl == IF NotAUrl(from) THEN <<>> ELSE buildgopherurl(from)
Target == parsegopherurl(CurUrl)

\* ENTER on a link that is not a query.
FollowLink ==
    /\ turn = "menu"
    /\ from.itemtype # "7"
    /\ Target.proto \notin {"error", "telnet"}
    /\ Leave("followed")
    /\ there' = Target
    /\ UNCHANGED <<from, turn, filename, changes>>

\* F9 makes a file of what is behind a link.
SaveLink ==
    /\ turn = "menu"
    /\ Target.itemtype \notin {"8", "i", "3", "."}
    /\ Target.proto \notin {"error", "telnet"}
    /\ Leave("saved")
    /\ there' = [Target EXCEPT !.itemtype = "9"]
    /\ UNCHANGED <<from, turn, filename, changes>>

\* The name is taken from the selector; when that ends with a slash, from
\* whatever is behind it in memory.
NamedAfter(selector) ==
    IF selector # <<>> /\ Last(selector) = "/" THEN Memory ELSE {selector}

\* What can only be saved is asked for by name, unless the name is written
\* beyond its array; what follows then is left open.
AskFilename ==
    /\ result \in {"followed", "saved"} /\ there.itemtype = "9"
    /\ \E text \in NamedAfter(there.selector) :
         IF NameOverruns(MAXNAMELEN, text)
         THEN result' = "nameoverrun" /\ UNCHANGED filename
         ELSE /\ result' = "prompted"
              /\ filename' = genfnamefromselector(MAXNAMELEN, text)
    /\ UNCHANGED <<url, urllen, cursorpos, from, there, turn, changes>>

Next ==
    \/ MoveCursor \/ ChangeText \/ Enter \/ Cancel
    \/ FollowLink \/ SaveLink \/ AskFilename

Spec == Init /\ [][Next]_allvars

-----------------------------------------------------------------------------
(* Properties.                                                             *)

\* Locations that a URL can express: not those with bytes that are encoded
\* and never decoded, those that are only an address of something else, and
\* those whose URL fills its array.
Expressible(location) ==
    /\ location.proto \in {"gopher", "http"}
    /\ location.host # <<>> /\ ToSet(location.host) \cap {":", "/"} = {}
    /\ "tab" \notin ToSet(location.selector)
    /\ ~HasUrl(location)
    /\ ~NotAUrl(location) /\ location.itemtype # "8"
    /\ location.proto = "http" => location.itemtype = "h"
    /\ ~UrlOverruns(location)
    /\ Len(buildgopherurl(location)) < MAXURLLEN - 2

\* Whatever is typed as a URL leads to a location whose own URL, when it is
\* shown and entered again, leads to that location; an unchanged URL leads to
\* the page it was shown for, or is refused because the host or the selector,
\* which a query takes from its menu unparsed, is too long to be parsed.
EnteredAgain ==
    result = "entered" =>
        /\ Expressible(there) => parsegopherurl(buildgopherurl(there)) = there
        /\ changes = 0 /\ Expressible(from) =>
             there = IF Len(from.host) < MAXHOSTLEN /\ Len(from.selector) < MAXSELLEN
                     THEN from ELSE Failure

\* A link leads to the item of the menu that it is about, or its file is
\* saved, whether or not that item needs a type, a port or a selector.  Only
\* for a host that could not be parsed is a URL written beyond its array.
LinkLeadsThere ==
    /\ Expressible(from) =>
         /\ result = "followed" => there = from
         /\ result = "saved" => there = [from EXCEPT !.itemtype = "9"]
    /\ turn = "overrun" => Len(from.host) >= MAXHOSTLEN

\* The name suggested for a file is one that can be created here: short enough
\* and without a directory or another shady character.  For a path whose
\* extension leaves room for something in front of it, it is still
\* recognisable: it is the last part of the selector when that fits, and it
\* keeps the extension in any case.  It is written beyond its array only for an
\* extension that does not fit.
LastPart(selector) ==
    LET slash == SelectLastInSeq(selector, LAMBDA c : c = "/") IN
    SubSeq(selector, slash + 1, Len(selector))

\* The selectors of files: no empty part, and a last part that begins with
\* something else than a dot.
Path(selector) ==
    /\ \A i \in 2 .. Len(selector) : selector[i] = "/" => selector[i - 1] # "/"
    /\ LastPart(selector) # <<>> /\ Head(LastPart(selector)) # "."

GoodName ==
    LET part == LastPart(there.selector)
        dot  == SelectLastInSeq(part, LAMBDA c : c = ".")
        ext  == IF dot \in {0, Len(part)} THEN <<>> ELSE SubSeq(part, dot, Len(part))
    IN  /\ result = "prompted" =>
             /\ Len(filename) < MAXNAMELEN
             /\ ToSet(filename) \cap Shady = {}
             /\ Path(there.selector) /\ Len(ext) < MAXNAMELEN - 1 =>
                  /\ filename # <<>>
                  /\ Len(part) < MAXNAMELEN /\ Last(part) # "." =>
                       filename = Replaced(part)
                  /\ IsSuffix(Replaced(ext), filename)
        /\ result = "nameoverrun" /\ Path(there.selector) =>
             Len(ext) >= MAXNAMELEN
=============================================================================
