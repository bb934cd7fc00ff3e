--------------------------------- MODULE Urls ---------------------------------
(***************************************************************************)
(* parsegopherurl() and buildgopherurl().  A text is a sequence of         *)
(* characters; "gopher", "http", "telnet" and "URL" stand for these words. *)
(***************************************************************************)
EXTENDS Integers, Sequences, SequencesExt

CONSTANTS
    MAXHOSTLEN, MAXSELLEN,  \* sizes of the arrays for a host and a selector
    MAXURLLEN               \* size of the array for a URL

ASSUME UrlsAssumption ==
    /\ {MAXHOSTLEN, MAXSELLEN, MAXURLLEN} \subseteq Nat \ {0}
    /\ MAXHOSTLEN + 13 <= MAXURLLEN   \* 64 and 256 in config.h

DefaultPort == [gopher |-> 70, http |-> 80, telnet |-> 23]
DefaultType == [gopher |-> "1", http |-> "h", telnet |-> "8"]

DigitSeq == <<"0", "1", "2", "3", "4", "5", "6", "7", "8", "9">>
DigitValue == [d \in ToSet(DigitSeq) |-> SelectInSeq(DigitSeq, LAMBDA e : e = d) - 1]

\* %u of a port.
Decimal[n \in Nat] ==
    IF n < 10 THEN <<DigitSeq[n + 1]>>
    ELSE Append(Decimal[n \div 10], DigitSeq[(n % 10) + 1])

\* What comes before the first of the marks in a text, the mark, and the rest;
\* the mark is "" when there is none.
Cut(text, marks) ==
    LET at == SelectInSeq(text, LAMBDA c : c \in marks)
    IN  IF at = 0 THEN [head |-> text, mark |-> "", tail |-> <<>>]
        ELSE [head |-> SubSeq(text, 1, at - 1), mark |-> text[at],
              tail |-> SubSeq(text, at + 1, Len(text))]

\* The number that the digits at the start of a text stand for.
NumberAt(text) ==
    LET isnotdigit(c) == c \notin ToSet(DigitSeq)
        stop == SelectInSeq(text, isnotdigit)
        size == IF stop = 0 THEN Len(text) ELSE stop - 1
        value[n \in 0 .. size] ==
            IF n = 0 THEN 0 ELSE 10 * value[n - 1] + DigitValue[text[n]]
    IN  value[size]

\* atoi() into an unsigned short: blanks and a sign may come first.
PortOf(text) ==
    LET first  == SelectInSeq(text, LAMBDA c : c \notin {"space", "tab"})
        number == IF first = 0 THEN <<>> ELSE SubSeq(text, first, Len(text))
        sign   == IF number = <<>> THEN "" ELSE Head(number)
    IN  IF sign = "-" THEN (2^16 - (NumberAt(Tail(number)) % 2^16)) % 2^16
        ELSE IF sign = "+" THEN NumberAt(Tail(number)) % 2^16
        ELSE NumberAt(number) % 2^16

Locations == [proto : DOMAIN DefaultPort, host : Seq(STRING), port : 0 .. 2^16 - 1,
              itemtype : STRING, selector : Seq(STRING)]

Failure == [proto |-> "error", host |-> <<>>, port |-> 0, itemtype |-> "1",
            selector |-> <<>>]

\* "://" before any other slash or colon ends the name of a protocol.
Scheme(url) ==
    LET first == Cut(url, {":", "/"})
    IN  IF first.mark = ":" /\ IsPrefix(<<"/", "/">>, first.tail)
        THEN [proto |-> IF \E p \in DOMAIN DefaultPort : first.head = <<p>>
                        THEN first.head[1] ELSE "error",
              rest  |-> SubSeq(first.tail, 3, Len(first.tail))]
        ELSE [proto |-> "gopher", rest |-> url]

\* A mistaken version: a type needs a selector behind it.
HasTypeAndSelector(proto, path) == proto = "gopher" /\ Len(path) > 1

\* Only a gopher path starts with a type.
HasType(proto, path) == proto = "gopher" /\ path # <<>>

\* The parts behind the protocol.
Parts(proto, text) ==
    LET name  == Cut(text, {":", "/"})
        port  == Cut(name.tail, {"/"})
        path  == IF name.mark = ":" THEN port.tail ELSE name.tail
        typed == HasType(proto, path)
    IN  [proto    |-> proto,
         host     |-> name.head,
         port     |-> IF name.mark = ":" THEN PortOf(port.head)
                      ELSE DefaultPort[proto],
         itemtype |-> IF typed THEN Head(path) ELSE DefaultType[proto],
         selector |-> IF typed THEN Tail(path) ELSE path]

parsegopherurl(url) ==
    LET scheme == Scheme(url)
        parts  == Parts(scheme.proto, scheme.rest)
    IN  IF \/ scheme.proto = "error"
           \/ Len(parts.host) >= MAXHOSTLEN
           \/ Len(parts.selector) >= MAXSELLEN
        THEN Failure ELSE parts

-----------------------------------------------------------------------------

\* The digits of an encoded byte are those of 0x09, a TAB.
Encoded(c) == IF c = "tab" THEN <<"%", "0", "9">> ELSE <<c>>
EncodedUpTo(selector, n) == FlattenSeq([i \in 1 .. n |-> Encoded(selector[i])])

\* As much of the encoded selector as fits; an encoded byte is not cut.
EncodedWithin(selector, room) ==
    LET fits == {n \in 0 .. Len(selector) :
                    Len(EncodedUpTo(selector, n)) <= room}
    IN  EncodedUpTo(selector, CHOOSE n \in fits : \A k \in fits : k <= n)

\* A mistaken version: the default is gopher's for every protocol.
WithPortNot70(location, default) ==
    IF location.port = 70 THEN location.host
    ELSE location.host \o <<":">> \o Decimal[location.port]

WithPort(location, default) ==
    IF location.port = default THEN location.host
    ELSE location.host \o <<":">> \o Decimal[location.port]

\* What snprintf() puts into an array of n bytes.
Printed(text, n) == SubSeq(text, 1, IF Len(text) < n THEN Len(text) ELSE n - 1)

\* The address in a link of the kind "URL:http://..."
HasUrl(location) ==
    /\ location.itemtype = "h"
    /\ \E start \in {<<"URL", ":">>, <<"/", "URL", ":">>} :
          IsPrefix(start, location.selector)
UrlWithin(location) ==
    LET skipped == IF Head(location.selector) = "/" THEN 3 ELSE 2
    IN  SubSeq(location.selector, skipped + 1, Len(location.selector))

\* Whether buildgopherurl() returns -1.
NotAUrl(location) ==
    location.proto # "http" /\ (location.port < 1 \/ location.itemtype = "tab")

\* A gopher URL is put together piece by piece, each told the room that is
\* left; behind a host that fills the array that is less than nothing, and a
\* port, a type or the end of the text goes beyond it.
UrlOverruns(location) ==
    LET start == <<"gopher", ":", "/", "/">> \o WithPort(location, 70) IN
    /\ location.proto # "http" /\ ~NotAUrl(location)
    /\ ~HasUrl(location) /\ location.itemtype # "8" /\ location.host # <<>>
    /\ IF location.itemtype = "1" /\ location.selector = <<>>
       THEN location.port # 70 /\ 4 + Len(location.host) > MAXURLLEN - 1
       ELSE Len(start) + 2 > MAXURLLEN - 1

\* Anything but HTTP is written as gopher or telnet, by its type; this is not
\* said of a location for which UrlOverruns holds.
buildgopherurl(location) ==
    IF location.proto = "http"
    THEN Printed(<<"http", ":", "/", "/">> \o WithPort(location, 80) \o <<"/">>
                   \o location.selector, MAXURLLEN - 1)
    ELSE IF HasUrl(location) THEN Printed(UrlWithin(location), MAXURLLEN - 1)
    ELSE IF location.itemtype = "8"
    THEN Printed(<<"telnet", ":", "/", "/">> \o location.host \o <<":">> \o
                   Decimal[location.port], MAXURLLEN - 1)
    ELSE IF location.host = <<>> THEN <<"gopher", ":", "/", "/">>
    ELSE LET start == <<"gopher", ":", "/", "/">> \o WithPort(location, 70)
             typed == start \o <<"/", location.itemtype>>
         IN  IF location.itemtype = "1" /\ location.selector = <<>>
             THEN Printed(start, MAXURLLEN - 1)
             ELSE Printed(typed, MAXURLLEN - 1) \o
                     EncodedWithin(location.selector, MAXURLLEN - 1 - Len(typed))
=============================================================================
