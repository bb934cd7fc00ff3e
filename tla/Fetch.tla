-------------------------------- MODULE Fetch --------------------------------
(***************************************************************************)
(* One call of loadfile_buff(): a resource is fetched into the page buffer *)
(* or, when a file name is given, into a new file.  Bytes of the answer    *)
(* are known by their rank: 1 is the first byte of the body, and 0 any     *)
(* byte that is not of the body.                                           *)
(***************************************************************************)
EXTENDS Integers, Sequences

CONSTANTS
    BUFMAX,         \* buffer_max
    HDRLEN,         \* length of the headers of an HTTP answer
    TIMEOUT,        \* seconds without data after which a load is given up
    HTTP_TIMEOUT,   \* seconds the HTTP headers may take
    MaxBody,        \* bound on the bytes a server sends
    DiskFaults      \* of "create", "write", "close": what a disk may refuse

ASSUME FetchAssumption ==
    /\ BUFMAX \in Nat \ {0} /\ HDRLEN \in Nat /\ MaxBody \in Nat
    /\ TIMEOUT \in Nat /\ HTTP_TIMEOUT \in Nat
    /\ DiskFaults \subseteq {"create", "write", "close"}

VARIABLES
    req,         \* what is asked for, and whether the file exists already
    pc,
    fd,          \* whether the file is open
    sock,        \* whether there is a socket
    file,        \* the file named by the caller
    buffer,
    reslength,   \* bytes of the buffer in use
    totlen,      \* bytes counted as received
    got,         \* ghost: bytes of the body that have been received
    idle,        \* curtime - lastactivity, as of the last look at the clock
    status,      \* glob_statusbar
    result       \* value returned

vars == <<req, pc, fd, sock, file, buffer, reslength, totlen, got, idle,
          status, result>>

Messages == {"", "old", "progress", "error", "aborted", "truncated", "saved"}

\* The command line option -o fetches to a file before there is a display.
Request == {r \in [proto : {"gopher", "http"}, embedded : BOOLEAN,
                   tofile : BOOLEAN, exists : BOOLEAN, notui : BOOLEAN] :
              r.notui => r.tofile}

Body(n) == [i \in 1 .. n |-> i]
NoFile == [exists |-> FALSE, bytes |-> <<>>]
Before == IF req.exists THEN [exists |-> TRUE, bytes |-> <<0>>] ELSE NoFile

Init ==
    /\ req \in Request
    /\ pc = "open"
    /\ fd = FALSE /\ sock = FALSE
    /\ file = Before
    /\ buffer = [p \in 1 .. BUFMAX |-> 0]
    /\ reslength = 0 /\ totlen = 0 /\ got = 0 /\ idle = 0
    /\ status \in IF req.notui THEN {""} ELSE {"", "old"}
    /\ result = -1

-----------------------------------------------------------------------------
\* A message stays in the status bar until it is drawn, and no other one is
\* accepted meanwhile; without a display messages go to the console.
set_statusbar(bar, msg) == IF bar = "" THEN msg ELSE bar
status_msg(bar, msg) == IF req.notui THEN bar ELSE set_statusbar(bar, msg)

\* "Downloading..." and draw_statusbar().
Drawn(bar) == IF req.notui THEN bar ELSE ""

\* The label FAIL, and mistaken versions of it.
FailOpenSocket(bar) ==
    /\ file' = IF fd THEN NoFile ELSE file
    /\ fd' = FALSE
    /\ status' = bar /\ result' = -1 /\ pc' = "returned"
    /\ UNCHANGED <<req, sock, buffer, reslength, totlen, got, idle>>

FailKeepFile(bar) ==
    /\ fd' = FALSE /\ sock' = FALSE
    /\ status' = bar /\ result' = -1 /\ pc' = "returned"
    /\ UNCHANGED <<req, file, buffer, reslength, totlen, got, idle>>

Fail(bar) ==
    /\ file' = IF fd THEN NoFile ELSE file
    /\ fd' = FALSE /\ sock' = FALSE
    /\ status' = bar /\ result' = -1 /\ pc' = "returned"
    /\ UNCHANGED <<req, buffer, reslength, totlen, got, idle>>

\* fclose(), whose result nobody looks at: the end of what was written may
\* be lost.
Flushed(bytes) ==
    {bytes} \cup
    (IF "close" \in DiskFaults
     THEN {SubSeq(bytes, 1, n) : n \in 0 .. Len(bytes)} ELSE {})

Return(bar, length, bytes) ==
    /\ \E kept \in Flushed(bytes) :
         file' = IF fd THEN [exists |-> TRUE, bytes |-> kept] ELSE file
    /\ fd' = FALSE /\ sock' = FALSE
    /\ status' = bar /\ result' = length /\ pc' = "returned"

-----------------------------------------------------------------------------
(* Opening the file.                                                       *)

OpenAnyway ==   \* a mistaken version
    /\ pc = "open" /\ req.tofile /\ file.exists
    /\ file' = [exists |-> TRUE, bytes |-> <<>>]
    /\ fd' = TRUE /\ pc' = "dns"
    /\ UNCHANGED <<req, sock, buffer, reslength, totlen, got, idle, status,
                   result>>

FileExistsSilently ==   \* a mistaken version
    /\ pc = "open" /\ req.tofile /\ file.exists
    /\ Fail(status)

FileExists ==
    /\ pc = "open" /\ req.tofile /\ file.exists
    /\ Fail(status_msg(status, "error"))

CreateFails ==
    /\ pc = "open" /\ req.tofile /\ ~file.exists
    /\ "create" \in DiskFaults
    /\ Fail(status_msg(status, "error"))

Open ==
    /\ pc = "open"
    /\ \/ ~req.tofile /\ UNCHANGED <<fd, file>>
       \/ /\ req.tofile /\ ~file.exists
          /\ fd' = TRUE
          /\ file' = [exists |-> TRUE, bytes |-> <<>>]
    /\ pc' = IF req.embedded THEN "embedded" ELSE "dns"
    /\ UNCHANGED <<req, sock, buffer, reslength, totlen, got, idle, status,
                   result>>

\* The start page and the manual are unpacked into the buffer; nobody checks
\* that all of it reached the file.
EmbeddedPage ==
    /\ pc = "embedded"
    /\ \E n \in 1 .. BUFMAX :
       \E w \in IF "write" \in DiskFaults THEN 0 .. n ELSE {n} :
         /\ buffer' = [p \in 1 .. BUFMAX |-> IF p <= n THEN p ELSE buffer[p]]
         /\ reslength' = n /\ got' = n
         /\ Return(status, n, Body(w))
    /\ UNCHANGED <<req, totlen, idle>>

-----------------------------------------------------------------------------
(* Name, connection, query.                                                *)

\* The address is in the cache, or it is resolved.
Resolve ==
    /\ pc = "dns"
    /\ status' \in {status, status_msg(status, "progress")}
    /\ pc' = "connect"
    /\ UNCHANGED <<req, fd, sock, file, buffer, reslength, totlen, got, idle,
                   result>>

ResolveFails ==
    /\ pc = "dns"
    /\ Fail(status_msg(status_msg(status, "progress"), "error"))

Connect ==
    /\ pc = "connect"
    /\ status' = status_msg(status, "progress")
    /\ sock' = TRUE
    /\ pc' = "wait"
    /\ UNCHANGED <<req, fd, file, buffer, reslength, totlen, got, idle, result>>

NoSocket ==
    /\ pc = "connect"
    /\ Fail(status_msg(status_msg(status, "progress"), "error"))

Connected ==
    /\ pc = "wait"
    /\ pc' = "send"
    /\ UNCHANGED <<req, fd, sock, file, buffer, reslength, totlen, got, idle,
                   status, result>>

Refused == pc = "wait" /\ Fail(status_msg(status, "error"))

\* Any key.
WaitAborted == pc = "wait" /\ Fail(status_msg(status, "aborted"))

\* The query is composed in the buffer, and the timers are started.
Send ==
    /\ pc = "send"
    /\ buffer' = [p \in 1 .. BUFMAX |-> 0]
    /\ idle' = 0 /\ reslength' = 0
    /\ pc' = IF req.proto = "http" THEN "headers" ELSE "receive"
    /\ UNCHANGED <<req, fd, sock, file, totlen, got, status, result>>

SendFails == pc = "send" /\ Fail(status_msg(status, "error"))

-----------------------------------------------------------------------------
(* http_skip_headers().  It polls: a second may pass at each step.         *)

HeadersGoOn == pc = "headers" /\ idle <= HTTP_TIMEOUT /\ reslength < BUFMAX

HeadersSilence ==
    /\ HeadersGoOn
    /\ idle' = idle + 1
    /\ UNCHANGED <<req, pc, fd, sock, file, buffer, reslength, totlen, got,
                   status, result>>

\* Some of the headers, possibly all of them: the end of headers that end
\* with two bare LFs is seen one byte late.
HeadersArrive ==
    /\ HeadersGoOn
    /\ \E n \in 1 .. BUFMAX - reslength : \E second \in 0 .. 1 :
         /\ reslength + n <= HDRLEN
         /\ reslength' = reslength + n
         /\ idle' = idle + second
    /\ UNCHANGED <<req, pc, fd, sock, file, buffer, totlen, got, status,
                   result>>

\* The end of the headers; the beginning of the body that came with it is
\* moved to the front of the buffer.
HeadersEnd ==
    /\ HeadersGoOn
    /\ \E n \in 1 .. BUFMAX - reslength : \E second \in 0 .. 1 :
         LET last     == reslength + n
             leftover == last - HDRLEN
             received == [p \in 1 .. BUFMAX |->
                            IF p \in HDRLEN + 1 .. last THEN p - HDRLEN
                            ELSE buffer[p]]
         IN  /\ leftover \in 0 .. MaxBody
             /\ buffer' = [p \in 1 .. BUFMAX |->
                             IF p <= leftover THEN received[p + HDRLEN]
                             ELSE received[p]]
             /\ reslength' = leftover /\ got' = leftover
             /\ idle' = idle + second
    /\ pc' = "receive"
    /\ UNCHANGED <<req, fd, sock, file, totlen, status, result>>

HeadersFail ==
    /\ pc = "headers"
    /\ idle > HTTP_TIMEOUT \/ reslength >= BUFMAX
    /\ Fail(status_msg(status, "error"))

HeadersCut ==   \* the connection ends
    /\ HeadersGoOn
    /\ Fail(status_msg(status, "error"))

-----------------------------------------------------------------------------
(* Receiving the body.                                                     *)

\* ESC or TAB.
UserAborts == pc = "receive" /\ Fail(status_msg(status, "aborted"))

\* The connection is closed.  A body that seems empty is a failure.
Finish(bar) ==
    IF totlen = 0 THEN Fail(status_msg(bar, "error"))
    ELSE /\ Return(IF fd THEN status_msg(bar, "saved") ELSE bar, totlen,
                   file.bytes)
         /\ UNCHANGED <<req, buffer, reslength, totlen, got, idle>>

\* The buffer is full, or seems to be: nothing tells that more was to come.
Truncate ==
    /\ pc = "receive" /\ reslength >= BUFMAX
    /\ Finish(status_msg(status, "truncated"))

\* net_recv(): the status bar is drawn whenever the clock has changed since
\* the last time (drawing it again in the same silence changes nothing).
Receiving == pc = "receive" /\ reslength < BUFMAX
BarAfter(seconds) == IF seconds > 0 THEN Drawn(status) ELSE status

SilenceForever ==   \* a mistaken version
    /\ Receiving
    /\ idle' = IF idle < TIMEOUT THEN idle + 1 ELSE idle
    /\ status' = BarAfter(idle')
    /\ UNCHANGED <<req, pc, fd, sock, file, buffer, reslength, totlen, got,
                   result>>

Silence ==
    /\ Receiving
    /\ \E second \in 0 .. 1 :
         LET seconds == idle + second IN
         IF seconds > TIMEOUT
         THEN Fail(status_msg(BarAfter(seconds), "error"))
         ELSE /\ idle' = seconds
              /\ status' = BarAfter(seconds)
              /\ UNCHANGED <<req, pc, fd, sock, file, buffer, reslength,
                             totlen, got, result>>

\* The end of the connection; net_recv() does not tell a reset from it.
PeerCloses == Receiving /\ Finish(Drawn(status))

\* n more bytes of the body, put at buffer + reslength.
Arrive(n) ==
    /\ got + n <= MaxBody
    /\ buffer' = [p \in 1 .. BUFMAX |->
                    IF p \in reslength + 1 .. reslength + n
                    THEN got + (p - reslength) ELSE buffer[p]]
    /\ got' = got + n /\ totlen' = totlen + n
    /\ \E second \in 0 .. 1 : status' = BarAfter(idle + second)
    /\ idle' = 0
    /\ UNCHANGED <<req, pc, fd, sock, result>>

\* What fwrite(buffer, 1, n, fd) appends.
Written(n) == [exists |-> file.exists,
               bytes  |-> file.bytes \o SubSeq(buffer', 1, n)]

ReceiveAdvancing ==   \* a mistaken version
    /\ Receiving
    /\ \E n \in 1 .. BUFMAX - reslength :
         /\ Arrive(n)
         /\ file' = IF fd THEN Written(n) ELSE file
         /\ reslength' = reslength + n

\* A file is written from the front of the buffer, which is used again for
\* what comes next.
Receive ==
    /\ Receiving
    /\ \E n \in 1 .. BUFMAX - reslength :
         /\ Arrive(n)
         /\ file' = IF fd THEN Written(n) ELSE file
         /\ reslength' = IF fd THEN reslength ELSE reslength + n

WriteFails ==
    /\ Receiving /\ fd /\ "write" \in DiskFaults
    /\ \E second \in 0 .. 1 :
         Fail(status_msg(BarAfter(idle + second), "error"))

Returned == pc = "returned" /\ UNCHANGED vars
-----------------------------------------------------------------------------
\* What the program does whoever is at the other end: the local steps, the
\* polls that find nothing, and the end of a connection attempt, which the
\* operating system announces sooner or later.
Program ==
    \/ FileExists \/ CreateFails \/ Open \/ EmbeddedPage
    \/ Resolve \/ ResolveFails
    \/ Connect \/ NoSocket \/ Connected \/ Refused
    \/ Send \/ SendFails
    \/ HeadersSilence \/ HeadersFail
    \/ Truncate \/ Silence

\* What the server, the disk and the user may or may not do.
Others ==
    \/ WaitAborted \/ UserAborts
    \/ HeadersArrive \/ HeadersEnd \/ HeadersCut
    \/ Receive \/ WriteFails \/ PeerCloses

Next == Program \/ Others \/ Returned

Spec == Init /\ [][Next]_vars
-----------------------------------------------------------------------------
(* Properties.                                                             *)

\* The shapes of the variables; the buffer is never overrun.
TypeOK ==
    /\ req \in Request
    /\ pc \in {"open", "embedded", "dns", "connect", "wait", "send", "headers",
               "receive", "returned"}
    /\ fd \in BOOLEAN /\ sock \in BOOLEAN
    /\ file \in [exists : BOOLEAN, bytes : Seq(Nat)]
    /\ buffer \in [1 .. BUFMAX -> Nat]
    /\ reslength \in 0 .. BUFMAX
    /\ totlen \in Nat /\ got \in Nat /\ idle \in Nat
    /\ status \in Messages
    /\ result \in Int

\* Whatever went wrong, and wherever, neither the socket nor the file is left
\* open when loadfile_buff() returns.
NoLeak == pc = "returned" => ~fd /\ ~sock

\* A file that existed before is never changed.
FileKept == req.exists => file = Before

\* A load that fails leaves no file behind, and one that succeeds leaves one
\* exactly if it was asked to.
FileOnlyIfSaved ==
    pc = "returned" =>
        (file.exists <=> req.exists \/ (req.tofile /\ result >= 0))

\* What a successful load has put where it was asked to.
Output == IF req.tofile THEN file.bytes ELSE SubSeq(buffer, 1, result)
Success == pc = "returned" /\ result >= 0

\* Gopher: the page or the file is made of exactly the bytes the server sent,
\* in order, however they were cut into pieces, and the length returned is
\* theirs.
GopherExact ==
    Success /\ req.proto = "gopher" /\ ~req.embedded =>
        result = got /\ Output = Body(got)

\* gopherus.c:779-780, "downloads a gopher or http resource and write it to a
\* file or a memory buffer": the same of both protocols.
AnyProtocolExact ==
    Success /\ ~req.embedded => result = got /\ Output = Body(got)
=============================================================================
