---------------------------- MODULE SessionProofs ----------------------------
(***************************************************************************)
(* One transfer: a load never leaves a socket or a file open, never        *)
(* touches a file that was there, never leaves half a file, and delivers   *)
(* what a gopher server sent, for every size of the buffer, length of the  *)
(* answer and timeout.                                                     *)
(*                                                                         *)
(* A run of the program: whatever is loaded, saved and downloaded, in      *)
(* whatever order, what is proved of one transfer holds of all of them, no *)
(* file on disk is ever changed, every failure is told, and a run is a     *)
(* session of Browser.                                                     *)
(*                                                                         *)
(* The DNS step of a transfer: the table of names keeps its promises for   *)
(* every number of slots, every lifetime and every set of names.           *)
(***************************************************************************)
EXTENDS Session, DnsCache, SequenceTheorems, FiniteSetTheorems, TLAPS

-----------------------------------------------------------------------------
(* A transfer: the inductive invariant.  Structure says which resources    *)
(* are held where; it is what the checked properties need to be inductive. *)

Structure ==
    /\ pc \in {"open", "returned"} => ~fd
    /\ sock => pc \in {"wait", "send", "headers", "receive"}
    /\ pc = "open" => file = Before
    /\ pc = "embedded" => req.embedded
    /\ pc \notin {"open", "returned"} =>
         /\ fd <=> req.tofile
         /\ fd => ~req.exists /\ file.exists
    /\ ~req.tofile => file = Before

IInv == TypeOK /\ Structure /\ FileKept /\ FileOnlyIfSaved

LEMMA Message ==
    ASSUME NEW bar \in Messages, NEW msg \in Messages
    PROVE  status_msg(bar, msg) \in Messages /\ Drawn(bar) \in Messages
BY DEF status_msg, set_statusbar, Drawn, Messages

LEMMA Bars ==
    ASSUME status \in Messages
    PROVE  /\ \A seconds : BarAfter(seconds) \in Messages
           /\ Drawn(status) \in Messages
           /\ \A msg \in Messages :
                /\ status_msg(status, msg) \in Messages
                /\ status_msg(Drawn(status), msg) \in Messages
                /\ \A seconds : status_msg(BarAfter(seconds), msg) \in Messages
                /\ \A msg2 \in Messages :
                     status_msg(status_msg(status, msg), msg2) \in Messages
BY Message DEF BarAfter

LEMMA FileShape ==
    /\ NoFile \in [exists : BOOLEAN, bytes : Seq(Nat)]
    /\ Before \in [exists : BOOLEAN, bytes : Seq(Nat)]
    /\ NoFile.exists = FALSE
    /\ req.exists => Before.exists
    /\ ~req.exists => Before = NoFile
BY DEF NoFile, Before

\* The label FAIL releases everything and removes the file.
LEMMA FailKeepsInv ==
    ASSUME IInv, pc # "returned", NEW bar \in Messages, Fail(bar)
    PROVE  IInv'
<1>1. /\ req' = req /\ buffer' = buffer /\ reslength' = reslength
      /\ totlen' = totlen /\ got' = got /\ idle' = idle
      /\ fd' = FALSE /\ sock' = FALSE /\ status' = bar
      /\ result' = -1 /\ pc' = "returned"
      /\ file' = IF fd THEN NoFile ELSE file
  BY DEF Fail
<1>2. TypeOK /\ Structure
  BY DEF IInv
<1>3. file' = Before
  <2>1. CASE fd
    <3>1. ~req.exists
      BY <1>2, <2>1 DEF Structure
    <3> QED
      BY <1>1, <2>1, <3>1, FileShape
  <2>2. CASE ~fd
    <3>1. pc = "open" \/ ~req.tofile
      BY <1>2, <2>2 DEF Structure
    <3> QED
      BY <1>1, <1>2, <2>2, <3>1 DEF Structure
  <2> QED
    BY <2>1, <2>2
<1>4. Before' = Before
  BY <1>1 DEF Before
<1>5. TypeOK'
  <2>1. file' \in [exists : BOOLEAN, bytes : Seq(Nat)]
    BY <1>3, FileShape
  <2>2. status' \in Messages /\ pc' = "returned" /\ result' \in Int
    BY <1>1
  <2>3. /\ req' \in Request /\ buffer' \in [1 .. BUFMAX -> Nat]
        /\ reslength' \in 0 .. BUFMAX
        /\ totlen' \in Nat /\ got' \in Nat /\ idle' \in Nat
    BY <1>1, <1>2 DEF TypeOK
  <2> QED
    BY <1>1, <2>1, <2>2, <2>3 DEF TypeOK
<1>6. Structure' /\ FileKept'
  BY <1>1, <1>3, <1>4 DEF Structure, FileKept
<1>7. FileOnlyIfSaved'
  BY <1>1, <1>3, FileShape DEF FileOnlyIfSaved
<1> QED
  BY <1>5, <1>6, <1>7 DEF IInv

LEMMA FlushedShape ==
    ASSUME NEW bytes \in Seq(Nat)
    PROVE  Flushed(bytes) \subseteq Seq(Nat)
<1>1. \A n \in 0 .. Len(bytes) : SubSeq(bytes, 1, n) \in Seq(Nat)
  OBVIOUS
<1> QED
  BY <1>1 DEF Flushed

\* The successful returns.
LEMMA ReturnKeepsInv ==
    ASSUME IInv, pc \in {"embedded", "receive"},
           NEW bar \in Messages, NEW length \in Nat, NEW bytes \in Seq(Nat),
           Return(bar, length, bytes),
           req' = req, buffer' \in [1 .. BUFMAX -> Nat],
           reslength' \in 0 .. BUFMAX, totlen' \in Nat, got' \in Nat,
           idle' \in Nat
    PROVE  IInv'
<1>1. /\ fd' = FALSE /\ sock' = FALSE /\ status' = bar
      /\ result' = length /\ pc' = "returned"
  BY DEF Return
<1>2. TypeOK /\ Structure
  BY DEF IInv
<1>3. PICK kept \in Seq(Nat) :
        file' = IF fd THEN [exists |-> TRUE, bytes |-> kept] ELSE file
  BY FlushedShape DEF Return
<1>4. Before' = Before
  BY DEF Before
<1>5. (fd <=> req.tofile) /\ (fd => ~req.exists) /\ (~fd => file = Before)
  BY <1>2 DEF Structure
<1>6. file' \in [exists : BOOLEAN, bytes : Seq(Nat)]
  BY <1>2, <1>3 DEF TypeOK
<1>7. TypeOK'
  <2>1. req' \in Request
    BY <1>2 DEF TypeOK
  <2>2. status' \in Messages /\ pc' = "returned" /\ result' \in Int
    BY <1>1
  <2> QED
    BY <1>1, <1>6, <2>1, <2>2 DEF TypeOK
<1>8. Structure' /\ FileKept'
  BY <1>1, <1>3, <1>4, <1>5 DEF Structure, FileKept
<1>9. FileOnlyIfSaved'
  BY <1>1, <1>3, <1>5, FileShape DEF FileOnlyIfSaved
<1> QED
  BY <1>7, <1>8, <1>9 DEF IInv

LEMMA FinishKeepsInv ==
    ASSUME IInv, pc = "receive", NEW bar \in Messages, Finish(bar)
    PROVE  IInv'
<1>1. TypeOK
  BY DEF IInv
<1>2. CASE totlen = 0
  <2>1. status_msg(bar, "error") \in Messages
    BY Message DEF Messages
  <2> QED
    BY <1>2, <2>1, FailKeepsInv DEF Finish
<1>3. CASE totlen # 0
  <2> DEFINE shown == IF fd THEN status_msg(bar, "saved") ELSE bar
  <2>1. shown \in Messages
    BY Message DEF Messages
  <2>2. Return(shown, totlen, file.bytes)
    BY <1>3 DEF Finish
  <2>3. file.bytes \in Seq(Nat)
    BY <1>1 DEF TypeOK
  <2>4. UNCHANGED <<req, buffer, reslength, totlen, got, idle>>
    BY <1>3 DEF Finish
  <2> HIDE DEF shown
  <2> QED
    BY <1>1, <2>1, <2>2, <2>3, <2>4, ReturnKeepsInv DEF TypeOK
<1> QED
  BY <1>2, <1>3

\* A step inside the transfer that holds on to what is held keeps Structure.
LEMMA InsideKeepsInv ==
    ASSUME IInv, TypeOK', pc \notin {"open", "embedded", "returned"},
           pc' \notin {"open", "embedded", "returned"},
           req' = req, fd' = fd,
           sock' => pc' \in {"wait", "send", "headers", "receive"},
           file'.exists = file.exists, ~fd => file' = file
    PROVE  IInv'
<1>1. Before' = Before
  BY DEF Before
<1>2. Structure' /\ FileKept' /\ FileOnlyIfSaved'
  BY <1>1 DEF IInv, Structure, FileKept, FileOnlyIfSaved
<1> QED
  BY <1>2 DEF IInv

-----------------------------------------------------------------------------
(* The steps of the transfer, one lemma for each group of actions.         *)

LEMMA InitInv == Init => IInv
<1> SUFFICES ASSUME Init PROVE IInv
  OBVIOUS
<1>1. /\ req \in Request /\ pc = "open" /\ fd = FALSE /\ sock = FALSE
      /\ file = Before /\ result = -1
      /\ buffer = [p \in 1 .. BUFMAX |-> 0]
      /\ reslength = 0 /\ totlen = 0 /\ got = 0 /\ idle = 0
  BY DEF Init
<1>2. status \in Messages
  BY DEF Init, Messages
<1>3. buffer \in [1 .. BUFMAX -> Nat]
  BY <1>1
<1>4. reslength \in 0 .. BUFMAX
  BY <1>1, FetchAssumption
<1>5. file \in [exists : BOOLEAN, bytes : Seq(Nat)]
  BY <1>1, FileShape
<1>6. TypeOK
  <2>1. fd \in BOOLEAN /\ sock \in BOOLEAN
    BY <1>1
  <2>2. totlen \in Nat /\ got \in Nat /\ idle \in Nat /\ result \in Int
    BY <1>1
  <2> QED
    BY <1>1, <1>2, <1>3, <1>4, <1>5, <2>1, <2>2 DEF TypeOK
<1>7. Structure /\ FileKept /\ FileOnlyIfSaved
  BY <1>1 DEF Structure, FileKept, FileOnlyIfSaved
<1> QED
  BY <1>6, <1>7 DEF IInv

LEMMA OpenStep ==
    ASSUME IInv, Open
    PROVE  IInv'
<1>1. TypeOK /\ Structure
  BY DEF IInv
<1>2. pc = "open" /\ file = Before /\ ~sock /\ ~fd
  BY <1>1 DEF Open, Structure
<1>3. /\ req' = req /\ sock' = sock /\ status' = status /\ result' = result
      /\ buffer' = buffer /\ reslength' = reslength /\ totlen' = totlen
      /\ got' = got /\ idle' = idle
      /\ pc' = IF req.embedded THEN "embedded" ELSE "dns"
  BY DEF Open
<1>4. /\ fd' = req.tofile
      /\ file' = IF req.tofile THEN [exists |-> TRUE, bytes |-> <<>>] ELSE file
      /\ req.tofile => ~file.exists
  BY <1>1, <1>2 DEF Open, TypeOK, Request
<1>5. file' \in [exists : BOOLEAN, bytes : Seq(Nat)] /\ fd' \in BOOLEAN
  <2>1. [exists |-> TRUE, bytes |-> <<>>] \in [exists : BOOLEAN, bytes : Seq(Nat)]
    OBVIOUS
  <2>2. file \in [exists : BOOLEAN, bytes : Seq(Nat)]
    BY <1>1 DEF TypeOK
  <2>3. req.tofile \in BOOLEAN
    BY <1>1 DEF TypeOK, Request
  <2> QED
    BY <1>4, <2>1, <2>2, <2>3
<1>6. TypeOK'
  <2>1. /\ req' \in Request /\ sock' \in BOOLEAN /\ status' \in Messages
        /\ result' \in Int /\ buffer' \in [1 .. BUFMAX -> Nat]
        /\ reslength' \in 0 .. BUFMAX
        /\ totlen' \in Nat /\ got' \in Nat /\ idle' \in Nat
    BY <1>1, <1>3 DEF TypeOK
  <2>2. pc' \in {"embedded", "dns"}
    BY <1>3
  <2> QED
    BY <1>5, <2>1, <2>2 DEF TypeOK
<1>7. Before' = Before
  BY <1>3 DEF Before
<1>8. Structure' /\ FileKept'
  BY <1>2, <1>3, <1>4, <1>7, FileShape DEF Structure, FileKept
<1>9. FileOnlyIfSaved'
  BY <1>3 DEF FileOnlyIfSaved
<1> QED
  BY <1>6, <1>8, <1>9 DEF IInv

LEMMA EmbeddedStep ==
    ASSUME IInv, EmbeddedPage
    PROVE  IInv'
<1>1. TypeOK
  BY DEF IInv
<1>2. PICK n \in 1 .. BUFMAX :
        \E w \in IF "write" \in DiskFaults THEN 0 .. n ELSE {n} :
          /\ buffer' = [p \in 1 .. BUFMAX |-> IF p <= n THEN p ELSE buffer[p]]
          /\ reslength' = n /\ got' = n
          /\ Return(status, n, Body(w))
  BY DEF EmbeddedPage
<1>3. PICK w \in 0 .. n :
        /\ buffer' = [p \in 1 .. BUFMAX |-> IF p <= n THEN p ELSE buffer[p]]
        /\ reslength' = n /\ got' = n
        /\ Return(status, n, Body(w))
  BY <1>2, FetchAssumption
<1>4. Body(w) \in Seq(Nat)
  BY FetchAssumption DEF Body
<1>5. buffer' \in [1 .. BUFMAX -> Nat]
  BY <1>1, <1>3, FetchAssumption DEF TypeOK
<1>6. /\ reslength' \in 0 .. BUFMAX /\ got' \in Nat /\ n \in Nat
      /\ totlen' \in Nat /\ idle' \in Nat /\ status \in Messages
      /\ req' = req /\ pc = "embedded"
  BY <1>1, <1>3, FetchAssumption DEF TypeOK, EmbeddedPage
<1> QED
  BY <1>3, <1>4, <1>5, <1>6, ReturnKeepsInv

LEMMA NameStep ==
    ASSUME IInv, Resolve \/ Connect \/ Connected
    PROVE  IInv'
<1>1. TypeOK
  BY DEF IInv
<1>2. status' \in Messages
  <2>1. {"progress"} \subseteq Messages
    BY DEF Messages
  <2> QED
    BY <1>1, <2>1, Bars DEF TypeOK, Resolve, Connect, Connected
<1>3. /\ req' = req /\ fd' = fd /\ file' = file /\ buffer' = buffer
      /\ reslength' = reslength /\ totlen' = totlen /\ got' = got
      /\ idle' = idle /\ result' = result
  BY DEF Resolve, Connect, Connected
<1>4. /\ pc \in {"dns", "connect", "wait"}
      /\ pc' \in {"connect", "wait", "send"}
  BY DEF Resolve, Connect, Connected
<1>5. sock' \in BOOLEAN /\ (sock' => pc' \in {"wait", "send"})
  <2>1. sock \in BOOLEAN /\ (sock => pc \notin {"dns", "connect"})
    BY DEF IInv, TypeOK, Structure
  <2>2. CASE Resolve
    BY <2>1, <2>2 DEF Resolve
  <2>3. CASE Connect
    BY <2>3 DEF Connect
  <2>4. CASE Connected
    BY <2>1, <2>4 DEF Connected
  <2> QED
    BY <2>2, <2>3, <2>4
<1>6. TypeOK'
  BY <1>1, <1>2, <1>3, <1>4, <1>5 DEF TypeOK
<1> QED
  BY <1>3, <1>4, <1>5, <1>6, InsideKeepsInv

LEMMA SendStep ==
    ASSUME IInv, Send
    PROVE  IInv'
<1>1. TypeOK
  BY DEF IInv
<1>2. /\ buffer' \in [1 .. BUFMAX -> Nat]
      /\ reslength' \in 0 .. BUFMAX /\ idle' \in Nat
  BY FetchAssumption DEF Send
<1>3. /\ req' = req /\ fd' = fd /\ file' = file /\ sock' = sock
      /\ totlen' = totlen /\ got' = got
      /\ status' = status /\ result' = result
      /\ pc = "send" /\ pc' \in {"headers", "receive"}
  BY DEF Send
<1>4. TypeOK'
  BY <1>1, <1>2, <1>3 DEF TypeOK
<1> QED
  BY <1>3, <1>4, InsideKeepsInv

LEMMA HeadersStep ==
    ASSUME IInv, HeadersSilence \/ HeadersArrive \/ HeadersEnd
    PROVE  IInv'
<1>1. TypeOK
  BY DEF IInv
<1>2. /\ req' = req /\ fd' = fd /\ file' = file /\ sock' = sock
      /\ totlen' = totlen /\ status' = status /\ result' = result
      /\ pc = "headers" /\ pc' \in {"headers", "receive"}
  BY DEF HeadersSilence, HeadersArrive, HeadersEnd, HeadersGoOn
<1>3. /\ buffer' \in [1 .. BUFMAX -> Nat]
      /\ reslength' \in 0 .. BUFMAX /\ idle' \in Nat /\ got' \in Nat
  <2>1. CASE HeadersSilence
    BY <1>1, <2>1 DEF HeadersSilence, TypeOK
  <2>2. CASE HeadersArrive
    BY <1>1, <2>2, FetchAssumption DEF HeadersArrive, TypeOK
  <2>3. CASE HeadersEnd
    <3>1. PICK n \in 1 .. BUFMAX - reslength, second \in 0 .. 1 :
            LET last     == reslength + n
                leftover == last - HDRLEN
                received == [p \in 1 .. BUFMAX |->
                               IF p \in HDRLEN + 1 .. last THEN p - HDRLEN
                               ELSE buffer[p]]
            IN  /\ leftover \in 0 .. MaxBody
                /\ buffer' = [p \in 1 .. BUFMAX |->
                                IF p <= leftover THEN received[p + HDRLEN]
                                ELSE received[p]]
                /\ reslength' = leftover /\ got' = leftover
                /\ idle' = idle + second
      BY <2>3 DEF HeadersEnd
    <3> DEFINE last     == reslength + n
               leftover == last - HDRLEN
               received == [p \in 1 .. BUFMAX |->
                              IF p \in HDRLEN + 1 .. last THEN p - HDRLEN
                              ELSE buffer[p]]
    <3>2. /\ last \in Nat /\ last <= BUFMAX /\ leftover \in Nat
          /\ leftover + HDRLEN = last
      BY <1>1, <3>1, FetchAssumption DEF TypeOK
    <3>3. received \in [1 .. BUFMAX -> Nat]
      BY <1>1, <3>2, FetchAssumption DEF TypeOK
    <3>4. \A p \in 1 .. BUFMAX : p <= leftover => p + HDRLEN \in 1 .. BUFMAX
      BY <3>2, FetchAssumption
    <3> HIDE DEF received
    <3>5. buffer' \in [1 .. BUFMAX -> Nat]
      <4>1. buffer' = [p \in 1 .. BUFMAX |->
                         IF p <= leftover THEN received[p + HDRLEN]
                         ELSE received[p]]
        BY <3>1 DEF received
      <4> QED
        BY <3>3, <3>4, <4>1
    <3>6. reslength' = leftover /\ got' = leftover /\ idle' \in Nat
      BY <1>1, <3>1 DEF TypeOK
    <3> QED
      BY <3>2, <3>5, <3>6, FetchAssumption
  <2> QED
    BY <2>1, <2>2, <2>3
<1>4. TypeOK'
  BY <1>1, <1>2, <1>3 DEF TypeOK
<1>5. sock' => pc' \in {"wait", "send", "headers", "receive"}
  BY <1>2
<1> QED
  BY <1>2, <1>4, <1>5, InsideKeepsInv

LEMMA SilenceStep ==
    ASSUME IInv, Silence
    PROVE  IInv'
<1>1. TypeOK /\ pc = "receive" /\ status \in Messages
  BY DEF IInv, TypeOK, Silence, Receiving
<1>2. "error" \in Messages
  BY DEF Messages
<1>3. PICK second \in 0 .. 1 :
        IF idle + second > TIMEOUT
        THEN Fail(status_msg(BarAfter(idle + second), "error"))
        ELSE /\ idle' = idle + second
             /\ status' = BarAfter(idle + second)
             /\ UNCHANGED <<req, pc, fd, sock, file, buffer, reslength,
                            totlen, got, result>>
  BY DEF Silence
<1>4. CASE idle + second > TIMEOUT
  <2>1. status_msg(BarAfter(idle + second), "error") \in Messages
    BY <1>1, <1>2, Bars
  <2> QED
    BY <1>1, <1>3, <1>4, <2>1, FailKeepsInv
<1>5. CASE ~(idle + second > TIMEOUT)
  <2>1. /\ status' \in Messages /\ idle' = idle + second
        /\ UNCHANGED <<req, pc, fd, sock, file, buffer, reslength,
                       totlen, got, result>>
    BY <1>1, <1>3, <1>5, Bars
  <2>2. idle' \in Nat
    BY <1>1, <2>1 DEF TypeOK
  <2>3. TypeOK'
    BY <1>1, <2>1, <2>2 DEF TypeOK
  <2> QED
    BY <1>1, <2>1, <2>3, InsideKeepsInv
<1> QED
  BY <1>4, <1>5

LEMMA ReceiveFacts ==
    ASSUME TypeOK, Receive
    PROVE  \E n \in 1 .. BUFMAX - reslength :
             /\ n \in Nat /\ n > 0 /\ reslength + n <= BUFMAX
             /\ buffer' = [p \in 1 .. BUFMAX |->
                             IF p \in reslength + 1 .. reslength + n
                             THEN got + (p - reslength) ELSE buffer[p]]
             /\ buffer' \in [1 .. BUFMAX -> Nat]
             /\ got' = got + n /\ totlen' = totlen + n /\ idle' = 0
             /\ status' \in Messages
             /\ pc = "receive"
             /\ UNCHANGED <<req, pc, fd, sock, result>>
             /\ fd => /\ reslength' = reslength
                      /\ file' = [exists |-> file.exists,
                                  bytes |-> file.bytes \o SubSeq(buffer', 1, n)]
             /\ ~fd => file' = file /\ reslength' = reslength + n
<1>1. PICK n \in 1 .. BUFMAX - reslength :
        /\ Arrive(n)
        /\ file' = IF fd THEN Written(n) ELSE file
        /\ reslength' = IF fd THEN reslength ELSE reslength + n
  BY DEF Receive
<1>2. n \in Nat /\ n > 0 /\ reslength + n <= BUFMAX
  BY FetchAssumption DEF TypeOK
<1>3. /\ buffer' = [p \in 1 .. BUFMAX |->
                      IF p \in reslength + 1 .. reslength + n
                      THEN got + (p - reslength) ELSE buffer[p]]
      /\ got' = got + n /\ totlen' = totlen + n /\ idle' = 0
      /\ UNCHANGED <<req, pc, fd, sock, result>>
  BY <1>1 DEF Arrive
<1>4. buffer' \in [1 .. BUFMAX -> Nat]
  BY <1>2, <1>3, FetchAssumption DEF TypeOK
<1>5. status' \in Messages
  BY <1>1, Bars DEF Arrive, TypeOK
<1>6. Written(n) = [exists |-> file.exists,
                    bytes |-> file.bytes \o SubSeq(buffer', 1, n)]
  BY DEF Written
<1>7. pc = "receive"
  BY DEF Receive, Receiving
<1> QED
  BY <1>1, <1>2, <1>3, <1>4, <1>5, <1>6, <1>7

\* The first n bytes of the buffer.
LEMMA FrontShape ==
    ASSUME NEW bytes \in [1 .. BUFMAX -> Nat], NEW n \in 0 .. BUFMAX
    PROVE  /\ SubSeq(bytes, 1, n) \in Seq(Nat)
           /\ Len(SubSeq(bytes, 1, n)) = n
           /\ \A i \in 1 .. n : SubSeq(bytes, 1, n)[i] = bytes[i]
<1>1. bytes \in Seq(Nat) /\ Len(bytes) = BUFMAX
  BY FetchAssumption
<1> QED
  BY <1>1, FetchAssumption

LEMMA ReceiveStep ==
    ASSUME IInv, Receive
    PROVE  IInv'
<1>1. TypeOK
  BY DEF IInv
<1>2. PICK n \in 1 .. BUFMAX - reslength :
             /\ n \in Nat /\ n > 0 /\ reslength + n <= BUFMAX
             /\ buffer' \in [1 .. BUFMAX -> Nat]
             /\ got' = got + n /\ totlen' = totlen + n /\ idle' = 0
             /\ status' \in Messages
             /\ pc = "receive"
             /\ UNCHANGED <<req, pc, fd, sock, result>>
             /\ fd => /\ reslength' = reslength
                      /\ file' = [exists |-> file.exists,
                                  bytes |-> file.bytes \o SubSeq(buffer', 1, n)]
             /\ ~fd => file' = file /\ reslength' = reslength + n
  BY <1>1, ReceiveFacts
<1>3. n \in 0 .. BUFMAX
  BY <1>1, <1>2, FetchAssumption DEF TypeOK
<1>4. SubSeq(buffer', 1, n) \in Seq(Nat)
  BY <1>2, <1>3, FrontShape
<1>5. /\ file' \in [exists : BOOLEAN, bytes : Seq(Nat)]
      /\ file'.exists = file.exists
  <2>1. file.exists \in BOOLEAN /\ file.bytes \in Seq(Nat)
    BY <1>1 DEF TypeOK
  <2>2. file.bytes \o SubSeq(buffer', 1, n) \in Seq(Nat)
    BY <1>4, <2>1
  <2>3. CASE fd
    <3>1. file' = [exists |-> file.exists,
                   bytes |-> file.bytes \o SubSeq(buffer', 1, n)]
      BY <1>2, <2>3
    <3> QED
      BY <2>1, <2>2, <3>1
  <2>4. CASE ~fd
    BY <1>1, <1>2, <2>4 DEF TypeOK
  <2> QED
    BY <2>3, <2>4
<1>6. reslength' \in 0 .. BUFMAX
  BY <1>1, <1>2, FetchAssumption DEF TypeOK
<1>7. TypeOK'
  <2>1. got' \in Nat /\ totlen' \in Nat /\ idle' \in Nat
    BY <1>1, <1>2 DEF TypeOK
  <2>2. /\ req' \in Request /\ pc' = "receive"
        /\ fd' \in BOOLEAN /\ sock' \in BOOLEAN /\ result' \in Int
    BY <1>1, <1>2 DEF TypeOK
  <2> QED
    BY <1>2, <1>5, <1>6, <2>1, <2>2 DEF TypeOK
<1> QED
  BY <1>2, <1>5, <1>7, InsideKeepsInv

\* Every other action ends at FAIL or at the end of the transfer.
LEMMA FailStep ==
    ASSUME IInv,
           \/ FileExists \/ CreateFails \/ ResolveFails \/ NoSocket \/ Refused
           \/ WaitAborted \/ SendFails \/ HeadersFail \/ HeadersCut
           \/ UserAborts \/ WriteFails
    PROVE  IInv'
<1>1. status \in Messages
  BY DEF IInv, TypeOK
<1>2. {"error", "progress", "aborted"} \subseteq Messages
  BY DEF Messages
<1>3. \E bar \in Messages : Fail(bar)
  <2>1. CASE FileExists \/ CreateFails
    BY <1>1, <1>2, <2>1, Bars DEF FileExists, CreateFails
  <2>2. CASE ResolveFails \/ NoSocket
    BY <1>1, <1>2, <2>2, Bars DEF ResolveFails, NoSocket
  <2>3. CASE Refused \/ WaitAborted \/ SendFails
    BY <1>1, <1>2, <2>3, Bars DEF Refused, WaitAborted, SendFails
  <2>4. CASE HeadersFail \/ HeadersCut
    BY <1>1, <1>2, <2>4, Bars DEF HeadersFail, HeadersCut
  <2>5. CASE UserAborts \/ WriteFails
    BY <1>1, <1>2, <2>5, Bars DEF UserAborts, WriteFails
  <2> QED
    BY <2>1, <2>2, <2>3, <2>4, <2>5
<1>4. pc # "returned"
  BY DEF FileExists, CreateFails, ResolveFails, NoSocket, Refused, WaitAborted,
         SendFails, HeadersFail, HeadersCut, HeadersGoOn, UserAborts,
         WriteFails, Receiving
<1> QED
  BY <1>3, <1>4, FailKeepsInv

LEMMA EndStep ==
    ASSUME IInv, Truncate \/ PeerCloses
    PROVE  IInv'
<1>1. status \in Messages
  BY DEF IInv, TypeOK
<1>2. "truncated" \in Messages
  BY DEF Messages
<1>3. pc = "receive"
  BY DEF Truncate, PeerCloses, Receiving
<1>4. \E bar \in Messages : Finish(bar)
  BY <1>1, <1>2, Bars DEF Truncate, PeerCloses
<1> QED
  BY <1>3, <1>4, FinishKeepsInv

LEMMA StepInv == IInv /\ [Next]_vars => IInv'
<1> SUFFICES ASSUME IInv, [Next]_vars PROVE IInv'
  OBVIOUS
<1>1. CASE UNCHANGED vars
  BY <1>1 DEF vars, IInv, TypeOK, Structure, FileKept, FileOnlyIfSaved, Before
<1>2. CASE Next
  BY <1>1, <1>2, OpenStep, EmbeddedStep, NameStep, SendStep, HeadersStep,
     SilenceStep, ReceiveStep, FailStep, EndStep
  DEF Next, Program, Others, Returned
<1> QED
  BY <1>1, <1>2

-----------------------------------------------------------------------------
(* The theorems.                                                           *)

\* The invariant holds throughout.
THEOREM Invariance == Spec => []IInv
BY InitInv, StepInv, PTL DEF Spec

\* The variables keep their shapes; in particular no answer, of any length
\* and cut into any pieces, fills more than the buffer.
THEOREM TypeCorrect == Spec => []TypeOK
<1>1. IInv => TypeOK
  BY DEF IInv
<1> QED
  BY <1>1, Invariance, PTL

\* Every way out of loadfile_buff() closes the socket and the file.
THEOREM ClosesEverything == Spec => []NoLeak
<1>1. IInv => NoLeak
  BY DEF IInv, Structure, NoLeak
<1> QED
  BY <1>1, Invariance, PTL

\* A file that was there is not touched.
THEOREM KeepsFiles == Spec => []FileKept
<1>1. IInv => FileKept
  BY DEF IInv
<1> QED
  BY <1>1, Invariance, PTL

\* A failure leaves no file, a success exactly the one asked for.
THEOREM AllOrNothing == Spec => []FileOnlyIfSaved
<1>1. IInv => FileOnlyIfSaved
  BY DEF IInv
<1> QED
  BY <1>1, Invariance, PTL

-----------------------------------------------------------------------------
(* What is delivered.  Delivering says what the buffer and the file hold   *)
(* between two pieces of an answer of a gopher server.                     *)

Delivering ==
    /\ pc \in {"open", "dns", "connect", "wait", "send"} =>
         /\ totlen = 0 /\ got = 0
         /\ fd => file.bytes = <<>>
    /\ pc = "headers" => req.proto = "http"
    /\ pc = "receive" /\ req.proto = "gopher" =>
         /\ totlen = got
         /\ fd => reslength = 0 /\ file.bytes = Body(got)
         /\ ~fd => reslength = got /\ \A p \in 1 .. got : buffer[p] = p

DInv == IInv /\ Delivering /\ GopherExact

LEMMA ConcatFacts ==
    ASSUME NEW s \in Seq(Nat), NEW t \in Seq(Nat)
    PROVE  /\ s \o t \in Seq(Nat)
           /\ Len(s \o t) = Len(s) + Len(t)
           /\ \A i \in 1 .. Len(s) + Len(t) :
                (s \o t)[i] = IF i <= Len(s) THEN s[i] ELSE t[i - Len(s)]
BY ConcatProperties

\* n more bytes after the first m.
LEMMA BodyGrows ==
    ASSUME NEW m \in Nat, NEW n \in Nat, NEW more \in Seq(Nat), Len(more) = n,
           \A i \in 1 .. n : more[i] = m + i
    PROVE  Body(m) \o more = Body(m + n)
<1>1. Body(m) \in Seq(Nat) /\ Len(Body(m)) = m /\ Body(m + n) \in Seq(Nat)
      /\ Len(Body(m + n)) = m + n
  BY DEF Body
<1>2. \A i \in 1 .. m : Body(m)[i] = i
  BY DEF Body
<1>3. \A i \in 1 .. m + n : Body(m + n)[i] = i
  BY DEF Body
<1> DEFINE whole == Body(m) \o more
<1>4. /\ whole \in Seq(Nat) /\ Len(whole) = m + n
      /\ \A i \in 1 .. m + n :
           whole[i] = IF i <= m THEN Body(m)[i] ELSE more[i - m]
  <2> HIDE DEF whole
  <2>1. /\ whole \in Seq(Nat)
        /\ Len(whole) = Len(Body(m)) + Len(more)
        /\ \A i \in 1 .. Len(Body(m)) + Len(more) :
             whole[i] = IF i <= Len(Body(m)) THEN Body(m)[i]
                        ELSE more[i - Len(Body(m))]
    BY <1>1, ConcatFacts, Zenon DEF whole
  <2> QED
    BY <1>1, <2>1
<1>5. \A i \in 1 .. m + n : i > m => i - m \in 1 .. n /\ more[i - m] = i
  OBVIOUS
<1> HIDE DEF whole
<1>6. \A i \in 1 .. m + n : whole[i] = Body(m + n)[i]
  BY <1>2, <1>3, <1>4, <1>5
<1> QED
  BY <1>1, <1>4, <1>6, SeqEqual DEF whole

LEMMA BodyPrefix ==
    ASSUME TypeOK, got <= BUFMAX, \A p \in 1 .. got : buffer[p] = p
    PROVE  SubSeq(buffer, 1, got) = Body(got)
<1>1. got \in 0 .. BUFMAX
  BY DEF TypeOK
<1>2. buffer \in [1 .. BUFMAX -> Nat]
  BY DEF TypeOK
<1>3. /\ SubSeq(buffer, 1, got) \in Seq(Nat)
      /\ Len(SubSeq(buffer, 1, got)) = got
      /\ \A i \in 1 .. got : SubSeq(buffer, 1, got)[i] = i
  BY <1>1, <1>2, FrontShape
<1>4. /\ Body(got) \in Seq(Nat) /\ Len(Body(got)) = got
      /\ \A i \in 1 .. got : Body(got)[i] = i
  BY <1>1 DEF Body
<1> QED
  BY <1>3, <1>4, SeqEqual

LEMMA InitDelivering == Init => Delivering /\ GopherExact
BY DEF Init, Delivering, GopherExact, Success

\* A failure delivers nothing.
LEMMA FailDelivers ==
    ASSUME NEW bar, Fail(bar)
    PROVE  Delivering' /\ GopherExact'
BY DEF Fail, Delivering, GopherExact, Success

LEMMA FinishDelivers ==
    ASSUME DInv, "close" \notin DiskFaults, pc = "receive", NEW bar, Finish(bar)
    PROVE  Delivering' /\ GopherExact'
<1>1. CASE totlen = 0
  BY <1>1, FailDelivers DEF Finish
<1>2. CASE totlen # 0
  <2>1. /\ pc' = "returned" /\ result' = totlen /\ req' = req
        /\ got' = got /\ buffer' = buffer
        /\ file' = IF fd THEN [exists |-> TRUE, bytes |-> file.bytes] ELSE file
    BY <1>2 DEF Finish, Return, Flushed
  <2>2. Delivering'
    BY <2>1 DEF Delivering
  <2>3. fd <=> req.tofile
    BY DEF DInv, IInv, Structure
  <2>4. ASSUME req.proto = "gopher" PROVE result' = got' /\ Output' = Body(got')
    <3>1. totlen = got
      BY <2>4 DEF DInv, Delivering
    <3>2. CASE fd
      <4>1. file.bytes = Body(got)
        BY <2>4, <3>2 DEF DInv, Delivering
      <4>2. Output' = file.bytes
        BY <2>1, <2>3, <3>2 DEF Output
      <4> QED
        BY <2>1, <3>1, <4>1, <4>2 DEF Body
    <3>3. CASE ~fd
      <4>1. TypeOK /\ reslength = got /\ \A p \in 1 .. got : buffer[p] = p
        BY <2>4, <3>3 DEF DInv, IInv, Delivering
      <4>2. got <= BUFMAX
        BY <4>1, FetchAssumption DEF TypeOK
      <4>3. SubSeq(buffer, 1, got) = Body(got)
        BY <4>1, <4>2, BodyPrefix
      <4>4. Output' = SubSeq(buffer, 1, got)
        BY <2>1, <2>3, <3>1, <3>3 DEF Output
      <4> QED
        BY <2>1, <3>1, <4>3, <4>4 DEF Body
    <3> QED
      BY <3>2, <3>3
  <2> QED
    BY <2>1, <2>2, <2>4 DEF GopherExact, Success
<1> QED
  BY <1>1, <1>2

LEMMA ReceiveDelivers ==
    ASSUME DInv, Receive
    PROVE  Delivering' /\ GopherExact'
<1>1. TypeOK
  BY DEF DInv, IInv
<1>2. PICK n \in 1 .. BUFMAX - reslength :
             /\ n \in Nat /\ n > 0 /\ reslength + n <= BUFMAX
             /\ buffer' = [p \in 1 .. BUFMAX |->
                             IF p \in reslength + 1 .. reslength + n
                             THEN got + (p - reslength) ELSE buffer[p]]
             /\ buffer' \in [1 .. BUFMAX -> Nat]
             /\ got' = got + n /\ totlen' = totlen + n
             /\ pc = "receive"
             /\ UNCHANGED <<req, pc, fd>>
             /\ fd => /\ reslength' = reslength
                      /\ file' = [exists |-> file.exists,
                                  bytes |-> file.bytes \o SubSeq(buffer', 1, n)]
             /\ ~fd => file' = file /\ reslength' = reslength + n
  BY <1>1, ReceiveFacts
<1>3. n \in 0 .. BUFMAX /\ got \in Nat
  BY <1>1, <1>2, FetchAssumption DEF TypeOK
<1>4. ASSUME req.proto = "gopher", fd
      PROVE  reslength' = 0 /\ file'.bytes = Body(got')
  <2>1. reslength = 0 /\ file.bytes = Body(got)
    BY <1>2, <1>4 DEF DInv, Delivering
  <2>2. \A p \in 1 .. n : buffer'[p] = got + p
    BY <1>2, <1>3, <2>1, FetchAssumption
  <2>3. /\ SubSeq(buffer', 1, n) \in Seq(Nat)
        /\ Len(SubSeq(buffer', 1, n)) = n
        /\ \A i \in 1 .. n : SubSeq(buffer', 1, n)[i] = got + i
    BY <1>2, <1>3, <2>2, FrontShape
  <2>4. Body(got) \o SubSeq(buffer', 1, n) = Body(got + n)
    BY <1>2, <1>3, <2>3, BodyGrows
  <2>5. file'.bytes = Body(got + n)
    <3>1. file' = [exists |-> file.exists,
                   bytes |-> file.bytes \o SubSeq(buffer', 1, n)]
      BY <1>2, <1>4
    <3>2. file'.bytes = file.bytes \o SubSeq(buffer', 1, n)
      BY <3>1
    <3> QED
      BY <2>1, <2>4, <3>2
  <2> QED
    BY <1>2, <1>4, <2>1, <2>5 DEF Body
<1>5. ASSUME req.proto = "gopher", ~fd
      PROVE  reslength' = got' /\ \A p \in 1 .. got' : buffer'[p] = p
  <2>1. reslength = got /\ \A p \in 1 .. got : buffer[p] = p
    BY <1>2, <1>5 DEF DInv, Delivering
  <2>2. reslength' = got'
    BY <1>2, <1>5, <2>1
  <2> QED
    BY <1>2, <1>3, <2>1, <2>2, FetchAssumption
<1>6. req.proto = "gopher" => totlen' = got'
  BY <1>2 DEF DInv, Delivering
<1>7. Delivering'
  BY <1>2, <1>4, <1>5, <1>6 DEF Delivering
<1> QED
  BY <1>2, <1>7 DEF GopherExact, Success

LEMMA OtherStepsDeliver ==
    ASSUME DInv,
           \/ Open \/ EmbeddedPage \/ Resolve \/ Connect \/ Connected \/ Send
           \/ HeadersSilence \/ HeadersArrive \/ HeadersEnd
    PROVE  Delivering' /\ GopherExact'
<1>1. CASE Open
  <2>1. fd' => file'.bytes = <<>>
    <3>1. ~fd
      BY <1>1 DEF Open, DInv, IInv, Structure
    <3>2. CASE fd' = fd
      BY <3>1, <3>2
    <3>3. CASE file' = [exists |-> TRUE, bytes |-> <<>>]
      BY <3>3
    <3> QED
      BY <1>1, <3>2, <3>3 DEF Open
  <2>2. UNCHANGED <<totlen, got>> /\ pc = "open" /\ pc' \in {"embedded", "dns"}
    BY <1>1 DEF Open
  <2> QED
    BY <2>1, <2>2 DEF DInv, Delivering, GopherExact, Success
<1>2. CASE EmbeddedPage
  BY <1>2 DEF EmbeddedPage, Return, DInv, IInv, Structure, Delivering,
              GopherExact, Success
<1>3. CASE Resolve \/ Connect \/ Connected
  BY <1>3 DEF Resolve, Connect, Connected, DInv, Delivering, GopherExact, Success
<1>4. CASE Send
  <2>1. /\ totlen' = 0 /\ got' = 0 /\ reslength' = 0 /\ fd' = fd
        /\ req' = req /\ file' = file /\ (fd => file.bytes = <<>>)
        /\ pc' = IF req.proto = "http" THEN "headers" ELSE "receive"
    BY <1>4 DEF Send, DInv, Delivering
  <2>2. Body(0) = <<>>
    BY DEF Body
  <2>3. \A p \in 1 .. 0 : buffer'[p] = p
    OBVIOUS
  <2>4. Body(got') = <<>>
    BY <2>1, <2>2 DEF Body
  <2> QED
    BY <2>1, <2>3, <2>4 DEF Delivering, GopherExact, Success
<1>5. CASE HeadersSilence \/ HeadersArrive \/ HeadersEnd
  BY <1>5 DEF HeadersSilence, HeadersArrive, HeadersEnd, HeadersGoOn,
              DInv, Delivering, GopherExact, Success
<1> QED
  BY <1>1, <1>2, <1>3, <1>4, <1>5

LEMMA StepDelivers ==
    ASSUME "close" \notin DiskFaults, DInv, [Next]_vars
    PROVE  DInv'
<1>1. IInv'
  BY StepInv DEF DInv
<1>2. CASE UNCHANGED vars
  <2>1. Delivering'
    BY <1>2 DEF vars, DInv, Delivering, Body
  <2>2. GopherExact'
    BY <1>2 DEF vars, DInv, GopherExact, Success, Output, Body
  <2> QED
    BY <1>1, <2>1, <2>2 DEF DInv
<1>3. CASE Receive
  BY <1>1, <1>3, ReceiveDelivers DEF DInv
<1>4. CASE Truncate \/ PeerCloses
  <2>1. pc = "receive" /\ \E bar : Finish(bar)
    BY <1>4 DEF Truncate, PeerCloses, Receiving
  <2> QED
    BY <1>1, <2>1, FinishDelivers DEF DInv
<1>5. CASE Silence
  <2>1. PICK second \in 0 .. 1 :
          \/ Fail(status_msg(BarAfter(idle + second), "error"))
          \/ UNCHANGED <<req, pc, fd, file, buffer, reslength, totlen, got,
                         result>>
    BY <1>5 DEF Silence
  <2>2. CASE Fail(status_msg(BarAfter(idle + second), "error"))
    BY <1>1, <2>2, FailDelivers DEF DInv
  <2>3. CASE UNCHANGED <<req, pc, fd, file, buffer, reslength, totlen, got,
                         result>>
    BY <1>1, <1>5, <2>3 DEF Silence, Receiving, DInv, Delivering, GopherExact,
                            Success, Body
  <2> QED
    BY <2>1, <2>2, <2>3
<1>6. CASE \/ FileExists \/ CreateFails \/ ResolveFails \/ NoSocket \/ Refused
           \/ WaitAborted \/ SendFails \/ HeadersFail \/ HeadersCut
           \/ UserAborts \/ WriteFails
  <2>1. \E bar : Fail(bar)
    BY <1>6 DEF FileExists, CreateFails, ResolveFails, NoSocket, Refused,
                WaitAborted, SendFails, HeadersFail, HeadersCut, UserAborts,
                WriteFails
  <2> QED
    BY <1>1, <2>1, FailDelivers DEF DInv
<1>7. CASE \/ Open \/ EmbeddedPage \/ Resolve \/ Connect \/ Connected \/ Send
           \/ HeadersSilence \/ HeadersArrive \/ HeadersEnd
  BY <1>1, <1>7, OtherStepsDeliver DEF DInv
<1> QED
  BY <1>2, <1>3, <1>4, <1>5, <1>6, <1>7 DEF Next, Program, Others, Returned

\* Unless the disk loses what was written when the file is closed, what a
\* successful load delivers is what the gopher server sent.
THEOREM DeliversExactly ==
    ASSUME "close" \notin DiskFaults
    PROVE  Spec => []GopherExact
<1>1. Init => DInv
  BY InitInv, InitDelivering DEF DInv
<1>2. DInv /\ [Next]_vars => DInv'
  BY StepDelivers
<1>3. DInv => GopherExact
  BY DEF DInv
<1> QED
  BY <1>1, <1>2, <1>3, PTL DEF Spec

-----------------------------------------------------------------------------
(* A run: the inductive invariant.  Between transfers the variables of     *)
(* Fetch are Quiet, so that a call starts from Init; during a transfer     *)
(* they satisfy the invariant of Fetch.  Told and Sure say more of a       *)
(* transfer, and Named, Staged and Loading what it has to do with its      *)
(* caller.                                                                 *)

Quiet ==
    /\ req = NoRequest /\ fd = FALSE /\ sock = FALSE
    /\ file = NoFile /\ buffer = EmptyBuffer
    /\ reslength = 0 /\ totlen = 0 /\ got = 0 /\ idle = 0
    /\ status \in Messages /\ result = -1

Told == pc = "returned" /\ result < 0 /\ ~req.notui => status # ""

\* Nothing can go wrong with an embedded page loaded to memory.
Sure ==
    req.embedded /\ ~req.tofile =>
        \/ pc \in {"open", "embedded"}
        \/ pc = "returned" /\ result >= 0

Named ==
    /\ req.notui <=> notui
    /\ name \in Names \cup {NoName}
    /\ req.tofile <=> name # NoName
    /\ req.tofile /\ ~req.exists => disk[name] = "none"

Staged ==
    /\ stage = "starting" => pc = "idle" /\ status = "" /\ caller = "none"
    /\ stage = "interactive" => ~notui
    /\ caller = "all" => stage = "interactive"
    /\ caller \notin {"none", "all"} => pc # "idle"

Loading ==
    caller = "page" =>
        /\ B!NeedsLoad
        /\ ~req.tofile
        /\ req.embedded <=> B!Embedded(B!Top.loc)

DiskStates == {"none", "there", "saved", "damaged"}

SInv ==
    /\ pc = "idle" => Quiet
    /\ pc # "idle" => IInv /\ Told /\ Sure /\ Named
    /\ Staged /\ Loading
    /\ disk \in [Names -> DiskStates]

-----------------------------------------------------------------------------
(* One transfer.                                                           *)

LEMMA Tells ==
    ASSUME NEW bar, NEW msg, msg # "", ~req.notui
    PROVE  status_msg(bar, msg) # ""
BY DEF status_msg, set_statusbar

\* A failure leaves a message.
LEMMA FailTells ==
    ASSUME NEW bar, Fail(bar), ~req.notui => bar # "",
           req.embedded => req.tofile
    PROVE  Told' /\ Sure' /\ req' = req /\ pc' # "idle"
BY DEF Fail, Told, Sure

\* The actions that end at FAIL.
LEMMA FailsTell ==
    ASSUME IInv, Sure,
           \/ FileExists \/ CreateFails \/ ResolveFails \/ NoSocket \/ Refused
           \/ WaitAborted \/ SendFails \/ HeadersFail \/ HeadersCut
           \/ UserAborts \/ WriteFails
    PROVE  Told' /\ Sure' /\ req' = req /\ pc' # "idle"
<1>1. \E bar, msg : msg # "" /\ Fail(status_msg(bar, msg))
  <2>1. CASE FileExists \/ CreateFails
    BY <2>1 DEF FileExists, CreateFails
  <2>2. CASE ResolveFails \/ NoSocket
    BY <2>2 DEF ResolveFails, NoSocket
  <2>3. CASE Refused \/ WaitAborted \/ SendFails
    BY <2>3 DEF Refused, WaitAborted, SendFails
  <2>4. CASE HeadersFail \/ HeadersCut
    BY <2>4 DEF HeadersFail, HeadersCut
  <2>5. CASE UserAborts
    BY <2>5 DEF UserAborts
  <2>6. CASE WriteFails
    BY <2>6 DEF WriteFails
  <2> QED
    BY <2>1, <2>2, <2>3, <2>4, <2>5, <2>6
<1>2. req.embedded => req.tofile
  <2>1. CASE FileExists \/ CreateFails
    BY <2>1 DEF FileExists, CreateFails
  <2>2. CASE ~(FileExists \/ CreateFails)
    <3>1. pc \notin {"open", "embedded", "returned"}
      BY <2>2 DEF ResolveFails, NoSocket, Refused, WaitAborted, SendFails,
                  HeadersFail, HeadersCut, HeadersGoOn, UserAborts, WriteFails,
                  Receiving
    <3> QED
      BY <3>1 DEF Sure
  <2> QED
    BY <2>1, <2>2
<1> QED
  BY <1>1, <1>2, Tells, FailTells

\* A success needs none.
LEMMA SuccessTells ==
    ASSUME ~(result < 0)', (result >= 0)', pc' = "returned", req' = req
    PROVE  Told' /\ Sure' /\ req' = req /\ pc' # "idle"
BY DEF Told, Sure

LEMMA FinishTells ==
    ASSUME IInv, Sure, pc = "receive", NEW bar, Finish(bar)
    PROVE  Told' /\ Sure' /\ req' = req /\ pc' # "idle"
<1>1. req.embedded => req.tofile
  BY DEF Sure
<1>2. CASE totlen = 0
  BY <1>1, <1>2, Tells, FailTells DEF Finish
<1>3. CASE totlen # 0
  <2>1. totlen \in Nat
    BY DEF IInv, TypeOK
  <2>2. result' = totlen /\ pc' = "returned" /\ req' = req
    BY <1>3 DEF Finish, Return
  <2>3. (result >= 0)' /\ ~(result < 0)'
    BY <2>1, <2>2
  <2> QED
    BY <2>2, <2>3, SuccessTells
<1> QED
  BY <1>2, <1>3

LEMMA SilenceTells ==
    ASSUME IInv, Sure, Silence
    PROVE  Told' /\ Sure' /\ req' = req /\ pc' # "idle"
<1>1. pc = "receive" /\ (req.embedded => req.tofile)
  BY DEF Silence, Receiving, Sure
<1>2. CASE \E bar : Fail(status_msg(bar, "error"))
  BY <1>1, <1>2, Tells, FailTells
<1>3. CASE UNCHANGED <<req, pc>>
  BY <1>1, <1>3 DEF Told, Sure
<1> QED
  BY <1>2, <1>3 DEF Silence

\* A step of a transfer, whichever transfer it is.
LEMMA TransferStep ==
    ASSUME IInv, Told, Sure, Program \/ Others
    PROVE  IInv' /\ Told' /\ Sure' /\ req' = req /\ pc' # "idle"
<1>1. IInv'
  BY StepInv DEF Next
<1>2. Told' /\ Sure' /\ req' = req /\ pc' # "idle"
  <2>1. CASE \/ FileExists \/ CreateFails \/ ResolveFails \/ NoSocket \/ Refused
             \/ WaitAborted \/ SendFails \/ HeadersFail \/ HeadersCut
             \/ UserAborts \/ WriteFails
    BY <2>1, FailsTell
  <2>2. CASE Truncate \/ PeerCloses
    <3>1. pc = "receive" /\ \E bar : Finish(bar)
      BY <2>2 DEF Truncate, PeerCloses, Receiving
    <3> QED
      BY <3>1, FinishTells
  <2>3. CASE Silence
    BY <2>3, SilenceTells
  <2>4. CASE Open
    BY <2>4 DEF Open, Told, Sure
  <2>5. CASE EmbeddedPage
    <3>1. PICK n \in 1 .. BUFMAX : result' = n /\ pc' = "returned" /\ req' = req
      BY <2>5 DEF EmbeddedPage, Return
    <3>2. (result >= 0)' /\ ~(result < 0)'
      BY <3>1, FetchAssumption
    <3> QED
      BY <3>1, <3>2, SuccessTells
  <2>6. CASE \/ Resolve \/ Connect \/ Connected \/ Send
             \/ HeadersSilence \/ HeadersArrive \/ HeadersEnd
    <3>1. /\ req' = req
          /\ pc \notin {"open", "embedded", "returned"}
          /\ pc' \notin {"returned", "idle"}
      BY <2>6 DEF Resolve, Connect, Connected, Send, HeadersSilence,
                  HeadersArrive, HeadersEnd, HeadersGoOn
    <3> QED
      BY <3>1 DEF Told, Sure
  <2>7. CASE Receive
    <3>1. req' = req /\ pc' = pc /\ pc = "receive"
      BY <2>7 DEF Receive, Receiving, Arrive
    <3> QED
      BY <3>1 DEF Told, Sure
  <2> QED
    BY <2>1, <2>2, <2>3, <2>4, <2>5, <2>6, <2>7 DEF Program, Others
<1> QED
  BY <1>1, <1>2

-----------------------------------------------------------------------------
(* Calling and returning.                                                  *)

\* A call starts a transfer as Fetch does.
LEMMA CallStarts ==
    ASSUME Quiet, notui => status = "",
           NEW who, NEW proto, NEW embedded \in BOOLEAN,
           NEW fname \in Names \cup {NoName}, fname = NoName => ~notui,
           Call(who, proto, embedded, fname)
    PROVE  /\ Init'
           /\ pc' = "open" /\ caller' = who /\ name' = fname
           /\ req'.notui <=> notui
           /\ req'.tofile <=> fname # NoName
           /\ req'.exists <=> fname # NoName /\ disk[fname] # "none"
           /\ req'.embedded = embedded
           /\ disk' = disk
<1> DEFINE r == [proto |-> IF proto = "http" THEN "http" ELSE "gopher",
                 embedded |-> embedded,
                 tofile |-> fname # NoName,
                 exists |-> fname # NoName /\ disk[fname] # "none",
                 notui |-> notui]
<1>1. /\ req' = r /\ pc' = "open" /\ caller' = who /\ name' = fname
      /\ disk' = disk
      /\ file' = IF req'.exists THEN [exists |-> TRUE, bytes |-> <<0>>] ELSE NoFile
      /\ status' = Pending(status)
      /\ UNCHANGED <<fd, sock, buffer, reslength, totlen, got, idle, result>>
  BY DEF Call
<1>2. /\ r.notui <=> notui
      /\ r.tofile <=> fname # NoName
      /\ r.exists <=> fname # NoName /\ disk[fname] # "none"
      /\ r.embedded = embedded
  OBVIOUS
<1>3. r \in Request
  <2>1. /\ (fname # NoName) \in BOOLEAN
        /\ (fname # NoName /\ disk[fname] # "none") \in BOOLEAN
        /\ notui \in BOOLEAN
    BY DEF notui
  <2>2. (IF proto = "http" THEN "http" ELSE "gopher") \in {"gopher", "http"}
    OBVIOUS
  <2>3. r \in [proto : {"gopher", "http"}, embedded : BOOLEAN,
               tofile : BOOLEAN, exists : BOOLEAN, notui : BOOLEAN]
    BY <2>1, <2>2
  <2>4. r.notui => r.tofile
    BY <1>2
  <2> HIDE DEF r
  <2> QED
    BY <2>3, <2>4 DEF Request
<1> HIDE DEF r
<1>4. file' = Before'
  BY <1>1 DEF Before
<1>5. status' \in IF req'.notui THEN {""} ELSE {"", "old"}
  BY <1>1, <1>2 DEF Pending
<1>6. /\ fd' = FALSE /\ sock' = FALSE /\ buffer' = EmptyBuffer
      /\ reslength' = 0 /\ totlen' = 0 /\ got' = 0 /\ idle' = 0 /\ result' = -1
  BY <1>1 DEF Quiet
<1>7. Init'
  BY <1>1, <1>3, <1>4, <1>5, <1>6 DEF Init, EmptyBuffer
<1> QED
  BY <1>1, <1>2, <1>7

\* What starts like Fetch satisfies the invariant of a transfer.
LEMMA StartSound == Init' => IInv' /\ Told' /\ Sure'
<1>1. Init => IInv /\ Told /\ Sure
  BY InitInv DEF Init, Told, Sure
<1> QED
  BY <1>1, PTL

\* Returning leaves everything ready for the next call, and the disk as it
\* was but for a file that was not there.
LEMMA ConsumeSound ==
    ASSUME IInv, Named, disk \in [Names -> DiskStates],
           NEW bar \in Messages, Consume(bar)
    PROVE  /\ Quiet' /\ pc' = "idle"
           /\ disk' \in [Names -> DiskStates]
           /\ \A fname \in Names : disk[fname] # "none" => disk'[fname] = disk[fname]
<1>1. Quiet' /\ pc' = "idle"
  BY DEF Consume, Quiet, NoRequest, NoFile, EmptyBuffer
<1>2. CASE disk' = disk
  BY <1>1, <1>2
<1>3. CASE disk' # disk
  <2>1. /\ name # NoName /\ file # Before
        /\ disk' = [disk EXCEPT ![name] = IF req.exists THEN "damaged" ELSE "saved"]
    BY <1>3 DEF Consume
  <2>2. ~req.exists
    BY <2>1 DEF IInv, FileKept
  <2>3. name \in Names /\ disk[name] = "none"
    BY <2>1, <2>2 DEF Named
  <2>4. disk' = [disk EXCEPT ![name] = "saved"]
    BY <2>1, <2>2
  <2> QED
    BY <1>1, <2>3, <2>4 DEF DiskStates
<1> QED
  BY <1>2, <1>3

-----------------------------------------------------------------------------
(* The steps of a run, one lemma for each group of actions.                *)

LEMMA InitSound == SessionInit => SInv
<1> SUFFICES ASSUME SessionInit PROVE SInv
  OBVIOUS
<1>1. pc = "idle" /\ caller = "none" /\ status = ""
  BY DEF SessionInit
<1>2. Quiet
  BY DEF SessionInit, Quiet, Messages
<1>3. stage \in {"over", "starting"}
  BY DEF SessionInit
<1>4. disk \in [Names -> DiskStates]
  BY DEF SessionInit, DiskStates
<1> QED
  BY <1>1, <1>2, <1>3, <1>4 DEF SInv, Staged, Loading

\* What the history says of its head changes only with the history.
LEMMA HeadStays ==
    ASSUME UNCHANGED browservars
    PROVE  /\ B!NeedsLoad' <=> B!NeedsLoad
           /\ B!Embedded(B!Top.loc)' <=> B!Embedded(B!Top.loc)
BY DEF browservars, B!NeedsLoad, B!AtLoop, B!Top, B!Cached, B!Embedded,
       B!Displayable, B!EmbeddedHosts, B!NoPage

LEMMA TransferKeeps ==
    ASSUME SInv, (Program \/ Others) /\ UNCHANGED <<mainvars, browservars, callvars>>
    PROVE  SInv'
<1>1. pc # "idle"
  BY DEF Program, Others, FileExists, CreateFails, Open, EmbeddedPage, Resolve,
         ResolveFails, Connect, NoSocket, Connected, Refused, Send, SendFails,
         HeadersSilence, HeadersFail, Truncate, Silence, WaitAborted, UserAborts,
         HeadersArrive, HeadersEnd, HeadersCut, Receive, WriteFails, PeerCloses,
         HeadersGoOn, Receiving
<1>2. IInv' /\ Told' /\ Sure' /\ req' = req /\ pc' # "idle"
  BY <1>1, TransferStep DEF SInv
<1>3. UNCHANGED <<stage, save, caller, name, disk>> /\ UNCHANGED browservars
  BY DEF mainvars, callvars
<1>4. Named'
  BY <1>1, <1>2, <1>3 DEF SInv, Named, notui
<1>5. Staged'
  BY <1>1, <1>2, <1>3 DEF SInv, Staged, notui
<1>6. Loading'
  BY <1>2, <1>3, HeadStays DEF SInv, Loading
<1> QED
  BY <1>2, <1>3, <1>4, <1>5, <1>6 DEF SInv

\* A call keeps the invariant, whoever calls.
LEMMA CallSound ==
    ASSUME SInv,
           NEW who, NEW proto, NEW embedded \in BOOLEAN,
           NEW fname \in Names \cup {NoName},
           Call(who, proto, embedded, fname),
           fname = NoName => stage = "interactive",
           stage' # "starting",
           stage' = "interactive" => stage = "interactive",
           who = "page" => /\ B!NeedsLoad /\ fname = NoName
                           /\ embedded <=> B!Embedded(B!Top.loc),
           who = "all" => stage' = "interactive",
           notui => status = "",
           UNCHANGED browservars, save' = save
    PROVE  SInv'
<1>1. pc = "idle" /\ Quiet
  BY DEF Call, SInv
<1>2. fname = NoName => ~notui
  BY DEF SInv, Staged
<1>3. /\ Init' /\ pc' = "open" /\ caller' = who /\ name' = fname
      /\ req'.notui <=> notui
      /\ req'.tofile <=> fname # NoName
      /\ req'.exists <=> fname # NoName /\ disk[fname] # "none"
      /\ req'.embedded = embedded
      /\ disk' = disk
  BY <1>1, <1>2, CallStarts
<1>4. IInv' /\ Told' /\ Sure'
  BY <1>3, StartSound
<1>5. Named'
  BY <1>3 DEF Named, notui
<1>6. Staged'
  BY <1>3 DEF SInv, Staged, notui
<1>7. Loading'
  BY <1>3, HeadStays DEF Loading
<1> QED
  BY <1>3, <1>4, <1>5, <1>6, <1>7 DEF SInv

\* The four calls.
LEMMA CallKeeps ==
    ASSUME SInv, SaveOption \/ LoadPage \/ SaveAs \/ DownloadLine
    PROVE  SInv'
<1>1. B!Embedded(B!Top.loc) \in BOOLEAN
  BY DEF B!Embedded
<1>2. stage = "interactive" => ~notui
  BY DEF SInv, Staged
<1>3. CASE SaveOption
  <2>1. PICK fname \in Names :
          Call("option", B!Top.loc.proto, B!Embedded(B!Top.loc), fname)
    BY <1>3 DEF SaveOption
  <2>2. fname # NoName /\ stage = "starting" /\ stage' = "batch" /\ save' = save
    BY <1>3, SessionAssumption DEF SaveOption
  <2>3. status = "" /\ UNCHANGED browservars
    BY <1>3, <2>2 DEF SaveOption, SInv, Staged
  <2>4. /\ "option" # "page" /\ "option" # "all"
        /\ stage' # "starting" /\ stage' # "interactive"
    BY <2>2
  <2> QED
    BY <1>1, <2>1, <2>2, <2>3, <2>4, CallSound
<1>4. CASE LoadPage
  <2>1. Call("page", B!Top.loc.proto, B!Embedded(B!Top.loc), NoName)
    BY <1>4 DEF LoadPage
  <2>2. /\ stage = "interactive" /\ stage' = stage /\ save' = save
        /\ B!NeedsLoad /\ UNCHANGED browservars
    BY <1>4 DEF LoadPage, Interactive, mainvars
  <2> QED
    BY <1>1, <1>2, <2>1, <2>2, CallSound
<1>5. CASE SaveAs
  <2>1. PICK fname \in Names :
          Call("prompt", B!Top.loc.proto, B!Embedded(B!Top.loc), fname)
    BY <1>5 DEF SaveAs
  <2>2. /\ stage = "interactive" /\ stage' = stage /\ save' = save
        /\ UNCHANGED browservars
    BY <1>5 DEF SaveAs, Interactive, mainvars
  <2> QED
    BY <1>1, <1>2, <2>1, <2>2, CallSound
<1>6. CASE DownloadLine
  <2>1. PICK fname \in Names, embedded \in BOOLEAN :
          Call("all", "gopher", embedded, fname)
    BY <1>6 DEF DownloadLine
  <2>2. /\ stage = "interactive" /\ stage' = stage /\ save' = save
        /\ UNCHANGED browservars
    BY <1>6 DEF DownloadLine, Downloading, mainvars, SInv, Staged
  <2> QED
    BY <1>2, <2>1, <2>2, CallSound
<1> QED
  BY <1>3, <1>4, <1>5, <1>6

\* Returning keeps the invariant, whoever called.
LEMMA ReturnSound ==
    ASSUME SInv, pc = "returned", NEW bar \in Messages, Consume(bar),
           caller' = "none" \/ (caller' = "all" /\ caller = "all" /\ stage' = stage),
           stage' \in {stage, "over"}, save' = save
    PROVE  SInv'
<1>1. /\ Quiet' /\ pc' = "idle" /\ disk' \in [Names -> DiskStates]
  BY ConsumeSound DEF SInv
<1>2. Staged /\ stage # "starting"
  BY DEF SInv, Staged
<1>3. caller' # "page" /\ caller' \in {"none", "all"} /\ stage' # "starting"
  BY <1>2
<1>4. (stage' = "interactive" => ~notui') /\ (caller' = "all" => stage = "interactive")
  BY <1>2 DEF Staged, notui
<1>5. Staged' /\ Loading'
  BY <1>1, <1>2, <1>3, <1>4 DEF Staged, Loading
<1> QED
  BY <1>1, <1>5 DEF SInv

LEMMA ReturnKeeps ==
    ASSUME SInv,
           \/ OptionDone \/ PageFails \/ PageArrives \/ CopyFails \/ SaveDone
           \/ LineDone
    PROVE  SInv'
<1>1. pc = "returned" /\ status \in Messages
  BY DEF OptionDone, PageFails, PageArrives, CopyFails, SaveDone, LineDone, Back,
         SInv, IInv, TypeOK
<1>2. /\ set_statusbar(status, "error") \in Messages
      /\ "" \in Messages
  BY <1>1 DEF set_statusbar, Messages
<1>3. \E bar \in Messages : Consume(bar)
  BY <1>1, <1>2 DEF OptionDone, PageFails, PageArrives, CopyFails, SaveDone, LineDone
<1>4. /\ caller' = "none" \/ (caller' = "all" /\ caller = "all" /\ stage' = stage)
      /\ stage' \in {stage, "over"} /\ save' = save
  BY DEF OptionDone, PageFails, PageArrives, CopyFails, SaveDone, LineDone, Back,
         mainvars
<1> QED
  BY <1>1, <1>3, <1>4, ReturnSound

\* Without a transfer.
LEMMA PlainSound ==
    ASSUME SInv, pc = "idle", UNCHANGED <<fd, sock, file, buffer, reslength,
           totlen, got, idle, result, req, pc, save, disk>>,
           status' \in {status, ""}, stage' # "starting",
           stage' = "interactive" => ~notui,
           caller' \in {"none", "all"},
           caller' = "all" => stage' = "interactive"
    PROVE  SInv'
<1>1. Quiet'
  BY DEF SInv, Quiet, Messages, NoRequest, NoFile, EmptyBuffer
<1>2. Staged' /\ Loading'
  BY DEF SInv, Staged, Loading, notui
<1> QED
  BY <1>1, <1>2 DEF SInv

LEMMA PlainKeeps ==
    ASSUME SInv,
           \/ StartFails \/ StartLoop \/ NothingToSave \/ SkipLine \/ AllDone
           \/ DownloadAll \/ GiveUp
           \/ Plainly(B!StartPage \/ B!Show \/ B!AskFilename) \/ Plainly(B!Key)
    PROVE  SInv'
<1>1. CASE StartFails \/ StartLoop \/ NothingToSave
  BY <1>1, PlainSound DEF StartFails, StartLoop, NothingToSave, fetchvars, vars,
     callvars, SInv, Staged, notui, saving
<1>2. CASE SkipLine \/ AllDone
  BY <1>2, PlainSound DEF SkipLine, AllDone, Downloading, fetchvars, vars,
     mainvars, SInv, Staged
<1>3. CASE DownloadAll \/ GiveUp
  BY <1>3, PlainSound DEF DownloadAll, GiveUp, Interactive, fetchvars, vars,
     mainvars, callvars, SInv, Staged
<1>4. CASE Plainly(B!StartPage \/ B!Show \/ B!AskFilename) \/ Plainly(B!Key)
  <2>1. /\ Interactive
        /\ status' = IF place' \in {"display", "prompt"} THEN "" ELSE status
        /\ stage' = IF place' = "ended" THEN "over" ELSE stage
        /\ UNCHANGED <<req, pc, fd, sock, file, buffer, reslength, totlen, got,
                       idle, result, save, callvars>>
    BY <1>4 DEF Plainly
  <2> QED
    BY <2>1, PlainSound DEF Interactive, callvars, SInv, Staged
<1> QED
  BY <1>1, <1>2, <1>3, <1>4

LEMMA StepSound == SInv /\ [SessionNext]_svars => SInv'
<1> SUFFICES ASSUME SInv, [SessionNext]_svars PROVE SInv'
  OBVIOUS
<1>1. CASE UNCHANGED svars
  <2>1. UNCHANGED <<vars, mainvars, browservars, callvars>>
    BY <1>1 DEF svars, fetchvars
  <2>2. IInv /\ [Next]_vars => IInv'
    BY StepInv
  <2>3. UNCHANGED <<stage, save, caller, name, disk, req, pc, status, result>>
    BY <2>1 DEF mainvars, callvars, vars
  <2>4. Quiet => Quiet'
    BY <2>1 DEF vars, Quiet, NoRequest, NoFile, EmptyBuffer
  <2>5. /\ Told => Told'
        /\ Sure => Sure'
        /\ Named => Named'
        /\ Staged => Staged'
    BY <2>3 DEF Told, Sure, Named, Staged, notui
  <2>6. Loading => Loading'
    BY <2>1, <2>3, HeadStays DEF Loading
  <2> QED
    BY <2>1, <2>2, <2>3, <2>4, <2>5, <2>6 DEF SInv
<1>2. CASE Transfer(Program) \/ Transfer(Others)
  BY <1>2, TransferKeeps DEF Transfer
<1>3. CASE SaveOption \/ LoadPage \/ SaveAs \/ DownloadLine
  BY <1>3, CallKeeps
<1>4. CASE \/ OptionDone \/ PageFails \/ PageArrives \/ CopyFails \/ SaveDone
           \/ LineDone
  BY <1>4, ReturnKeeps
<1>5. CASE \/ StartFails \/ StartLoop \/ NothingToSave \/ SkipLine \/ AllDone
           \/ DownloadAll \/ GiveUp
           \/ Plainly(B!StartPage \/ B!Show \/ B!AskFilename) \/ Plainly(B!Key)
  BY <1>5, PlainKeeps
<1> QED
  BY <1>1, <1>2, <1>3, <1>4, <1>5 DEF SessionNext, Runs, Over

-----------------------------------------------------------------------------
(* The theorems.                                                           *)

\* The invariant holds throughout.
THEOREM SessionInvariance == SessionSpec => []SInv
BY InitSound, StepSound, PTL DEF SessionSpec

\* Every transfer of a run closes its socket and its file.
THEOREM RunClosesEverything == SessionSpec => []NoLeak
<1>1. SInv => NoLeak
  BY DEF SInv, IInv, Structure, NoLeak
<1> QED
  BY <1>1, SessionInvariance, PTL

\* Every transfer of a run leaves a file exactly if it succeeds in saving one.
THEOREM RunAllOrNothing == SessionSpec => []FileOnlyIfSaved
<1>1. SInv => FileOnlyIfSaved
  BY DEF SInv, IInv, FileOnlyIfSaved
<1> QED
  BY <1>1, SessionInvariance, PTL

\* No transfer that fails does so without a message waiting for the user.
THEOREM RunTellsFailures == SessionSpec => []FailureTold
<1>1. SInv => FailureTold
  BY DEF SInv, Told, Named, FailureTold
<1> QED
  BY <1>1, SessionInvariance, PTL

-----------------------------------------------------------------------------
(* The disk.                                                               *)

DiskStep == \A fname \in Names : disk[fname] # "none" => disk'[fname] = disk[fname]

LEMMA DiskStays ==
    ASSUME SInv, [SessionNext]_svars
    PROVE  DiskStep
<1>1. CASE \/ OptionDone \/ PageFails \/ PageArrives \/ CopyFails \/ SaveDone
           \/ LineDone
  <2>1. pc = "returned" /\ status \in Messages
    BY <1>1 DEF OptionDone, PageFails, PageArrives, CopyFails, SaveDone, LineDone,
                Back, SInv, IInv, TypeOK
  <2>2. set_statusbar(status, "error") \in Messages /\ "" \in Messages
    BY <2>1 DEF set_statusbar, Messages
  <2>3. \E bar \in Messages : Consume(bar)
    BY <1>1, <2>1, <2>2 DEF OptionDone, PageFails, PageArrives, CopyFails,
                            SaveDone, LineDone
  <2> QED
    BY <2>1, <2>3, ConsumeSound DEF SInv, DiskStep
<1>2. CASE disk' = disk
  BY <1>2 DEF DiskStep
<1>3. \/ disk' = disk
      \/ OptionDone \/ PageFails \/ PageArrives \/ CopyFails \/ SaveDone \/ LineDone
  <2>1. CASE UNCHANGED svars
    BY <2>1 DEF svars, callvars
  <2>2. CASE Transfer(Program) \/ Transfer(Others)
    BY <2>2 DEF Transfer, callvars
  <2>3. CASE SaveOption \/ LoadPage \/ SaveAs \/ DownloadLine
    BY <2>3 DEF SaveOption, LoadPage, SaveAs, DownloadLine, Call
  <2>4. CASE \/ StartFails \/ StartLoop \/ NothingToSave \/ SkipLine \/ AllDone
             \/ DownloadAll \/ GiveUp
             \/ Plainly(B!StartPage \/ B!Show \/ B!AskFilename) \/ Plainly(B!Key)
    BY <2>4 DEF StartFails, StartLoop, NothingToSave, SkipLine, AllDone,
                DownloadAll, GiveUp, Plainly, callvars
  <2> QED
    BY <2>1, <2>2, <2>3, <2>4 DEF SessionNext, Runs, Over
<1> QED
  BY <1>1, <1>2, <1>3

\* A file that is on disk once, from before or saved in this run, is never
\* changed, whatever is downloaded under whatever name.
THEOREM DiskIsKept == SessionSpec => DiskKept
<1>1. SInv /\ [SessionNext]_svars => [DiskStep]_svars
  BY DiskStays
<1> QED
  BY <1>1, SessionInvariance, PTL DEF SessionSpec, DiskKept, DiskStep

-----------------------------------------------------------------------------
(* What is delivered.                                                      *)

Delivered == pc # "idle" => DInv

LEMMA DeliveredKeeps ==
    ASSUME "close" \notin DiskFaults, SInv, Delivered, [SessionNext]_svars
    PROVE  Delivered'
<1>1. DInv /\ [Next]_vars => DInv'
  BY StepDelivers
<1>2. CASE UNCHANGED vars
  <2>1. pc' = pc
    BY <1>2 DEF vars
  <2> QED
    BY <1>1, <1>2, <2>1 DEF Delivered
<1>3. CASE Transfer(Program) \/ Transfer(Others)
  <2>1. pc # "idle" /\ Next
    BY <1>3 DEF Transfer, Next, Program, Others, FileExists, CreateFails, Open,
         EmbeddedPage, Resolve, ResolveFails, Connect, NoSocket, Connected,
         Refused, Send, SendFails, HeadersSilence, HeadersFail, Truncate,
         Silence, WaitAborted, UserAborts, HeadersArrive, HeadersEnd,
         HeadersCut, Receive, WriteFails, PeerCloses, HeadersGoOn, Receiving
  <2> QED
    BY <1>1, <2>1 DEF Delivered
<1>4. CASE SaveOption \/ LoadPage \/ SaveAs \/ DownloadLine
  <2>1. pc = "idle" /\ pc' = "open"
    BY <1>4 DEF SaveOption, LoadPage, SaveAs, DownloadLine, Call
  <2>2. totlen' = 0 /\ got' = 0 /\ fd' = FALSE
    BY <1>4, <2>1 DEF SaveOption, LoadPage, SaveAs, DownloadLine, Call, SInv, Quiet
  <2>3. IInv'
    BY <1>4, <2>1, CallKeeps DEF SInv
  <2>4. Delivering' /\ GopherExact'
    BY <2>1, <2>2 DEF Delivering, GopherExact, Success
  <2> QED
    BY <2>3, <2>4 DEF Delivered, DInv
<1>5. CASE \/ OptionDone \/ PageFails \/ PageArrives \/ CopyFails \/ SaveDone
           \/ LineDone
  <2>1. pc' = "idle"
    BY <1>5 DEF OptionDone, PageFails, PageArrives, CopyFails, SaveDone, LineDone,
                Consume
  <2> QED
    BY <2>1 DEF Delivered
<1>6. CASE \/ StartFails \/ StartLoop \/ NothingToSave \/ SkipLine \/ AllDone
           \/ DownloadAll \/ GiveUp
           \/ Plainly(B!StartPage \/ B!Show \/ B!AskFilename) \/ Plainly(B!Key)
  <2>1. CASE UNCHANGED vars
    BY <1>2, <2>1
  <2>2. CASE pc' = "idle"
    BY <2>2 DEF Delivered
  <2> QED
    BY <1>6, <2>1, <2>2 DEF StartFails, StartLoop, NothingToSave, SkipLine,
       AllDone, DownloadAll, GiveUp, Plainly, fetchvars, Downloading, Interactive
<1>7. CASE UNCHANGED svars
  BY <1>2, <1>7 DEF svars, fetchvars
<1> QED
  BY <1>3, <1>4, <1>5, <1>6, <1>7 DEF SessionNext, Runs, Over

\* Every gopher transfer of a run that succeeds delivers what the server sent,
\* unless the disk loses what was written when the file is closed.
THEOREM RunDeliversExactly ==
    ASSUME "close" \notin DiskFaults
    PROVE  SessionSpec => []GopherExact
<1>1. SessionInit => SInv /\ Delivered
  BY InitSound DEF SessionInit, Delivered
<1>2. (SInv /\ Delivered) /\ [SessionNext]_svars => (SInv /\ Delivered)'
  BY StepSound, DeliveredKeeps
<1>3. SInv /\ Delivered => GopherExact
  BY DEF Delivered, DInv, GopherExact, Success
<1> QED
  BY <1>1, <1>2, <1>3, PTL DEF SessionSpec

-----------------------------------------------------------------------------
(* The browser.                                                            *)

\* A page that fails to load: not an embedded one.
LEMMA PageFailsLoads ==
    ASSUME SInv, PageFails
    PROVE  B!LoadFails
<1>1. /\ pc = "returned" /\ caller = "page" /\ result < 0
      /\ UNCHANGED place
      /\ \E ok \in B!MallocResult :
           history' = B!history_pop(history, ok) /\ asked' = ~ok
  BY DEF PageFails, Back
<1>2. ~(result >= 0)
  <2>1. result \in Int
    BY <1>1 DEF SInv, IInv, TypeOK
  <2> QED
    BY <1>1, <2>1
<1>3. ~B!Embedded(B!Top.loc) /\ B!NeedsLoad
  BY <1>1, <1>2 DEF SInv, Sure, Loading
<1> QED
  BY <1>1, <1>3 DEF B!LoadFails

LEMMA PageArrivesLoads ==
    ASSUME SInv, PageArrives
    PROVE  B!Load
<1>1. B!NeedsLoad
  BY DEF PageArrives, Back, SInv, Loading
<1>2. /\ \E page \in B!Contents(B!Top.loc) :
           B!Display(B!Fill(B!history_cleanupcache(history), page))
      /\ asked' = FALSE
  BY DEF PageArrives
<1> QED
  BY <1>1, <1>2 DEF B!Load

LEMMA StepBrowses ==
    ASSUME SInv, [SessionNext]_svars
    PROVE  [B!Next]_(B!vars)
<1>1. CASE UNCHANGED browservars
  BY <1>1 DEF browservars, B!vars
<1>2. CASE PageFails
  BY <1>2, PageFailsLoads DEF B!Next, B!Loop
<1>3. CASE PageArrives
  BY <1>3, PageArrivesLoads DEF B!Next, B!Loop
<1>4. CASE CopyFails
  BY <1>4 DEF CopyFails, B!Next, B!Loop
<1>5. CASE GiveUp \/ SaveDone
  BY <1>5 DEF GiveUp, SaveDone, B!Next
<1>6. CASE Plainly(B!StartPage \/ B!Show \/ B!AskFilename) \/ Plainly(B!Key)
  BY <1>6 DEF Plainly, B!Next, B!Loop
<1>7. CASE \/ StartFails \/ StartLoop \/ NothingToSave \/ SaveOption \/ OptionDone
           \/ LoadPage \/ SkipLine \/ DownloadLine \/ LineDone \/ AllDone
           \/ SaveAs \/ DownloadAll \/ Transfer(Program) \/ Transfer(Others)
  BY <1>1, <1>7 DEF StartFails, StartLoop, NothingToSave, SaveOption, OptionDone,
     LoadPage, SkipLine, DownloadLine, LineDone, AllDone, SaveAs, DownloadAll,
     Transfer
<1>8. CASE UNCHANGED svars
  BY <1>1, <1>8 DEF svars
<1> QED
  BY <1>2, <1>3, <1>4, <1>5, <1>6, <1>7, <1>8 DEF SessionNext, Runs, Over

LEMMA InitBrowses == SessionInit => B!Init
BY DEF SessionInit, B!Init

\* A run of the program, with its transfers, is a session of Browser: what
\* Browser says of a load that arrives or fails is what the transfers do.
THEOREM RunBrowses == SessionSpec => ImplementsBrowser
<1>1. SInv /\ [SessionNext]_svars => [B!Next]_(B!vars)
  BY StepBrowses
<1> QED
  BY <1>1, InitBrowses, SessionInvariance, PTL
  DEF SessionSpec, ImplementsBrowser, B!Spec

-----------------------------------------------------------------------------
(* The table of resolved names.                                            *)

\* What the slots hold: a slot is blank as the program started, or the last
\* answer of the resolver for a name short enough, stamped with its time.
SlotsFaithful ==
    \A x \in Slots :
        \/ table[x].host = NoHost /\ table[x].inserttime = 0
        \/ /\ table[x].host \in HostNames \ LongHosts
           /\ table[x].addr \in Addresses
           /\ table[x].addr = resolved[table[x].host].addr
           /\ table[x].inserttime = resolved[table[x].host].time
           /\ table[x].inserttime > 0

DnsInv == DnsTypeOK /\ SlotsFaithful /\ HostOnce /\ EvictsOldest

-----------------------------------------------------------------------------
\* The slots written by dnscache_add() are the one that knows the name or
\* one that is older than none of the others.
LEMMA BestSlotsChoice ==
    ASSUME NEW host, NEW x \in BestSlots(host)
    PROVE  /\ x \in Slots
           /\ Known(host) # {} => x \in Known(host)
           /\ Known(host) = {} => x \in Oldest
BY DEF BestSlots, First, Known, Oldest

\* The program starts with a blank table.
LEMMA InitDnsInv == DnsInit => DnsInv
<1> SUFFICES ASSUME DnsInit PROVE DnsInv
  OBVIOUS
<1>1. DnsTypeOK
  BY DnsAssumption DEF DnsInit, DnsTypeOK, Entry, Answer, Slots
<1>2. SlotsFaithful /\ HostOnce
  BY DEF DnsInit, SlotsFaithful, HostOnce
<1>3. EvictsOldest
  BY DEF DnsInit, EvictsOldest
<1> QED
  BY <1>1, <1>2, <1>3 DEF DnsInv

\* A step that leaves the table and the answers of the resolver alone.
LEMMA FrameDnsInv ==
    ASSUME DnsInv, DnsTypeOK', UNCHANGED <<table, resolved>>
    PROVE  DnsInv'
BY DEF DnsInv, SlotsFaithful, HostOnce, EvictsOldest

\* A name too long for the table.
LEMMA ResolveLong ==
    ASSUME DnsInv, NEW addr \in Addresses, Lookup(addr), resolving \in LongHosts
    PROVE  DnsInv'
<1>1. /\ UNCHANGED <<table, now>>
      /\ resolved' = [resolved EXCEPT ![resolving] = [addr |-> addr, time |-> now]]
  BY DEF Lookup, dnscache_add
<1>2. DnsTypeOK'
  BY <1>1 DEF DnsInv, DnsTypeOK, Lookup, Answer
<1>3. \A h \in HostNames \ LongHosts : resolved'[h] = resolved[h]
  BY <1>1 DEF DnsInv, DnsTypeOK
<1>4. SlotsFaithful' /\ HostOnce' /\ EvictsOldest'
  BY <1>1, <1>3 DEF DnsInv, SlotsFaithful, HostOnce, EvictsOldest
<1> QED
  BY <1>2, <1>4 DEF DnsInv

\* A name that gets a slot.
LEMMA ResolveShort ==
    ASSUME DnsInv, NEW addr \in Addresses, Lookup(addr), resolving \notin LongHosts
    PROVE  DnsInv'
<1> DEFINE h0 == resolving
<1>1. /\ UNCHANGED now
      /\ h0 \in HostNames \ LongHosts
      /\ resolved' = [resolved EXCEPT ![h0] = [addr |-> addr, time |-> now]]
  BY DEF Lookup, DnsInv, DnsTypeOK
<1>2. PICK x \in BestSlots(h0) : table' = [table EXCEPT ![x] = Stamp(h0, addr, now)]
  BY DEF Lookup, dnscache_add
<1>3. /\ x \in Slots
      /\ Known(h0) # {} => x \in Known(h0)
      /\ Known(h0) = {} => x \in Oldest
  BY <1>2, BestSlotsChoice
<1>4. /\ table'[x] = [host |-> h0, addr |-> addr, inserttime |-> now]
      /\ \A y \in Slots \ {x} : table'[y] = table[y]
  BY <1>2, <1>3 DEF Stamp, DnsInv, DnsTypeOK
<1>5. /\ resolved'[h0] = [addr |-> addr, time |-> now]
      /\ \A h \in HostNames \ {h0} : resolved'[h] = resolved[h]
  BY <1>1 DEF DnsInv, DnsTypeOK
<1>6. now \in Nat /\ now > 0
  BY DnsAssumption DEF DnsInv, DnsTypeOK
<1>7. \A y \in Slots : table[y].host = h0 => y = x
  <2> SUFFICES ASSUME NEW y \in Slots, table[y].host = h0 PROVE y = x
    OBVIOUS
  <2>1. table[y].inserttime > 0
    BY <1>1, DnsAssumption DEF DnsInv, SlotsFaithful
  <2>2. y \in Known(h0)
    BY <2>1 DEF Known
  <2>3. table[x].host = h0
    BY <1>3, <2>2 DEF Known
  <2> QED
    BY <1>1, <1>3, <2>3, DnsAssumption DEF DnsInv, HostOnce
<1>8. DnsTypeOK'
  <2>1. Stamp(h0, addr, now) \in Entry
    BY <1>1, <1>6 DEF Stamp, Entry
  <2>2. table' \in [Slots -> Entry]
    BY <1>2, <2>1 DEF DnsInv, DnsTypeOK
  <2>3. resolved' \in [HostNames -> Answer]
    BY <1>1, <1>6 DEF DnsInv, DnsTypeOK, Answer
  <2>4. \A y \in Slots : table'[y].inserttime <= now'
    BY <1>1, <1>4, <1>6 DEF DnsInv, DnsTypeOK
  <2>5. \A h \in HostNames : resolved'[h].time <= now'
    BY <1>1, <1>5, <1>6 DEF DnsInv, DnsTypeOK
  <2> QED
    BY <1>1, <2>2, <2>3, <2>4, <2>5 DEF DnsInv, DnsTypeOK, Lookup
<1>9. SlotsFaithful'
  <2> SUFFICES ASSUME NEW y \in Slots
               PROVE \/ table'[y].host = NoHost /\ table'[y].inserttime = 0
                     \/ /\ table'[y].host \in HostNames \ LongHosts
                        /\ table'[y].addr \in Addresses
                        /\ table'[y].addr = resolved'[table'[y].host].addr
                        /\ table'[y].inserttime = resolved'[table'[y].host].time
                        /\ table'[y].inserttime > 0
    BY DEF SlotsFaithful
  <2>1. CASE y = x
    BY <1>1, <1>4, <1>5, <1>6, <2>1
  <2>2. CASE y # x
    <3>1. table'[y] = table[y] /\ table[y].host # h0
      BY <1>4, <1>7, <2>2
    <3> QED
      BY <1>5, <3>1 DEF DnsInv, SlotsFaithful
  <2> QED
    BY <2>1, <2>2
<1>10. HostOnce'
  BY <1>3, <1>4, <1>7 DEF DnsInv, HostOnce
<1>11. EvictsOldest'
  <2> SUFFICES ASSUME NEW h \in HostNames \ LongHosts
               PROVE \/ \E y \in Slots : table'[y].host = h
                     \/ \A y \in Slots : table'[y].inserttime >= resolved'[h].time
    BY DEF EvictsOldest
  <2>1. CASE h = h0
    BY <1>3, <1>4, <2>1
  <2>2. CASE h # h0 /\ table[x].host = h
    <3>1. Known(h0) = {}
      BY <1>3, <2>2 DEF Known
    <3>2. \A y \in Slots : table[x].inserttime <= table[y].inserttime
      BY <1>3, <3>1 DEF Oldest
    <3>3. resolved'[h].time = table[x].inserttime
      BY <1>3, <1>5, <2>2, DnsAssumption DEF DnsInv, SlotsFaithful
    <3>4. table[x].inserttime <= now
      BY <1>3 DEF DnsInv, DnsTypeOK
    <3> QED
      BY <1>4, <3>2, <3>3, <3>4
  <2>3. CASE h # h0 /\ table[x].host # h /\ \E y \in Slots : table[y].host = h
    BY <1>4, <2>3
  <2>4. CASE h # h0 /\ \A y \in Slots : table[y].inserttime >= resolved[h].time
    BY <1>4, <1>5, <2>4 DEF DnsInv, DnsTypeOK
  <2> QED
    BY <2>1, <2>2, <2>3, <2>4 DEF DnsInv, EvictsOldest
<1> QED
  BY <1>8, <1>9, <1>10, <1>11 DEF DnsInv

LEMMA NextDnsInv == DnsInv /\ [DnsNext]_dnsvars => DnsInv'
<1> SUFFICES ASSUME DnsInv, [DnsNext]_dnsvars PROVE DnsInv'
  OBVIOUS
<1>1. ASSUME NEW host \in HostNames, AskHit(host) PROVE DnsInv'
  <2>1. ipaddr' \in Addresses \cup {NoAddress}
    BY <1>1 DEF AskHit, First, Hits, DnsInv, DnsTypeOK, Entry
  <2>2. DnsTypeOK'
    BY <1>1, <2>1 DEF AskHit, DnsInv, DnsTypeOK
  <2> QED
    BY <1>1, <2>2, FrameDnsInv DEF AskHit
<1>2. ASSUME NEW host \in HostNames, AskMiss(host) PROVE DnsInv'
  <2>1. DnsTypeOK'
    BY <1>2 DEF AskMiss, DnsInv, DnsTypeOK
  <2> QED
    BY <1>2, <2>1, FrameDnsInv DEF AskMiss
<1>3. ASSUME NEW addr \in Addresses, Lookup(addr) PROVE DnsInv'
  BY <1>3, ResolveLong, ResolveShort
<1>4. CASE LookupFails
  <2>1. DnsTypeOK'
    BY <1>4 DEF LookupFails, DnsInv, DnsTypeOK
  <2> QED
    BY <1>4, <2>1, FrameDnsInv DEF LookupFails
<1>5. CASE Tick
  <2>1. now' \in Nat /\ now' > now
    BY <1>5, DnsAssumption DEF Tick, DnsInv, DnsTypeOK
  <2>2. DnsTypeOK'
    <3>1. \A x \in Slots : table[x].inserttime <= now'
      BY <2>1 DEF DnsInv, DnsTypeOK, Entry
    <3>2. \A h \in HostNames : resolved[h].time <= now'
      BY <2>1 DEF DnsInv, DnsTypeOK, Answer
    <3> QED
      BY <1>5, <2>1, <3>1, <3>2, DnsAssumption DEF Tick, DnsInv, DnsTypeOK
  <2> QED
    BY <1>5, <2>2, FrameDnsInv DEF Tick
<1>6. CASE UNCHANGED dnsvars
  BY <1>6, FrameDnsInv DEF dnsvars, DnsInv, DnsTypeOK
<1> QED
  BY <1>1, <1>2, <1>3, <1>4, <1>5, <1>6 DEF DnsNext

\* The inductive invariant of the DNS step of loadfile_buff().
THEOREM DnsInvariance == DnsSpec => []DnsInv
BY InitDnsInv, NextDnsInv, PTL DEF DnsSpec
-----------------------------------------------------------------------------
\* Every variable keeps its shape and nothing in the table is stamped later
\* than now.
THEOREM DnsTypeCorrect == DnsSpec => []DnsTypeOK
BY DnsInvariance, PTL DEF DnsInv

\* dnscache_add() never leaves a name in two slots.
THEOREM NeverTwice == DnsSpec => []HostOnce
BY DnsInvariance, PTL DEF DnsInv

\* dnscache_add() never pushes a name out before one that is older.
THEOREM OldestFirst == DnsSpec => []EvictsOldest
BY DnsInvariance, PTL DEF DnsInv

\* dnscache_ask() answers with the last word of the resolver, and not after
\* its time.
THEOREM Latest == DnsSpec => []AnswersLatest
<1>1. DnsInv => AnswersLatest
  <2> SUFFICES ASSUME DnsInv, NEW h \in HostNames, NEW x \in Hits(h)
               PROVE /\ table[x].addr = resolved[h].addr
                     /\ resolved[h].addr # NoAddress
                     /\ resolved[h].time >= now - DNS_CACHETIME
    BY DEF AnswersLatest
  <2>1. /\ x \in Slots /\ table[x].host = h
        /\ ~(table[x].inserttime < now - DNS_CACHETIME)
    BY DEF Hits, Expired
  <2>2. /\ table[x].addr \in Addresses
        /\ table[x].addr = resolved[h].addr
        /\ table[x].inserttime = resolved[h].time
    BY <2>1, DnsAssumption DEF DnsInv, SlotsFaithful
  <2>3. resolved[h].time \in Nat /\ now \in Nat
    BY DEF DnsInv, DnsTypeOK, Answer
  <2> QED
    BY <2>1, <2>2, <2>3, DnsAssumption
<1> QED
  BY <1>1, DnsInvariance, PTL

\* With DNS_MAXENTRIES slots, the DNS_MAXENTRIES names resolved last are not
\* looked up again while they are fresh: otherwise each slot would hold one
\* of the names resolved since, all different, and there are fewer of them.
THEOREM FreshNamesHit == DnsSpec => []NoNeedlessLookup
<1>1. DnsInv => NoNeedlessLookup
  <2> SUFFICES ASSUME DnsInv, NEW h \in HostNames \ LongHosts,
                      resolved[h].addr # NoAddress,
                      resolved[h].time >= now - DNS_CACHETIME,
                      Cardinality(Recent(h)) < DNS_MAXENTRIES,
                      Hits(h) = {}
               PROVE FALSE
    BY DEF NoNeedlessLookup
  <2>1. now \in Nat /\ resolved[h].time \in Nat /\ now > DNS_CACHETIME
    BY DnsAssumption DEF DnsInv, DnsTypeOK, Answer
  <2>2. \A x \in Slots : table[x].host # h
    <3> SUFFICES ASSUME NEW x \in Slots, table[x].host = h PROVE FALSE
      OBVIOUS
    <3>1. table[x].inserttime = resolved[h].time
      BY DnsAssumption DEF DnsInv, SlotsFaithful
    <3>2. ~Expired(x)
      BY <2>1, <3>1, DnsAssumption DEF Expired
    <3> QED
      BY <3>2 DEF Hits
  <2>3. \A x \in Slots : table[x].inserttime >= resolved[h].time
    BY <2>2 DEF DnsInv, EvictsOldest
  <2>4. \A x \in Slots : table[x].host \in Recent(h)
    <3> SUFFICES ASSUME NEW x \in Slots PROVE table[x].host \in Recent(h)
      OBVIOUS
    <3>1. table[x].inserttime \in Nat /\ table[x].inserttime > 0
      BY <2>1, <2>3, DnsAssumption DEF DnsInv, DnsTypeOK, Entry
    <3>2. /\ table[x].host \in HostNames
          /\ resolved[table[x].host].time = table[x].inserttime
      BY <3>1, DnsAssumption DEF DnsInv, SlotsFaithful
    <3> QED
      BY <2>2, <2>3, <3>2 DEF Recent
  <2> DEFINE holder == [x \in Slots |-> table[x].host]
  <2>5. holder \in Injection(Slots, Recent(h))
    BY <2>4, DnsAssumption DEF DnsInv, HostOnce, Injection, IsInjective, Recent
  <2>6. IsFiniteSet(Recent(h))
    BY DnsAssumption, FS_Subset DEF Recent
  <2>7. IsFiniteSet(Slots) /\ Cardinality(Slots) = DNS_MAXENTRIES
    BY DnsAssumption, FS_Interval DEF Slots
  <2>8. Cardinality(Slots) <= Cardinality(Recent(h))
    BY <2>5, <2>6, FS_Injection
  <2> QED
    BY <2>6, <2>7, <2>8, FS_CardinalityType, DnsAssumption
<1> QED
  BY <1>1, DnsInvariance, PTL
=============================================================================
