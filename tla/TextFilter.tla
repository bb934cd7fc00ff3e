------------------------------ MODULE TextFilter ------------------------------
(***************************************************************************)
(* The first half of display_text(): the cached bytes of a page are copied *)
(* into the display buffer, as raw text or stripped of HTML.  A byte is    *)
(* known by what the code makes of it; a run of letters is one symbol, so  *)
(* that the name of a tag is compared as a whole.  The second half is      *)
(* TextView; the proofs are about both, hence the prefix of some names.    *)
(***************************************************************************)
EXTENDS Integers, Selection

CONSTANTS
    BufferSizes,    \* how large the buffer may be
    NAMELEN,        \* characters kept of the name of a tag or an entity
    Elements,       \* for each format, what a page is written with: sequences
                    \* of symbols
    MaxElements     \* bound on the length of a page

Whitespace == {"tab", "lf", "cr", "sp"}
Controls == {"bs", "bell"}      \* other bytes below 32
Deleted == {"del"}              \* byte 127
HighBytes == {"high"}           \* bytes above 127: negative as a char
Breaks == {"/p", "br", "/tr", "/title"}

\* Whole elements of HTML: a byte of text, a tag, a script, an entity whose
\* name is short enough to be kept.
IsText(e) == Len(e) = 1 /\ e[1] \notin {"<", "&"}
IsTag(e) ==
    /\ Len(e) >= 2 /\ e[1] = "<" /\ e[Len(e)] = ">"
    /\ \A i \in 2 .. Len(e) - 1 : e[i] \notin {"<", ">"}
    /\ e[2] # "script"
IsScript(e) ==
    /\ Len(e) >= 6 /\ e[1] = "<" /\ e[2] = "script"
    /\ SubSeq(e, Len(e) - 2, Len(e)) = <<"<", "/script", ">">>
    /\ \E m \in 3 .. Len(e) - 3 :
          /\ e[m] = ">"
          /\ \A i \in 3 .. m - 1 : e[i] \notin {"<", ">"}
          /\ \A i \in m + 1 .. Len(e) - 3 : e[i] # "<"
IsEntity(e) ==
    /\ Len(e) \in 2 .. NAMELEN + 1 /\ e[1] = "&" /\ e[Len(e)] = "semi"
    /\ \A i \in 2 .. Len(e) - 1 : e[i] \notin Whitespace \cup {"<", ">", "semi"}

\* No byte is called "none", which stands for a tag that is not open.
ASSUME TextFilterAssumption ==
    /\ BufferSizes \subseteq Nat \ {0}
    /\ NAMELEN \in Nat \ {0}
    /\ DOMAIN Elements = {"RAW", "HTM"}
    /\ Elements["RAW"] \cup Elements["HTM"] \subseteq Seq(STRING)
    /\ \A e \in Elements["HTM"] :
          /\ "none" \notin ToSet(e)
          /\ IsText(e) \/ IsTag(e) \/ IsScript(e) \/ IsEntity(e) \/ e = <<"&">>
    /\ MaxElements \in Nat

VARIABLES
    txtformat, buffersize,
    page,       \* ghost: the elements of the page
    x,          \* bytes of (*history)->cache that have been looked at
    buffer,     \* buffer[0 .. bufferlen - 1]
    token,      \* the open tag: <<"none">>, or its name and what follows
    special,    \* the open entity: <<"none">>, or its name
    lastcharwasaspace, insidescript, insidebody,
    done

html == <<token, special, lastcharwasaspace, insidescript, insidebody>>
given == <<txtformat, buffersize, page>>
filtervars == <<given, x, buffer, html, done>>

Closed == <<"none">>
Bytes(elements) == FlattenSeq(elements)
cache == Bytes(page)
Byte == cache[x + 1]

FilterInit ==
    /\ txtformat \in DOMAIN Elements
    /\ page \in BoundedSeq(Elements[txtformat], MaxElements)
    /\ buffersize \in BufferSizes
    /\ x = 0
    /\ buffer = <<>>
    /\ token = Closed /\ special = Closed
    /\ lastcharwasaspace = FALSE
    /\ insidescript = FALSE /\ insidebody = FALSE
    /\ done = FALSE

Emit(bytes) == buffer' = buffer \o bytes
Advance == x' = x + 1 /\ UNCHANGED <<given, done>>
Looking(room) ==
    /\ ~done /\ x < Len(cache)
    /\ Len(buffer) + room <= buffersize

-----------------------------------------------------------------------------
(* Raw text.                                                               *)

\* A mistaken version: the sign of a byte above 127 is not thought of.
RawBytesSigned(byte) ==
    IF byte = "bs" THEN [i \in 1 .. 8 |-> "sp"]
    ELSE IF byte \in Deleted \cup Controls \cup HighBytes \cup {"cr", "tab"} THEN <<>>
    ELSE <<byte>>

\* The case labelled 8 is the backspace character.
RawBytes(byte) ==
    IF byte = "bs" THEN [i \in 1 .. 8 |-> "sp"]
    ELSE IF byte \in Deleted \cup Controls \cup {"cr", "tab"} THEN <<>>
    ELSE <<byte>>

RawByte ==
    /\ txtformat = "RAW" /\ Looking(10)
    /\ Emit(RawBytes(Byte))
    /\ Advance /\ UNCHANGED html

\* The check for a dot on the last line.  With fewer than two bytes it reads
\* in front of the buffer, where malloc() keeps a byte that is no match.
EndsWithDot ==
    LET n == Len(buffer)
    IN  n >= 2 /\ buffer[n] = "lf" /\ buffer[n - 1] = "dot"

RawEnd ==
    /\ txtformat = "RAW" /\ ~done
    /\ x = Len(cache) \/ Len(buffer) + 10 > buffersize
    /\ buffer' = IF EndsWithDot THEN SubSeq(buffer, 1, Len(buffer) - 2)
                 ELSE buffer
    /\ done' = TRUE
    /\ UNCHANGED <<given, x, html>>

-----------------------------------------------------------------------------
(* HTML.                                                                   *)

InTag == token # Closed
InEntity == special # Closed /\ Len(special) < NAMELEN

Longer(name, byte) == IF Len(name) < NAMELEN THEN Append(name, byte) ELSE name
HtmlByte == txtformat = "HTM" /\ Looking(4)
Skipped == insidescript /\ ~InTag /\ Byte # "<"

\* What a script says is passed over.
ScriptByte ==
    /\ HtmlByte /\ Skipped
    /\ Advance /\ UNCHANGED <<buffer, html>>

\* White space ends the name of a tag; elsewhere it is shown as one space.
HtmlSpace ==
    /\ HtmlByte /\ ~Skipped /\ Byte \in Whitespace
    /\ IF InTag
       THEN /\ token' = Longer(token, "nul")
            /\ UNCHANGED <<buffer, lastcharwasaspace>>
       ELSE /\ Emit(IF lastcharwasaspace THEN <<>> ELSE <<"sp">>)
            /\ lastcharwasaspace' = TRUE
            /\ UNCHANGED token
    /\ Advance /\ UNCHANGED <<special, insidescript, insidebody>>

TagOpens ==
    /\ HtmlByte /\ Byte = "<"
    /\ lastcharwasaspace' = FALSE
    /\ token' = <<>>
    /\ Advance /\ UNCHANGED <<buffer, special, insidescript, insidebody>>

\* The name compared is what stands before the first NUL.
Name == IF token = <<>> THEN "nul" ELSE token[1]

TagCloses ==
    /\ HtmlByte /\ ~Skipped /\ Byte = ">" /\ InTag
    /\ lastcharwasaspace' = FALSE
    /\ token' = Closed
    /\ Emit(IF Name \in Breaks THEN <<"lf">> ELSE <<>>)
    /\ insidescript' = (Name = "script" \/ (insidescript /\ Name # "/script"))
    /\ insidebody' = (insidebody \/ Name = "body")
    /\ Advance /\ UNCHANGED special

StrayGreater ==
    /\ HtmlByte /\ ~Skipped /\ Byte = ">" /\ ~InTag
    /\ lastcharwasaspace' = FALSE
    /\ Advance
    /\ UNCHANGED <<buffer, token, special, insidescript, insidebody>>

\* Every other byte: it belongs to a tag, opens, continues or ends an
\* entity, or is text.
Other ==
    /\ HtmlByte /\ ~Skipped
    /\ Byte \notin Whitespace \cup {"<", ">"}
    /\ lastcharwasaspace' = FALSE
    /\ Advance /\ UNCHANGED <<insidescript, insidebody>>

TagByte ==
    /\ Other /\ InTag
    /\ token' = Longer(token, Byte)
    /\ UNCHANGED <<buffer, special>>

EntityOpens ==
    /\ Other /\ ~InTag /\ special = Closed /\ Byte = "&"
    /\ special' = <<>>
    /\ UNCHANGED <<buffer, token>>

EntityByte ==
    /\ Other /\ ~InTag /\ InEntity /\ Byte # "semi"
    /\ special' = Append(special, Byte)
    /\ UNCHANGED <<buffer, token>>

\* A mistaken version: the entity stays open.
EntityStays ==
    /\ Other /\ ~InTag /\ InEntity /\ Byte = "semi"
    /\ Emit(IF special = <<"nbsp">> THEN <<"sp">> ELSE <<"_">>)
    /\ special' = <<>>
    /\ UNCHANGED token

EntityCloses ==
    /\ Other /\ ~InTag /\ InEntity /\ Byte = "semi"
    /\ Emit(IF special = <<"nbsp">> THEN <<"sp">> ELSE <<"_">>)
    /\ special' = Closed
    /\ UNCHANGED token

\* "< 32" on a char also drops what is above 127; nothing is copied before
\* the body.  An entity that is too long never ends and is not looked at.
Text ==
    /\ Other /\ ~InTag /\ ~InEntity /\ ~(special = Closed /\ Byte = "&")
    /\ Emit(IF (Byte \in Controls \cup HighBytes) \/ ~insidebody THEN <<>>
            ELSE <<Byte>>)
    /\ UNCHANGED <<token, special>>

HtmlEnd ==
    /\ txtformat = "HTM" /\ ~done
    /\ x = Len(cache) \/ Len(buffer) + 4 > buffersize
    /\ done' = TRUE
    /\ UNCHANGED <<given, x, buffer, html>>

FilterNext ==
    \/ RawByte \/ RawEnd
    \/ ScriptByte \/ HtmlSpace \/ TagOpens \/ TagCloses \/ StrayGreater
    \/ TagByte \/ EntityOpens \/ EntityByte \/ EntityCloses \/ Text
    \/ HtmlEnd

FilterSpec == FilterInit /\ [][FilterNext]_filtervars

-----------------------------------------------------------------------------
Letters == {"a", "b"}
Words(bytes) == Among(bytes, Letters)
Entire == done /\ x = Len(cache)

\* Raw text without TABs and backspaces comes out as it is, spaces and line
\* feeds included, to where the buffer is full: but for the bytes that cannot
\* be seen, and for a dot alone on the last line.  Texts whose last line ends
\* in a full stop are left out: they lose it, and the line feed behind it.
Unseen == Deleted \cup Controls \cup {"cr"}
Seeable(bytes) == NotAmong(bytes, Unseen)
NoTabs == \A i \in 1 .. x : cache[i] \notin {"tab", "bs"}
EndsInDot(bytes) ==
    LET n == Len(bytes) IN n >= 2 /\ bytes[n] = "lf" /\ bytes[n - 1] = "dot"
Untrimmed(out, in) ==
    LET n == Len(in)
    IN  IF ~EndsInDot(in) THEN out = in
        ELSE n = 2 \/ in[n - 2] = "lf" => out = SubSeq(in, 1, n - 2)
RawExact ==
    txtformat = "RAW" /\ done /\ NoTabs =>
        Untrimmed(buffer, Seeable(SubSeq(cache, 1, x)))

\* Of any raw text the letters, line feeds and dots come out in order, but for
\* the last dot and line feed; a TAB leaves nothing between two words.
Kept(bytes) == Among(bytes, Letters \cup HighBytes \cup {"lf", "dot"})
RawKept ==
    txtformat = "RAW" /\ done =>
        Kept(SubSeq(cache, 1, x)) \in {Kept(buffer), Kept(buffer) \o <<"dot", "lf">>}

\* HTML written with whole tags, scripts and entities: the words of the body
\* are shown in order, and no others: not those of the head, of attributes,
\* or of scripts.
OpensBody(e) == IsTag(e) /\ e[2] = "body"
InBody(i) == \E b \in 1 .. i - 1 : OpensBody(page[b])
BodyWords == FlattenSeq([i \in 1 .. Len(page) |->
    IF InBody(i) /\ IsText(page[i]) THEN Words(page[i]) ELSE <<>>])
WellFormed == \A i \in 1 .. Len(page) : page[i] # <<"&">>
BodyShown ==
    txtformat = "HTM" /\ Entire /\ WellFormed => Words(buffer) = BodyWords

\* What display_text() puts into its buffer is the text of the page, as far as
\* the three parts above say.
TextCopied == RawExact /\ RawKept /\ BodyShown
=============================================================================
