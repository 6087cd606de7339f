---------------------------- MODULE FrameScanner ----------------------------
(***************************************************************************)
(* frame_scanner.go: one direction of a connection.  One end writes frames *)
(* with heartbeats between them; at the other end the scanner of module    *)
(* Scanner calls frameSplitter() on the symbols that it has read, and what *)
(* it hands over is decoded.                                               *)
(***************************************************************************)
EXTENDS Codec, Scanner

CONSTANTS
    Scripts,    \* sequences of frames that a program asks the sending end to send
    BeatCounts  \* how many heartbeats may precede each frame and follow the last

ASSUME FrameScannerAssumption == BeatCounts \subseteq Nat

VARIABLES
    asked,      \* the frames that the sending program asked for
    sent,       \* those that send() did not refuse
    wire,       \* all that the sending end writes
    got         \* <<number, frame>> of what the loop decoded

sendVars == <<asked, sent, wire>>
wireVars == <<vars, sendVars, got>>

----------------------------------------------------------------------------
\* send(): Validate() by the kind of the sending end, and one Write for a frame.
Source(f) == IF f.command \in ServerCmds THEN "server" ELSE "client"

Beats(n) == [i \in 1 .. n |-> "LF"]

HeadLen(f) == Len(Serialize(f)) - Len(f.body) - 1

WireInit ==
    \E fs \in Scripts :
        /\ asked = fs
        /\ sent = SelectSeq(fs, LAMBDA f : Validate(f, Source(f)))
        /\ \E beats \in [1 .. Len(sent) + 1 -> BeatCounts] :
              LET before(k) == FlattenSeq([i \in 1 .. k - 1 |-> Beats(beats[i]) \o Serialize(sent[i])])
                  first(k) == Len(before(k)) + beats[k] + 1
              IN /\ wire = before(Len(sent) + 1) \o Beats(beats[Len(sent) + 1])
                 /\ total = Len(wire)
                 /\ ends = [k \in 1 .. Len(sent) |->
                        [first |-> first(k), blank |-> first(k) + HeadLen(sent[k]) - 1,
                         nul |-> first(k) + Len(Serialize(sent[k])) - 1]]
        /\ got = <<>>
        /\ Init

----------------------------------------------------------------------------
\* frameSplitter()
IsNewline(c) == c \in {"LF", "CR"}

\* The first position in from .. Len(data) where c is, or 0: bytes.IndexByte.
IndexFrom(data, c, from) ==
    LET at == {i \in from .. Len(data) : data[i] = c} IN
    IF at = {} THEN 0 ELSE Min(at)

IsContentLength(h) == Lower(h[1]) = Key("content-length")

\* The last content-length among the header lines, or -1.
BodyLen(lines) ==
    LET k == SelectLastInSeq(lines, IsContentLength) IN
    IF k = 0 THEN -1 ELSE Atoi(lines[k][2])

\* A line without ":", or a content-length that is no number.
BadLine(h) == Len(h) = 1 \/ (IsContentLength(h) /\ ~IsNumber(h[2]))

\* Mutant: the NUL is looked for, whatever the content-length.
BodyEndAtNul(data, from, len) == IndexFrom(data, "NUL", from)

\* Mutant: the NUL must not be the last symbol read.
BodyEndLooksAhead(data, from, len) ==
    LET nul == IF len = -1 THEN IndexFrom(data, "NUL", from) ELSE from + len
    IN IF nul >= Len(data) THEN 0 ELSE nul

\* Mutant: a body that has not arrived is an error.
BodyEndStrict(data, from, len) ==
    LET nul == IF len = -1 THEN IndexFrom(data, "NUL", from) ELSE from + len
    IN IF nul > Len(data) \/ nul = 0 THEN -1 ELSE nul

\* The position of the NUL after the body; 0 when it was not read, -1 when another
\* symbol is there.
BodyEnd(data, from, len) ==
    IF len = -1 THEN IndexFrom(data, "NUL", from)
    ELSE IF from + len > Len(data) THEN 0
    ELSE IF data[from + len] # "NUL" THEN -1
    ELSE from + len

\* Mutant: a newline is taken to follow the NUL.
TokenEndPast(data, nul) == nul + 1

\* Mutant: the newline after the NUL is not consumed.
TokenEndKeeps(data, nul) == nul

\* One newline that follows the NUL, if it was read, is part of the token.
TokenEnd(data, nul) ==
    IF nul < Len(data) /\ IsNewline(data[nul + 1]) THEN nul + 1 ELSE nul

\* Without a whole head the result is an error, not a request for more.
FrameSplitter[data \in Seq(STRING)] ==
    LET first == SelectInSeq(data, LAMBDA c : ~IsNewline(c))
        cmdEnd == IndexFrom(data, "LF", first)
        blanks == {i \in cmdEnd + 1 .. Len(data) : data[i] = "LF" /\ data[i - 1] = "LF"}
        blank == Min(blanks)
        raw == Split(SubSeq(data, cmdEnd + 1, blank - 2), "LF")
        lines == IF blank = cmdEnd + 1 THEN <<>> ELSE [k \in DOMAIN raw |-> Split(raw[k], ":")]
        nul == BodyEnd(data, blank + 1, BodyLen(lines))
    IN IF first = 0 THEN NeedMore
       ELSE IF cmdEnd = 0 \/ blanks = {} THEN Bad
       ELSE IF \E k \in DOMAIN lines : BadLine(lines[k]) THEN Bad
       ELSE IF blank = Len(data) \/ nul = 0 THEN NeedMore
       ELSE IF nul = -1 THEN Bad
       ELSE Token(first, TokenEnd(data, nul))

----------------------------------------------------------------------------
\* Scan() calls the splitter on what was read and not yet consumed.
WireSplit ==
    /\ \E r \in {FrameSplitter[SubSeq(wire, start + 1, nread)]} : ScanSplit(r)
    /\ UNCHANGED <<sendVars, got>>

\* The loop decodes and validates.  What it reads of bytes that the scanner has moved
\* can be anything.
WireDecode ==
    /\ Decode
    /\ IF moved
       THEN UNCHANGED got
       ELSE LET f == Deserialize[SubSeq(wire, held[1], held[2])] IN
            /\ got' = Append(got, <<emitted, f>>)
            /\ ~Validate(f, Source(f)) => cons' = "stopped"
    /\ UNCHANGED sendVars

WireNext ==
    \/ WireSplit \/ WireDecode
    \/ Transport /\ UNCHANGED <<sendVars, got>>

WireSpec == WireInit /\ [][WireNext]_wireVars

----------------------------------------------------------------------------
\* frameSplitter() answers what the layout of the stream says, for frames of every kind
\* with every text and bodies that hold NULs and newlines: the parser of symbols
\* implements the scanner of positions (frame_scanner.go:12).
ImplementsScanner == Spec

\* The escapes of a frame's header keys and texts are legal ones.
LegalEscapes(f) ==
    \A h \in DOMAIN f.headers : CheckValidEscapes(h) /\ CheckValidEscapes(f.headers[h])

\* send() writes a frame that the code builds, whatever its kind, its keys and its texts,
\* unless one of them has an escape that is not legal: validationMap (frame.go:85) and
\* the methods that build frames agree.
OwnFramesWritten ==
    \A k \in DOMAIN asked : Validate(asked[k], Source(asked[k])) <=> LegalEscapes(asked[k])

\* A text that escape() and unescape() change: "\" before an "n" or a "c".
Ambiguous(t) == \E i \in 1 .. Len(t) - 1 : t[i] = "\\" /\ t[i + 1] \in {"n", "c"}

HasCR(f) ==
    \E t \in {f.body} \cup DOMAIN f.headers \cup {f.headers[h] : h \in DOMAIN f.headers} :
        "CR" \in ToSet(t)

\* What the loop decodes of a token that the scanner has not overwritten is the frame
\* that was sent, whatever the bounds of the reads and the heartbeats, exactly when no
\* key and no text of its headers is ambiguous (serializer.go:24, :86, :108).  Frames
\* with a carriage return are left aside: deserialize() panics on them, where
\* serializer.go:70 says that it ignores them.
DecodedAsSent ==
    \A i \in DOMAIN got :
        LET f == sent[got[i][1]]
            clean == \A h \in DOMAIN f.headers : ~Ambiguous(h) /\ ~Ambiguous(f.headers[h])
        IN ~HasCR(f) => (got[i][2] = f) = clean

\* The id of an ACK after it was put into the MESSAGE m, read by the client, sent back
\* and scanned.
ScannedAck(m) ==
    LET r == Deserialize[Serialize(m)]
        a == Deserialize[Serialize(AckFrame(r.headers[Key("ack")], <<>>))]
    IN IF r.command # "MESSAGE" \/ a.command # "ACK" THEN <<"none">>
       ELSE ScanAckNum(a.headers[Key("id")])

\* The ACK of a MESSAGE names that message when it is scanned (subscribe.go:133),
\* exactly when its destination has no ":", no ambiguous text and no carriage return,
\* and no header of the SEND stands in for the ack header; in every order of the
\* headers.  Stated of a SEND that is about to be read.
AckIdExact ==
    nread = 0 => \A k \in DOMAIN sent : sent[k].command = "SEND" =>
        LET h == sent[k].headers
            dest == h[Key("destination")]
            msgs == MessageFrames(dest, <<"s">>, 1, <<>>, h, sent[k].body)
        IN (\A m \in msgs : ScannedAck(m) = <<dest, <<"s">>, 1>>) =
            /\ ToSet(dest) \cap {":", "CR"} = {} /\ ~Ambiguous(dest)
            /\ "CR" \notin ToSet(sent[k].body)
            /\ Keys({"ack", "Ack"}) \cap DOMAIN h = {}

\* The expectation of TestFrameScanner, which writes its frames in chunks of any
\* size: when the stream ends all of them have arrived.
AllFramesArrive == sc = "closed" => emitted = Len(sent)
=============================================================================
