------------------------------ MODULE Scanner ------------------------------
(***************************************************************************)
(* frame_scanner.go over a stream of frames of which only the layout       *)
(* matters: bufio.Scanner with its buffer, the goroutine of frameScanner() *)
(* that hands tokens over a channel, and the loop at the channel's other   *)
(* end (Start() of the session, or the reader of the client).  What        *)
(* frameSplitter() answers is given by positions, from 1, in the stream;   *)
(* FrameScanner replaces it by the function over the symbols.              *)
(***************************************************************************)
EXTENDS Integers, Sequences, FiniteSets

CONSTANTS
    StartBuf,   \* size of the scanner's first buffer, 4096 in bufio
    MaxToken,   \* its largest size, MaxScanTokenSize = 64 * 1024 in bufio
    MayCut      \* TRUE when the sending end may die in the middle of the stream

ASSUME ScannerAssumption ==
    /\ StartBuf \in Nat \ {0} /\ MaxToken \in Nat \ {0} /\ StartBuf <= MaxToken
    /\ MayCut \in BOOLEAN

VARIABLES
    ends,       \* the positions of the frames' first symbols, blank lines and NULs
    total,      \* how long the stream is
    nread,      \* how much of it was read
    start,      \* how much of it was consumed as tokens
    off, size,  \* where the rest begins in the scanner's buffer, and its size
    sc,         \* the scanner: "split", "fill", "read", "send", "closed"
    err,        \* its error: "", "EOF", "split", "too long"
    tok,        \* <<first, last>>: the token that Scan() found
    emitted,    \* how many tokens were handed over
    cons,       \* the loop: "recv", "decode", "stopped"
    held,       \* the token it is about to decode
    moved       \* the buffer was shifted since the loop has it

streamVars == <<ends, total>>
bufVars == <<nread, start, off, size>>
consVars == <<cons, held, moved>>
vars == <<streamVars, bufVars, sc, err, tok, emitted, consVars>>

\* Frames one after the other, with nothing or heartbeats between them.
Layout ==
    /\ total \in Nat
    /\ ends \in Seq([first : Nat, blank : Nat, nul : Nat])
    /\ \A k \in DOMAIN ends :
        /\ 0 < ends[k].first /\ ends[k].first < ends[k].blank
        /\ ends[k].blank < ends[k].nul /\ ends[k].nul <= total
    /\ \A j, k \in DOMAIN ends : j < k => ends[j].nul < ends[k].first

Init ==
    /\ Layout
    /\ nread = 0 /\ start = 0 /\ off = 0 /\ size = 0
    /\ sc = "fill" /\ err = "" /\ tok = <<>> /\ emitted = 0
    /\ cons = "recv" /\ held = <<>> /\ moved = FALSE

----------------------------------------------------------------------------
\* What frameSplitter() answers; the positions are those in its data.
NeedMore == [kind |-> "more"]
Bad == [kind |-> "error"]
Token(first, last) == [kind |-> "token", first |-> first, last |-> last]

\* The last symbol of a token: a newline that follows the NUL, if it was read, belongs
\* to the token.  Between frames there is nothing else.
TokenLast(k) ==
    LET after == ends[k].nul + 1 IN
    IF after <= nread /\ \A j \in DOMAIN ends : ends[j].first # after THEN after ELSE ends[k].nul

\* Heartbeats alone are no frame yet, a head must be whole, a body need not be.
Verdict ==
    LET k == emitted + 1 IN
    IF k > Len(ends) \/ nread < ends[k].first THEN NeedMore
    ELSE IF nread < ends[k].blank THEN Bad
    ELSE IF nread < ends[k].nul THEN NeedMore
    ELSE Token(ends[k].first - start, TokenLast(k) - start)

----------------------------------------------------------------------------
\* bufio.Scanner, the scanner's goroutine and the channel.

\* Scan() calls the splitter, which answers r, while there is data, and once more after
\* an error.
ScanSplit(r) ==
    /\ sc = "split"
    /\ \/ /\ r.kind = "token"
          /\ tok' = <<start + r.first, start + r.last>>
          /\ start' = start + r.last /\ off' = off + r.last
          /\ sc' = "send" /\ UNCHANGED err
       \/ /\ r.kind = "more"
          /\ sc' = IF err = "" THEN "fill" ELSE "closed"
          /\ UNCHANGED <<tok, start, off, err>>
       \/ /\ r.kind = "error"
          /\ err' = "split" /\ sc' = "closed"
          /\ UNCHANGED <<tok, start, off>>
    /\ UNCHANGED <<streamVars, nread, size, emitted, consVars>>

\* Makes room: the rest is shifted to the front of the buffer, and a full buffer is
\* replaced by one of twice its size while that is allowed.
ScanFill ==
    LET rest == nread - start
        shift == off > 0 /\ (off + rest = size \/ off > size \div 2)
        from == IF shift THEN 0 ELSE off
        full == from + rest = size
    IN /\ sc = "fill"
       /\ moved' = (moved \/ (shift /\ cons = "decode"))
       /\ IF full /\ size >= MaxToken
          THEN err' = "too long" /\ sc' = "closed" /\ off' = from /\ UNCHANGED size
          ELSE /\ sc' = "read" /\ UNCHANGED err
               /\ off' = IF full THEN 0 ELSE from
               /\ size' = IF ~full THEN size
                          ELSE IF size = 0 THEN StartBuf
                          ELSE IF 2 * size > MaxToken THEN MaxToken ELSE 2 * size
       /\ UNCHANGED <<streamVars, nread, start, tok, emitted, cons, held>>

\* conn.Read: some of what is on its way, as much as fits at most.
Read(k) ==
    /\ sc = "read"
    /\ nread + k <= total
    /\ off + (nread - start) + k <= size
    /\ nread' = nread + k
    /\ sc' = "split"
    /\ UNCHANGED <<streamVars, start, off, size, err, tok, emitted, consVars>>

\* The sending end has closed the connection, or died.
ReadEOF ==
    /\ sc = "read"
    /\ nread = total \/ MayCut
    /\ err' = "EOF" /\ sc' = "split"
    /\ UNCHANGED <<streamVars, bufVars, tok, emitted, consVars>>

\* ch <- scanner.Bytes(): without a buffer, and without a copy of the bytes.
HandOver ==
    /\ sc = "send" /\ cons = "recv"
    /\ emitted' = emitted + 1
    /\ cons' = "decode" /\ held' = tok /\ moved' = FALSE
    /\ sc' = "split"
    /\ UNCHANGED <<streamVars, bufVars, err, tok>>

ChannelClosed ==
    /\ sc = "closed" /\ cons = "recv"
    /\ cons' = "stopped"
    /\ UNCHANGED <<streamVars, bufVars, sc, err, tok, emitted, held, moved>>

\* The loop decodes and validates, and calls stateMachine(), which may end the loop.
Decode ==
    /\ cons = "decode"
    /\ cons' \in {"recv", "stopped"}
    /\ held' = <<>> /\ moved' = FALSE
    /\ UNCHANGED <<streamVars, bufVars, sc, err, tok, emitted>>

\* What the scanner does beside calling the splitter.
Transport ==
    \/ ScanFill \/ ReadEOF \/ HandOver \/ ChannelClosed
    \/ \E k \in 1 .. MaxToken : Read(k)

Next == ScanSplit(Verdict) \/ Transport \/ Decode

Spec == Init /\ [][Next]_vars

----------------------------------------------------------------------------
\* The type invariant of the scanner.
WireTypeOK ==
    /\ 0 <= start /\ start <= nread /\ nread <= total
    /\ 0 <= off /\ off + (nread - start) <= size /\ size <= MaxToken
    /\ sc \in {"split", "fill", "read", "send", "closed"}
    /\ err \in {"", "EOF", "split", "too long"}
    /\ cons \in {"recv", "decode", "stopped"}
    /\ moved => cons = "decode"
    /\ (held # <<>>) = (cons = "decode")
    /\ emitted <= Len(ends)

\* The token that the loop decodes is the next frame, whole, with at most one newline
\* after it: none is skipped, repeated, torn or merged (frame_scanner.go:86).
TokenIsFrame ==
    cons = "decode" =>
        /\ emitted \in DOMAIN ends
        /\ held[1] = ends[emitted].first
        /\ held[2] - ends[emitted].nul \in {0, 1}

\* However the scanner ends, with the stream or with an error of its own, every frame
\* that has arrived whole was handed over before (frame_scanner.go:107).
ArrivedIsEmitted ==
    sc = "closed" => emitted = Cardinality({k \in DOMAIN ends : ends[k].nul <= nread})

\* frameSplitter() refuses the stream only when a read ended inside the head of a
\* frame: never between frames or in a body.
StopsOnlyMidHead ==
    err = "split" => \E k \in DOMAIN ends : ends[k].first <= nread /\ nread < ends[k].blank

\* A token is too long only by one frame with the heartbeats before it, or by
\* heartbeats alone, which stay in the buffer until a frame follows them
\* (frame_scanner.go:24): never by several frames together.
TooLongNeeds ==
    err = "too long" =>
        IF emitted < Len(ends) THEN ends[emitted + 1].nul - start > MaxToken
        ELSE total - start >= MaxToken
=============================================================================
